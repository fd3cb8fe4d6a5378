------------------------- MODULE AgentMonitorTrigger -------------------------
(***************************************************************************)
(* Proof that the learn-time trigger shouldSyncOnLearnIPLocked enqueues a  *)
(* sync whenever a learning batch leaves an address the AgentInfo does not *)
(* show and the copy it consults is current (LearnSyncRequested).          *)
(***************************************************************************)
EXTENDS AgentMonitorProofs, FiniteSetTheorems, TLAPS

-----------------------------------------------------------------------------
(* The trigger is complete against an AgentInfo with unique valid keys *)

\* the cache keys form a finite set
LEMMA CacheKeysFinite ==
    ASSUME NEW c
    PROVE  IsFiniteSet({k \in Keys : CacheHas(c, k)})
  <1>1. IsFiniteSet(Keys)
    BY FinitenessAssumption, FS_Product DEF Keys
  <1>. QED BY <1>1, FS_Subset

\* When the AgentInfo holds at most one interface per valid key, a cached
\* address it does not show makes shouldSyncOnLearnIPLocked answer TRUE:
\* either an interface of that key lacks it (the content check), or no
\* interface has that key and fewer interfaces than cache keys match (the
\* count check).
LEMMA TriggerComplete ==
    ASSUME NEW c, NEW v \in RemoteObj, UniqueValidKeys(v.ifaces),
           Unreflected(c, v)
    PROVE  ShouldSyncOnLearnIP(c, v)
  <1>1. CASE ~v.found
    BY <1>1 DEF ShouldSyncOnLearnIP
  <1>2. CASE v.found
    <2>1. PICK k \in Keys, ip \in GlobalIPs :
                 /\ c[k][ip] > 0
                 /\ \A r \in v.ifaces : Key(r) = k => r.ipmap[ip] = 0
      BY DEF Unreflected
    <2>2. CacheHas(c, k)
      BY <2>1 DEF CacheHas
    <2>3. CASE \E r \in v.ifaces : Key(r) = k
      BY <2>1, <2>2, <2>3 DEF ShouldSyncOnLearnIP
    <2>4. CASE \A r \in v.ifaces : Key(r) # k
      <3> DEFINE A == {r \in v.ifaces : CacheHas(c, Key(r))}
                 B == {kk \in Keys : CacheHas(c, kk)}
                 f == [r \in A |-> Key(r)]
      <3>1. IsFiniteSet(B) /\ k \in B
        BY <2>2, CacheKeysFinite
      <3>2. /\ IsFiniteSet(B \ {k})
            /\ Cardinality(B \ {k}) = Cardinality(B) - 1
        BY <3>1, FS_RemoveElement
      <3>3. f \in [A -> B \ {k}]
        BY <2>4 DEF CacheHas
      <3>4. \A r1, r2 \in A : f[r1] = f[r2] => r1 = r2
        <4> SUFFICES ASSUME NEW r1 \in A, NEW r2 \in A, Key(r1) = Key(r2)
                     PROVE  r1 = r2
          OBVIOUS
        <4>1. r1.ofport \in Ofports
          BY DEF CacheHas, Keys, Key
        <4>2. r1.ofport # 0
          BY <4>1, OfportsAssumption
        <4>. QED BY <4>2 DEF UniqueValidKeys
      <3>5. f \in Injection(A, B \ {k})
        BY <3>3, <3>4 DEF Injection, IsInjective
      <3>6. IsFiniteSet(A) /\ Cardinality(A) <= Cardinality(B \ {k})
        BY <3>2, <3>5, FS_Injection
      <3>7. Cardinality(A) \in Nat /\ Cardinality(B) \in Nat
        BY <3>1, <3>6, FS_CardinalityType
      <3>8. Cardinality(A) # Cardinality(B)
        BY <3>2, <3>6, <3>7
      <3>. QED BY <3>8 DEF ShouldSyncOnLearnIP
    <2>. QED BY <2>3, <2>4
  <1>. QED BY <1>1, <1>2

-----------------------------------------------------------------------------
(* The AgentInfo holds at most one interface per valid key *)

\* OVSDB keeps the ofports of one bridge unique: two present rows of a
\* bridge share an ofport only when neither has a valid one
OvsUnique(m) ==
    \A i, j \in Ifaces :
        (/\ i # j /\ m[i].present /\ m[j].present
         /\ m[i].br = m[j].br /\ m[i].ofport = m[j].ofport)
        => m[i].ofport = InvalidOfport

\* the mirror, the snapshot and the remote object keep valid keys unique
KeyInv ==
    /\ OvsUnique(ovs)
    /\ UniqueValidKeys(snap)
    /\ UniqueValidKeys(remote.ifaces)

LEMMA MirrorsUnique ==
    ASSUME NEW m \in Mirrors
    PROVE  OvsUnique(m)
  <1> SUFFICES ASSUME NEW i \in Ifaces, NEW j \in Ifaces, i # j,
                      m[i].present, m[j].present, m[i].br = m[j].br,
                      m[i].ofport = m[j].ofport,
                      m[i].ofport # InvalidOfport
               PROVE  FALSE
    BY DEF OvsUnique
  <1>1. OfportFree([m EXCEPT ![i] = AbsentRow], m[i].br, m[i].ofport)
    BY DEF Mirrors
  <1>2. [m EXCEPT ![i] = AbsentRow][j] = m[j]
    BY DEF Mirrors
  <1>. QED BY <1>1, <1>2 DEF OfportFree

\* a build from a mirror with unique ofports has unique valid keys
LEMMA GetAgentInfoUnique ==
    ASSUME NEW m \in [Ifaces -> OvsRow], OvsUnique(m), NEW cache
    PROVE  UniqueValidKeys(GetAgentInfo(m, cache))
  <1> SUFFICES ASSUME NEW i \in Reported(m), NEW j \in Reported(m),
                      FetchInterface(m, cache, i).ofport # 0,
                      Key(FetchInterface(m, cache, i))
                        = Key(FetchInterface(m, cache, j))
               PROVE  FetchInterface(m, cache, i) = FetchInterface(m, cache, j)
    BY DEF UniqueValidKeys, GetAgentInfo
  <1>1. /\ m[i].ofport # InvalidOfport /\ m[j].ofport # InvalidOfport
        /\ m[i].ofport = m[j].ofport /\ m[i].br = m[j].br
    BY DEF FetchInterface, Key
  <1>2. i = j
    BY <1>1 DEF OvsUnique, Reported
  <1>. QED BY <1>2

\* the mirror actions keep ofports unique within a bridge
LEMMA OvsStep == TypeOK /\ OvsUnique(ovs) /\ [Next]_vars => OvsUnique(ovs')
  <1> SUFFICES ASSUME TypeOK, OvsUnique(ovs), [Next]_vars PROVE OvsUnique(ovs')
    OBVIOUS
  <1>1. CASE OvsAddInterface
    <2>1. PICK i \in Ifaces, b \in Bridges, p \in Ofports \cup {InvalidOfport} :
                 /\ OfportFree(ovs, b, p)
                 /\ ovs' = [ovs EXCEPT ![i] = [present |-> TRUE, br |-> b,
                                               ofport |-> p, err |-> FALSE]]
      BY <1>1 DEF OvsAddInterface
    <2>. QED BY <2>1 DEF OvsUnique, OfportFree, TypeOK
  <1>2. CASE OvsSetOfport
    <2>1. PICK i \in Ifaces, p \in Ofports \cup {InvalidOfport} :
                 /\ ovs[i].present
                 /\ p # ovs[i].ofport
                 /\ OfportFree(ovs, ovs[i].br, p)
                 /\ ovs' = [ovs EXCEPT ![i].ofport = p]
      BY <1>2 DEF OvsSetOfport
    <2>. QED BY <2>1 DEF OvsUnique, OfportFree, TypeOK, OvsRow
  <1>3. CASE OvsSetError
    <2>1. PICK i \in Ifaces : ovs' = [ovs EXCEPT ![i].err = ~ovs[i].err]
      BY <1>3 DEF OvsSetError
    <2>. QED BY <2>1 DEF OvsUnique, TypeOK, OvsRow
  <1>4. CASE OvsDeleteInterface
    <2>1. PICK i \in Ifaces : ovs' = [ovs EXCEPT ![i] = AbsentRow]
      BY <1>4 DEF OvsDeleteInterface
    <2>. QED BY <2>1 DEF OvsUnique, TypeOK, AbsentRow
  <1>5. CASE ~OvsAddInterface /\ ~OvsSetOfport /\ ~OvsSetError
             /\ ~OvsDeleteInterface
    <2>1. ovs' = ovs
      BY <1>5, Zenon
      DEF Next, Worker, OvsNext, OvsTear, OvsMend, UpdateOfPortIPAddress,
          PeriodicallySyncAgentInfo, RetryAfterFires, SyncAgentInfoWorkerGet,
          SyncAgentInfoBuild, SyncAgentInfoFetch, SyncAgentInfoCreate,
          SyncAgentInfoUpdate, InformerList, InformerWatch, ExternalUpdate,
          AgentRestart, vars
    <2>. QED BY <2>1
  <1>. QED BY <1>1, <1>2, <1>3, <1>4, <1>5

\* every step keeps valid keys unique in the mirror, the snapshot built
\* from it and the object written from the snapshot
LEMMA KeyStep == IInv /\ KeyInv /\ [Next]_vars => KeyInv'
  <1> SUFFICES ASSUME IInv, KeyInv, [Next]_vars PROVE KeyInv'
    OBVIOUS
  <1>0. UniqueValidKeys({})
    BY DEF UniqueValidKeys
  <1>1. OvsUnique(ovs')
    BY OvsStep DEF IInv, KeyInv
  <1>2. UniqueValidKeys(snap')
    <2>1. CASE SyncAgentInfoBuild
      <3>1. snap' = {} \/ snap' = GetAgentInfo(ovs, ipCache)
        BY <2>1, Zenon DEF SyncAgentInfoBuild, EndAttempt
      <3>. QED BY <1>0, <3>1, GetAgentInfoUnique DEF IInv, TypeOK, KeyInv
    <2>2. CASE ~SyncAgentInfoBuild
      <3>1. snap' = {} \/ snap' = snap
        BY <2>2, Zenon
        DEF Next, Worker, SyncAgentInfoFetch, SyncAgentInfoCreate,
            SyncAgentInfoUpdate, AgentRestart, EndAttempt,
            UpdateOfPortIPAddress, PeriodicallySyncAgentInfo, RetryAfterFires,
            SyncAgentInfoWorkerGet, InformerList, InformerWatch,
            ExternalUpdate, OvsNext, vars
      <3>. QED BY <1>0, <3>1 DEF KeyInv
    <2>. QED BY <2>1, <2>2
  <1>3. UniqueValidKeys(remote'.ifaces)
    <2>1. CASE remote' = remote
      BY <2>1 DEF KeyInv
    <2>2. CASE remote' # remote
      <3>1. /\ snap \in SUBSET IfaceRec
            /\ UniqueValidKeys(snap)
        BY DEF IInv, TypeOK, KeyInv
      <3>2. UniqueValidKeys(MergeAgentInfo(snap, remote.ifaces))
        BY <3>1, MergeUniqueValidKeys
      <3>. QED BY <2>2, <3>1, <3>2, RemoteChange
    <2>. QED BY <2>1, <2>2
  <1>. QED BY <1>1, <1>2, <1>3 DEF KeyInv

\* In every reachable state OVSDB keeps ofports unique within a bridge, and
\* so the snapshot getAgentInfo builds and the AgentInfo object written from
\* it hold at most one interface per bridge and valid ofport.
THEOREM KeysUnique == Spec => []KeyInv
  <1>1. Init => KeyInv
    <2> SUFFICES ASSUME Init PROVE KeyInv
      OBVIOUS
    <2>1. OvsUnique(ovs)
      BY MirrorsUnique DEF Init
    <2>2. UniqueValidKeys(snap) /\ UniqueValidKeys(remote.ifaces)
      BY DEF Init, NotFound, UniqueValidKeys
    <2>. QED BY <2>1, <2>2 DEF KeyInv
  <1>. QED BY <1>1, KeyStep, IInvCorrect, PTL DEF Spec

-----------------------------------------------------------------------------
(* The learn-time trigger *)

\* a learning batch over an AgentInfo copy that is current requests a sync
\* whenever it leaves an address that AgentInfo does not show
LEMMA LearnStep ==
    IInv /\ KeyInv /\ [Next]_vars
      => [now' = now + 1 /\ ~(infSynced /\ infStale)
            /\ Unreflected(ipCache', remote) => dirty']_vars
  <1> SUFFICES ASSUME IInv, KeyInv, [Next]_vars, now' = now + 1,
                      ~(infSynced /\ infStale), Unreflected(ipCache', remote)
               PROVE  dirty'
    OBVIOUS
  <1>1. remote \in RemoteObj /\ UniqueValidKeys(remote.ifaces)
        /\ now \in Nat
    BY LearnAssumption DEF IInv, TypeOK, KeyInv
  <1>2. CASE ~UpdateOfPortIPAddress
    <2>1. now' = now
      BY <1>2, Zenon
      DEF Next, Worker, SyncAgentInfoWorkerGet, SyncAgentInfoBuild,
          SyncAgentInfoFetch, SyncAgentInfoCreate, SyncAgentInfoUpdate,
          AgentRestart, PeriodicallySyncAgentInfo, RetryAfterFires,
          InformerList, InformerWatch, ExternalUpdate, OvsNext,
          OvsAddInterface, OvsSetOfport, OvsSetError, OvsDeleteInterface,
          OvsTear, OvsMend, vars
    <2>. QED BY <1>1, <2>1
  <1>3. CASE UpdateOfPortIPAddress
    <2>1. \/ infSynced /\ dirty' = (dirty \/ ShouldSyncOnLearnIP(ipCache', infObj))
          \/ ~infSynced /\ dirty' = (dirty \/ ShouldSyncOnLearnIP(ipCache', remote))
          \/ dirty' = TRUE
      BY <1>3, Zenon DEF UpdateOfPortIPAddress
    <2>2. ShouldSyncOnLearnIP(ipCache', remote)
      BY <1>1, TriggerComplete
    <2>3. infSynced => infObj = remote
      BY DEF IInv, InformerAccurate
    <2>. QED BY <2>1, <2>2, <2>3
  <1>. QED BY <1>2, <1>3

\* LearnSyncRequested for every value of the constants: when
\* updateOfPortIPAddress learns an address that the AgentInfo does not
\* show, and the informer copy it consults is not outdated by a later write,
\* shouldSyncOnLearnIPLocked enqueues a sync.
THEOREM LearnTriggerComplete == Spec => LearnSyncRequested
  BY KeysUnique, IInvCorrect, LearnStep, PTL DEF Spec, LearnSyncRequested

=============================================================================
