------------------------- MODULE AgentMonitorProofs -------------------------
(***************************************************************************)
(* Proofs about AgentMonitor for every value of its constants.             *)
(***************************************************************************)
EXTENDS AgentMonitor, AgentInfoDataProofs, TLAPS


-----------------------------------------------------------------------------
(* Lemmas on the operators the snapshot and the merge are built from *)

\* fetchInterfaceLocked yields a well-formed interface record
LEMMA FetchInterfaceType ==
    ASSUME NEW m \in [Ifaces -> OvsRow], NEW cache \in [Keys -> IPMaps],
           NEW i \in Ifaces
    PROVE  FetchInterface(m, cache, i) \in IfaceRec
  <1>1. CASE m[i].ofport # InvalidOfport
    <2>1. m[i].ofport \in Ofports /\ m[i].br \in Bridges
      BY <1>1 DEF OvsRow
    <2>2. <<m[i].br, m[i].ofport>> \in Keys
      BY <2>1 DEF Keys
    <2>. QED BY <1>1, <2>1, <2>2 DEF FetchInterface, IfaceRec
  <1>2. CASE m[i].ofport = InvalidOfport
    BY <1>2, BoundsAssumption, LearnAssumption DEF FetchInterface, IfaceRec, OvsRow, NoIPs, IPMaps
  <1>. QED BY <1>1, <1>2

\* getAgentInfo yields a set of interface records
LEMMA GetAgentInfoType ==
    ASSUME NEW m \in [Ifaces -> OvsRow], NEW cache \in [Keys -> IPMaps]
    PROVE  GetAgentInfo(m, cache) \in SUBSET IfaceRec
  BY FetchInterfaceType DEF GetAgentInfo, Reported

\* the merge written through the aliased cache maps keeps the cache typed
LEMMA MergedCacheType ==
    ASSUME NEW cache \in [Keys -> IPMaps], NEW local \in SUBSET IfaceRec,
           NEW o \in SUBSET IfaceRec
    PROVE  MergedCache(cache, local, o) \in [Keys -> IPMaps]
  <1> SUFFICES ASSUME NEW k \in Keys,
                      CacheHas(cache, k) /\ \E r \in local : Key(r) = k
               PROVE  MergeIface(CHOOSE r \in local : Key(r) = k, o).ipmap
                        \in IPMaps
    BY DEF MergedCache
  <1>1. (CHOOSE r \in local : Key(r) = k) \in IfaceRec
    OBVIOUS
  <1>. QED BY <1>1, MergeIfaceType DEF IfaceRec

-----------------------------------------------------------------------------
(* Type correctness *)

\* the Boolean-valued variables; Zenon types them, SMT the rest
BoolOK ==
    /\ ovsTorn \in BOOLEAN
    /\ infSynced \in BOOLEAN
    /\ infStale \in BOOLEAN
    /\ dirty \in BOOLEAN
    /\ processing \in BOOLEAN
    /\ waiting \in BOOLEAN
    /\ originCurrent \in BOOLEAN

\* the initial state is well typed
LEMMA InitTypeOK == Init => TypeOK
  <1>1. AbsentRow \in OvsRow
    BY BridgesAssumption DEF AbsentRow, OvsRow
  <1>. SUFFICES ASSUME Init PROVE TypeOK
    OBVIOUS
  <1>2. EmptyCache \in [Keys -> IPMaps]
    BY BoundsAssumption, LearnAssumption DEF EmptyCache, NoIPs, IPMaps
  <1>3. NotFound \in RemoteObj
    BY DEF NotFound, RemoteObj
  <1>4. BoolOK
    BY Zenon DEF Init, BoolOK
  <1>5. /\ 0 \in 0..MaxOvsChange /\ 0 \in 0..MaxLearn /\ 0 \in 0..MaxFail
        /\ 0 \in 0..MaxRestart /\ 0 \in 0..MaxExternal
    BY BoundsAssumption, LearnAssumption
  <1>. QED BY <1>2, <1>3, <1>4, <1>5 DEF Init, TypeOK, Mirrors, BoolOK

\* every step keeps the state well typed
LEMMA TypeStep == TypeOK /\ [Next]_vars => TypeOK'
  <1> SUFFICES ASSUME TypeOK, [Next]_vars PROVE TypeOK'
    OBVIOUS
  <1>0. /\ EmptyCache \in [Keys -> IPMaps]
        /\ NotFound \in RemoteObj
        /\ AbsentRow \in OvsRow
    BY BoundsAssumption, LearnAssumption, BridgesAssumption
    DEF EmptyCache, NoIPs, IPMaps, NotFound, RemoteObj, AbsentRow, OvsRow
  <1>1. CASE UpdateOfPortIPAddress
    <2>1. PICK dom \in SUBSET Keys \ {{}} :
            \E batch \in [dom -> GlobalIPs \cup OtherIPs] :
              ipCache' = [k \in Keys |->
                            IF k \in dom /\ batch[k] \in GlobalIPs
                            THEN [ip \in GlobalIPs |->
                                    IF ip = batch[k] THEN now + 1 ELSE 0]
                            ELSE ipCache[k]]
      BY <1>1 DEF UpdateOfPortIPAddress
    <2>0. PICK batch \in [dom -> GlobalIPs \cup OtherIPs] :
              ipCache' = [k \in Keys |->
                            IF k \in dom /\ batch[k] \in GlobalIPs
                            THEN [ip \in GlobalIPs |->
                                    IF ip = batch[k] THEN now + 1 ELSE 0]
                            ELSE ipCache[k]]
      BY <2>1
    <2>2. now + 1 \in 0..MaxLearn
      BY <1>1, BoundsAssumption, LearnAssumption DEF UpdateOfPortIPAddress, TypeOK
    <2>3. ipCache' \in [Keys -> IPMaps]
      <3> SUFFICES ASSUME NEW k \in Keys PROVE ipCache'[k] \in IPMaps
        BY <2>0
      <3>1. CASE k \in dom /\ batch[k] \in GlobalIPs
        <4>1. ipCache'[k] = [ip \in GlobalIPs |->
                               IF ip = batch[k] THEN now + 1 ELSE 0]
          BY <3>1, <2>0
        <4>. QED BY <4>1, <2>2, BoundsAssumption, LearnAssumption DEF IPMaps
      <3>2. CASE ~(k \in dom /\ batch[k] \in GlobalIPs)
        BY <3>2, <2>0 DEF TypeOK
      <3>. QED BY <3>1, <3>2
    <2>4. BoolOK'
      BY <1>1, Zenon DEF UpdateOfPortIPAddress, Fail, TypeOK, BoolOK
    <2>5. fails' \in 0..MaxFail
      BY <1>1, BoundsAssumption, LearnAssumption DEF UpdateOfPortIPAddress, Fail, TypeOK
    <2>. QED BY <1>1, <2>2, <2>3, <2>4, <2>5
             DEF UpdateOfPortIPAddress, TypeOK, BoolOK
  <1>2. CASE PeriodicallySyncAgentInfo
    <2>1. BoolOK'
      BY <1>2, Zenon DEF PeriodicallySyncAgentInfo, QueueAdd, TypeOK, BoolOK
    <2>. QED BY <1>2, <2>1 DEF PeriodicallySyncAgentInfo, TypeOK, BoolOK
  <1>3. CASE RetryAfterFires
    <2>1. BoolOK'
      BY <1>3, Zenon DEF RetryAfterFires, QueueAdd, TypeOK, BoolOK
    <2>. QED BY <1>3, <2>1 DEF RetryAfterFires, TypeOK, BoolOK
  <1>4. CASE SyncAgentInfoWorkerGet
    <2>1. BoolOK'
      BY <1>4, Zenon DEF SyncAgentInfoWorkerGet, TypeOK, BoolOK
    <2>. QED BY <1>4, <2>1 DEF SyncAgentInfoWorkerGet, TypeOK, BoolOK
  <1>5. CASE SyncAgentInfoBuild
    <2>1. GetAgentInfo(ovs, ipCache) \in SUBSET IfaceRec
      BY GetAgentInfoType DEF TypeOK
    <2>2. BoolOK'
      BY <1>5, Zenon DEF SyncAgentInfoBuild, BuildFails, EndAttempt, TypeOK, BoolOK
    <2>. QED BY <1>5, <2>1, <2>2, <1>0
             DEF SyncAgentInfoBuild, BuildFails, EndAttempt, TypeOK, BoolOK
  <1>6. CASE SyncAgentInfoFetch
    <2>1. BoolOK'
      BY <1>6, Zenon DEF SyncAgentInfoFetch, EndAttempt, Fail, TypeOK, BoolOK
    <2>. QED BY <1>6, <2>1, <1>0, BoundsAssumption, LearnAssumption
             DEF SyncAgentInfoFetch, EndAttempt, Fail, TypeOK, BoolOK
  <1>7. CASE SyncAgentInfoCreate
    <2>1. [found |-> TRUE, ifaces |-> snap] \in RemoteObj
      BY DEF TypeOK, RemoteObj
    <2>2. BoolOK'
      BY <1>7, Zenon
      DEF SyncAgentInfoCreate, RemoteWrite, EndAttempt, Fail, TypeOK, BoolOK
    <2>3. remote' \in RemoteObj
      BY <1>7, <2>1, Zenon DEF SyncAgentInfoCreate, RemoteWrite, TypeOK
    <2>4. fails' \in 0..MaxFail
      <3>1. fails' = fails \/ (fails < MaxFail /\ fails' = fails + 1)
        BY <1>7, Zenon DEF SyncAgentInfoCreate, Fail
      <3>. QED BY <3>1, BoundsAssumption, LearnAssumption DEF TypeOK
    <2>5. /\ wpc' = "idle" /\ snap' = {} /\ origin' = NotFound
      BY <1>7, Zenon DEF SyncAgentInfoCreate, EndAttempt
    <2>6. UNCHANGED <<ovs, ovsTorn, ovsChanges, ipCache, now, infSynced,
                      infObj, dirty, restarts, externals>>
      BY <1>7 DEF SyncAgentInfoCreate
    <2>. QED BY <1>0, <2>2, <2>3, <2>4, <2>5, <2>6 DEF TypeOK, BoolOK
  <1>8. CASE SyncAgentInfoUpdate
    <2>1. origin.ifaces \in SUBSET IfaceRec
      BY DEF TypeOK, RemoteObj
    <2>2. [found |-> TRUE,
           ifaces |-> MergeAgentInfo(snap, origin.ifaces)] \in RemoteObj
      BY <2>1, MergeAgentInfoType DEF TypeOK, RemoteObj
    <2>3. MergedCache(ipCache, snap, origin.ifaces) \in [Keys -> IPMaps]
      BY <2>1, MergedCacheType DEF TypeOK
    <2>4. BoolOK'
      BY <1>8, Zenon
      DEF SyncAgentInfoUpdate, RemoteWrite, ClearIPCache, EndAttempt,
          Fail, TypeOK, BoolOK
    <2>5. remote' \in RemoteObj
      BY <1>8, <2>2, Zenon DEF SyncAgentInfoUpdate, RemoteWrite, TypeOK
    <2>6. ipCache' \in [Keys -> IPMaps]
      BY <1>8, <1>0, <2>3, Zenon
      DEF SyncAgentInfoUpdate, ClearIPCache, TypeOK
    <2>7. fails' \in 0..MaxFail
      <3>1. fails' = fails \/ (fails < MaxFail /\ fails' = fails + 1)
        BY <1>8, Zenon DEF SyncAgentInfoUpdate, Fail
      <3>. QED BY <3>1, BoundsAssumption, LearnAssumption DEF TypeOK
    <2>8. /\ wpc' = "idle" /\ snap' = {} /\ origin' = NotFound
      BY <1>8, Zenon DEF SyncAgentInfoUpdate, EndAttempt
    <2>9. UNCHANGED <<ovs, ovsTorn, ovsChanges, now, infSynced, infObj,
                      dirty, restarts, externals>>
      BY <1>8 DEF SyncAgentInfoUpdate
    <2>. QED BY <1>0, <2>4, <2>5, <2>6, <2>7, <2>8, <2>9 DEF TypeOK, BoolOK
  <1>9. CASE InformerList
    <2>1. BoolOK'
      BY <1>9, Zenon DEF InformerList, TypeOK, BoolOK
    <2>. QED BY <1>9, <2>1 DEF InformerList, TypeOK, BoolOK
  <1>10. CASE InformerWatch
    <2>1. BoolOK'
      BY <1>10, Zenon DEF InformerWatch, TypeOK, BoolOK
    <2>. QED BY <1>10, <2>1 DEF InformerWatch, TypeOK, BoolOK
  <1>11. CASE ExternalUpdate
    <2>1. BoolOK'
      BY <1>11, Zenon DEF ExternalUpdate, TypeOK, BoolOK
    <2>. QED BY <1>11, <2>1, BoundsAssumption, LearnAssumption
             DEF ExternalUpdate, TypeOK, BoolOK
  <1>12. CASE AgentRestart
    <2>1. BoolOK'
      BY <1>12, Zenon DEF AgentRestart, TypeOK, BoolOK
    <2>. QED BY <1>12, <2>1, <1>0, BoundsAssumption, LearnAssumption
             DEF AgentRestart, TypeOK, BoolOK
  <1>13. CASE OvsNext
    <2>0. BoolOK'
      BY <1>13, Zenon
      DEF OvsNext, OvsAddInterface, OvsSetOfport, OvsSetError,
          OvsDeleteInterface, OvsTear, OvsMend, TypeOK, BoolOK
    <2>1. CASE OvsAddInterface
      BY <2>1, <2>0, <1>13, BoundsAssumption, LearnAssumption
      DEF OvsNext, OvsAddInterface, OvsChange, TypeOK, OvsRow, BoolOK
    <2>2. CASE OvsSetOfport
      BY <2>2, <2>0, <1>13, BoundsAssumption, LearnAssumption
      DEF OvsNext, OvsSetOfport, OvsChange, TypeOK, OvsRow, BoolOK
    <2>3. CASE OvsSetError
      <3>1. PICK i \in Ifaces : ovs' = [ovs EXCEPT ![i].err = ~ovs[i].err]
        BY <2>3 DEF OvsSetError
      <3>2. ovs' \in [Ifaces -> OvsRow]
        BY <3>1, Zenon DEF TypeOK, OvsRow
      <3>. QED BY <2>3, <2>0, <3>2, <1>13, BoundsAssumption, LearnAssumption
               DEF OvsNext, OvsSetError, OvsChange, TypeOK, BoolOK
    <2>4. CASE OvsDeleteInterface
      BY <2>4, <2>0, <1>13, <1>0, BoundsAssumption, LearnAssumption
      DEF OvsNext, OvsDeleteInterface, OvsChange, TypeOK, BoolOK
    <2>5. CASE OvsTear
      BY <2>5, <2>0, <1>13, BoundsAssumption, LearnAssumption
      DEF OvsNext, OvsTear, OvsChange, TypeOK, BoolOK
    <2>6. CASE OvsMend
      BY <2>6, <2>0, <1>13 DEF OvsNext, OvsMend, TypeOK, BoolOK
    <2>. QED BY <1>13, <2>1, <2>2, <2>3, <2>4, <2>5, <2>6 DEF OvsNext
  <1>14. CASE UNCHANGED vars
    BY <1>14 DEF vars, TypeOK
  <1>. QED
    BY <1>1, <1>2, <1>3, <1>4, <1>5, <1>6, <1>7, <1>8, <1>9, <1>10,
       <1>11, <1>12, <1>13, <1>14 DEF Next, Worker

\* The type invariant: every variable stays in its domain, in particular
\* the snapshot, the merge and the aliased cache stay well formed and all
\* discovery times stay within the clock.
THEOREM TypeCorrect == Spec => []TypeOK
  BY InitTypeOK, TypeStep, PTL DEF Spec

-----------------------------------------------------------------------------
(* The inductive invariant behind IPMapNeverDropsAddress *)

\* the informer's copy is the remote object unless a write came after it
InformerAccurate == infSynced /\ ~infStale => infObj = remote

\* while the resourceVersion of the fetched object is still current, the
\* fetched object is the remote object
OriginAccurate == wpc = "write" /\ originCurrent => origin = remote

\* the inductive strengthening: the informer and the fetched object are
\* accurate while current, and same-key records agree on their IPMap
IInv ==
    /\ TypeOK
    /\ InformerAccurate
    /\ OriginAccurate
    /\ SameKeySameIPs(snap)
    /\ SameKeySameIPs(remote.ifaces)

\* getAgentInfo: two records of one key are either both without a valid
\* ofport (no addresses) or both read the same cache map
LEMMA GetAgentInfoSameKey ==
    ASSUME NEW m \in [Ifaces -> OvsRow], NEW cache \in [Keys -> IPMaps]
    PROVE  SameKeySameIPs(GetAgentInfo(m, cache))
  <1> SUFFICES ASSUME NEW i \in Reported(m), NEW j \in Reported(m),
                      Key(FetchInterface(m, cache, i))
                        = Key(FetchInterface(m, cache, j))
               PROVE  FetchInterface(m, cache, i).ipmap
                        = FetchInterface(m, cache, j).ipmap
    BY DEF SameKeySameIPs, GetAgentInfo
  <1>1. /\ m[i].ofport \in Ofports \cup {InvalidOfport}
        /\ m[j].ofport \in Ofports \cup {InvalidOfport}
        /\ 0 \notin Ofports
    BY OfportsAssumption DEF OvsRow, Reported
  <1>2. CASE m[i].ofport = InvalidOfport /\ m[j].ofport = InvalidOfport
    BY <1>2 DEF FetchInterface
  <1>3. CASE m[i].ofport # InvalidOfport /\ m[j].ofport # InvalidOfport
    BY <1>3 DEF FetchInterface, Key
  <1>4. CASE m[i].ofport = InvalidOfport /\ m[j].ofport # InvalidOfport
    BY <1>1, <1>4 DEF FetchInterface, Key, InvalidOfport
  <1>5. CASE m[i].ofport # InvalidOfport /\ m[j].ofport = InvalidOfport
    BY <1>1, <1>5 DEF FetchInterface, Key, InvalidOfport
  <1>. QED BY <1>2, <1>3, <1>4, <1>5

\* only a write (which marks the copy stale) changes the remote object, and
\* the informer only ever copies the current remote object
LEMMA InformerStep ==
    TypeOK /\ InformerAccurate /\ [Next]_vars => InformerAccurate'
  <1> SUFFICES ASSUME TypeOK, InformerAccurate, [Next]_vars
               PROVE  InformerAccurate'
    OBVIOUS
  <1>1. CASE SyncAgentInfoCreate \/ SyncAgentInfoUpdate
    <2>1. UNCHANGED <<infSynced, infObj>>
      BY <1>1 DEF SyncAgentInfoCreate, SyncAgentInfoUpdate
    <2>2. infStale' = TRUE \/ UNCHANGED <<infStale, remote>>
      BY <1>1, Zenon DEF SyncAgentInfoCreate, SyncAgentInfoUpdate, RemoteWrite
    <2>. QED BY <2>1, <2>2 DEF InformerAccurate
  <1>3. CASE InformerList \/ InformerWatch
    BY <1>3, Zenon DEF InformerList, InformerWatch, InformerAccurate
  <1>4. CASE ExternalUpdate \/ AgentRestart
    BY <1>4, Zenon DEF ExternalUpdate, AgentRestart, InformerAccurate
  <1>5. CASE \/ UpdateOfPortIPAddress \/ PeriodicallySyncAgentInfo
             \/ RetryAfterFires \/ SyncAgentInfoWorkerGet
             \/ SyncAgentInfoBuild \/ SyncAgentInfoFetch \/ OvsNext
             \/ UNCHANGED vars
    <2>1. UNCHANGED <<infSynced, infStale, infObj, remote>>
      BY <1>5, Zenon
      DEF UpdateOfPortIPAddress, PeriodicallySyncAgentInfo, RetryAfterFires,
          SyncAgentInfoWorkerGet, SyncAgentInfoBuild, SyncAgentInfoFetch,
          OvsNext, vars
    <2>. QED BY <2>1 DEF InformerAccurate
  <1>. QED BY <1>1, <1>3, <1>4, <1>5 DEF Next, Worker

\* the fetch takes either the remote object or the informer's copy, which
\* is current exactly when it is not stale; until the attempt writes, only
\* a foreign write changes the resourceVersion, and it marks origin stale
LEMMA OriginStep ==
    TypeOK /\ InformerAccurate /\ OriginAccurate /\ [Next]_vars
      => OriginAccurate'
  <1> SUFFICES ASSUME TypeOK, InformerAccurate, OriginAccurate, [Next]_vars
               PROVE  OriginAccurate'
    OBVIOUS
  <1>1. CASE SyncAgentInfoFetch
    BY <1>1, Zenon
    DEF SyncAgentInfoFetch, EndAttempt, InformerAccurate, OriginAccurate
  <1>2. CASE SyncAgentInfoCreate \/ SyncAgentInfoUpdate \/ SyncAgentInfoBuild
    <2>1. wpc' = "idle" \/ wpc' = "fetch"
      BY <1>2, Zenon
      DEF SyncAgentInfoCreate, SyncAgentInfoUpdate, SyncAgentInfoBuild,
          EndAttempt
    <2>. QED BY <2>1 DEF OriginAccurate
  <1>3. CASE SyncAgentInfoWorkerGet \/ AgentRestart
    BY <1>3 DEF SyncAgentInfoWorkerGet, AgentRestart, OriginAccurate
  <1>4. CASE ExternalUpdate
    BY <1>4 DEF ExternalUpdate, OriginAccurate
  <1>5. CASE \/ UpdateOfPortIPAddress \/ PeriodicallySyncAgentInfo
             \/ RetryAfterFires \/ InformerList \/ InformerWatch \/ OvsNext
             \/ UNCHANGED vars
    <2>1. UNCHANGED <<wpc, originCurrent, origin, remote>>
      BY <1>5, Zenon
      DEF UpdateOfPortIPAddress, PeriodicallySyncAgentInfo, RetryAfterFires,
          InformerList, InformerWatch, OvsNext, vars
    <2>. QED BY <2>1 DEF OriginAccurate
  <1>. QED BY <1>1, <1>2, <1>3, <1>4, <1>5 DEF Next, Worker

\* the snapshot is built by getAgentInfo or emptied
LEMMA SnapStep ==
    TypeOK /\ SameKeySameIPs(snap) /\ [Next]_vars => SameKeySameIPs(snap')
  <1> SUFFICES ASSUME TypeOK, SameKeySameIPs(snap), [Next]_vars
               PROVE  SameKeySameIPs(snap')
    OBVIOUS
  <1>0. SameKeySameIPs({})
    BY DEF SameKeySameIPs
  <1>1. CASE SyncAgentInfoBuild
    <2>1. snap' = {} \/ snap' = GetAgentInfo(ovs, ipCache)
      BY <1>1, Zenon DEF SyncAgentInfoBuild, EndAttempt
    <2>. QED BY <1>0, <2>1, GetAgentInfoSameKey DEF TypeOK
  <1>2. CASE \/ SyncAgentInfoFetch \/ SyncAgentInfoCreate
             \/ SyncAgentInfoUpdate \/ AgentRestart
    <2>1. snap' = {} \/ snap' = snap
      BY <1>2, Zenon
      DEF SyncAgentInfoFetch, SyncAgentInfoCreate, SyncAgentInfoUpdate,
          AgentRestart, EndAttempt
    <2>. QED BY <1>0, <2>1
  <1>3. CASE \/ UpdateOfPortIPAddress \/ PeriodicallySyncAgentInfo
             \/ RetryAfterFires \/ SyncAgentInfoWorkerGet
             \/ InformerList \/ InformerWatch \/ ExternalUpdate \/ OvsNext
             \/ UNCHANGED vars
    <2>1. snap' = snap
      BY <1>3, Zenon
      DEF UpdateOfPortIPAddress, PeriodicallySyncAgentInfo, RetryAfterFires,
          SyncAgentInfoWorkerGet, InformerList, InformerWatch,
          ExternalUpdate, OvsNext, vars
    <2>. QED BY <2>1
  <1>. QED BY <1>1, <1>2, <1>3 DEF Next, Worker

\* the remote object is only ever written with the snapshot or with its
\* merge
LEMMA RemoteStep ==
    TypeOK /\ SameKeySameIPs(snap) /\ SameKeySameIPs(remote.ifaces)
      /\ [Next]_vars => SameKeySameIPs(remote'.ifaces)
  <1> SUFFICES ASSUME TypeOK, SameKeySameIPs(snap),
                      SameKeySameIPs(remote.ifaces), [Next]_vars
               PROVE  SameKeySameIPs(remote'.ifaces)
    OBVIOUS
  <1>1. CASE SyncAgentInfoCreate
    <2>1. remote' = remote \/ remote' = [found |-> TRUE, ifaces |-> snap]
      BY <1>1, Zenon DEF SyncAgentInfoCreate, RemoteWrite
    <2>. QED BY <2>1
  <1>2. CASE SyncAgentInfoUpdate
    <2>1. \/ remote' = remote
          \/ remote' = [found |-> TRUE,
                        ifaces |-> MergeAgentInfo(snap, origin.ifaces)]
      BY <1>2, Zenon DEF SyncAgentInfoUpdate, RemoteWrite
    <2>2. SameKeySameIPs(MergeAgentInfo(snap, origin.ifaces))
      BY MergeSameKey DEF TypeOK
    <2>. QED BY <2>1, <2>2
  <1>3. CASE \/ UpdateOfPortIPAddress \/ PeriodicallySyncAgentInfo
             \/ RetryAfterFires \/ SyncAgentInfoWorkerGet
             \/ SyncAgentInfoBuild \/ SyncAgentInfoFetch
             \/ InformerList \/ InformerWatch \/ ExternalUpdate
             \/ AgentRestart \/ OvsNext \/ UNCHANGED vars
    <2>1. remote' = remote
      BY <1>3, Zenon
      DEF UpdateOfPortIPAddress, PeriodicallySyncAgentInfo, RetryAfterFires,
          SyncAgentInfoWorkerGet, SyncAgentInfoBuild, SyncAgentInfoFetch,
          InformerList, InformerWatch, ExternalUpdate, AgentRestart,
          OvsNext, vars
    <2>. QED BY <2>1
  <1>. QED BY <1>1, <1>2, <1>3 DEF Next, Worker

\* the initial state satisfies the inductive invariant
LEMMA InitIInv == Init => IInv
  <1> SUFFICES ASSUME Init PROVE IInv
    OBVIOUS
  <1>1. TypeOK
    BY InitTypeOK
  <1>2. InformerAccurate /\ OriginAccurate
    BY Zenon DEF Init, InformerAccurate, OriginAccurate
  <1>3. SameKeySameIPs(snap) /\ SameKeySameIPs(remote.ifaces)
    BY DEF Init, NotFound, SameKeySameIPs
  <1>. QED BY <1>1, <1>2, <1>3 DEF IInv

\* The informer's copy and the fetched object are the remote object while
\* they are current, and records of one bridge and ofport carry one IPMap,
\* in every reachable state.
THEOREM IInvCorrect == Spec => []IInv
  <1>1. IInv /\ [Next]_vars => IInv'
    BY TypeStep, InformerStep, OriginStep, SnapStep, RemoteStep DEF IInv
  <1>. QED BY InitIInv, <1>1, PTL DEF Spec

\* the remote object changes only by the worker's Create when none exists,
\* or by its Update with a current resourceVersion, whose origin is then
\* the remote object itself
LEMMA RemoteChange ==
    ASSUME IInv, [Next]_vars, remote' # remote
    PROVE  \/ /\ ~remote.found
              /\ remote' = [found |-> TRUE, ifaces |-> snap]
           \/ /\ remote.found
              /\ remote' = [found |-> TRUE,
                            ifaces |-> MergeAgentInfo(snap, remote.ifaces)]
  <1>1. CASE SyncAgentInfoCreate
    BY <1>1, Zenon DEF SyncAgentInfoCreate, RemoteWrite
  <1>2. CASE SyncAgentInfoUpdate
    <2>1. /\ originCurrent /\ wpc = "write" /\ origin.found
          /\ remote' = [found |-> TRUE,
                        ifaces |-> MergeAgentInfo(snap, origin.ifaces)]
      BY <1>2, Zenon DEF SyncAgentInfoUpdate, RemoteWrite
    <2>2. origin = remote
      BY <2>1 DEF IInv, OriginAccurate
    <2>. QED BY <2>1, <2>2
  <1>3. CASE \/ UpdateOfPortIPAddress \/ PeriodicallySyncAgentInfo
             \/ RetryAfterFires \/ SyncAgentInfoWorkerGet
             \/ SyncAgentInfoBuild \/ SyncAgentInfoFetch
             \/ InformerList \/ InformerWatch \/ ExternalUpdate
             \/ AgentRestart \/ OvsNext \/ UNCHANGED vars
    <2>1. remote' = remote
      BY <1>3, Zenon
      DEF UpdateOfPortIPAddress, PeriodicallySyncAgentInfo,
          RetryAfterFires, SyncAgentInfoWorkerGet, SyncAgentInfoBuild,
          SyncAgentInfoFetch, InformerList, InformerWatch,
          ExternalUpdate, AgentRestart, OvsNext, vars
    <2>. QED BY <2>1
  <1>. QED BY <1>1, <1>2, <1>3 DEF Next, Worker

\* each step keeps every address of an interface whose key stays
LEMMA AddressesKeptStep == IInv /\ [Next]_vars => [AddressesKept]_vars
  <1> SUFFICES ASSUME IInv, [Next]_vars PROVE AddressesKept
    OBVIOUS
  <1>1. CASE remote' = remote
    BY <1>1 DEF AddressesKept, KeepsAddresses, IInv, SameKeySameIPs
  <1>2. CASE ~remote.found
    BY <1>2 DEF AddressesKept, KeepsAddresses
  <1>3. CASE remote' # remote /\ remote.found
    <2>1. /\ remote' = [found |-> TRUE,
                        ifaces |-> MergeAgentInfo(snap, origin.ifaces)]
          /\ wpc = "write" /\ originCurrent
      <3>1. CASE SyncAgentInfoUpdate
        BY <1>3, <3>1, Zenon DEF SyncAgentInfoUpdate, RemoteWrite
      <3>2. CASE SyncAgentInfoCreate
        BY <1>3, <3>2, Zenon DEF SyncAgentInfoCreate
      <3>3. CASE \/ UpdateOfPortIPAddress \/ PeriodicallySyncAgentInfo
                 \/ RetryAfterFires \/ SyncAgentInfoWorkerGet
                 \/ SyncAgentInfoBuild \/ SyncAgentInfoFetch
                 \/ InformerList \/ InformerWatch \/ ExternalUpdate
                 \/ AgentRestart \/ OvsNext \/ UNCHANGED vars
        <4>1. remote' = remote
          BY <3>3, Zenon
          DEF UpdateOfPortIPAddress, PeriodicallySyncAgentInfo,
              RetryAfterFires, SyncAgentInfoWorkerGet, SyncAgentInfoBuild,
              SyncAgentInfoFetch, InformerList, InformerWatch,
              ExternalUpdate, AgentRestart, OvsNext, vars
        <4>. QED BY <4>1, <1>3
      <3>. QED BY <3>1, <3>2, <3>3 DEF Next, Worker
    <2>2. origin = remote
      BY <2>1 DEF IInv, OriginAccurate
    <2>3. /\ snap \in SUBSET IfaceRec
          /\ remote.ifaces \in SUBSET IfaceRec
          /\ SameKeySameIPs(remote.ifaces)
      BY DEF IInv, TypeOK, RemoteObj
    <2>. QED BY <2>1, <2>2, <2>3, MergeKeepsAddresses DEF AddressesKept, KeepsAddresses
  <1>. QED BY <1>1, <1>2, <1>3

\* IPMapNeverDropsAddress for every value of the constants: no write to
\* the AgentInfo (by mergeAgentInfo and Update, Create, or their retries)
\* drops an address of an interface that keeps its bridge and ofport.
THEOREM NeverDropsAddress == Spec => IPMapNeverDropsAddress
  BY IInvCorrect, AddressesKeptStep, PTL DEF Spec, IPMapNeverDropsAddress

-----------------------------------------------------------------------------
(* Interfaces with an invalid ofport *)

\* a build attaches no address to an interface whose ofport is invalid
LEMMA GetAgentInfoNoAddressAtInvalidPort ==
    ASSUME NEW m \in [Ifaces -> OvsRow], NEW cache \in [Keys -> IPMaps]
    PROVE  NoAddressAtInvalidPort(GetAgentInfo(m, cache))
  <1> SUFFICES ASSUME NEW i \in Reported(m),
                      FetchInterface(m, cache, i).ofport = 0
               PROVE  FetchInterface(m, cache, i).ipmap = NoIPs
    BY DEF NoAddressAtInvalidPort, GetAgentInfo
  <1>1. m[i].ofport \in Ofports \cup {InvalidOfport} /\ 0 \notin Ofports
    BY OfportsAssumption DEF OvsRow, Reported
  <1>2. m[i].ofport = InvalidOfport
    BY <1>1 DEF FetchInterface
  <1>. QED BY <1>2 DEF FetchInterface

\* the snapshot and the remote object show no address at ofport 0
ZeroInv == NoAddressAtInvalidPort(snap) /\ NoAddressAtInvalidPort(remote.ifaces)

\* every step keeps ZeroInv, given the inductive invariant IInv
LEMMA ZeroStep == IInv /\ ZeroInv /\ [Next]_vars => ZeroInv'
  <1> SUFFICES ASSUME IInv, ZeroInv, [Next]_vars PROVE ZeroInv'
    OBVIOUS
  <1>0. NoAddressAtInvalidPort({})
    BY DEF NoAddressAtInvalidPort
  <1>1. NoAddressAtInvalidPort(snap')
    <2>1. CASE SyncAgentInfoBuild
      <3>1. snap' = {} \/ snap' = GetAgentInfo(ovs, ipCache)
        BY <2>1, Zenon DEF SyncAgentInfoBuild, EndAttempt
      <3>. QED BY <1>0, <3>1, GetAgentInfoNoAddressAtInvalidPort DEF IInv, TypeOK
    <2>2. CASE ~SyncAgentInfoBuild
      <3>1. snap' = {} \/ snap' = snap
        BY <2>2, Zenon
        DEF Next, Worker, SyncAgentInfoFetch, SyncAgentInfoCreate,
            SyncAgentInfoUpdate, AgentRestart, EndAttempt,
            UpdateOfPortIPAddress, PeriodicallySyncAgentInfo, RetryAfterFires,
            SyncAgentInfoWorkerGet, InformerList, InformerWatch,
            ExternalUpdate, OvsNext, vars
      <3>. QED BY <1>0, <3>1 DEF ZeroInv
    <2>. QED BY <2>1, <2>2
  <1>2. NoAddressAtInvalidPort(remote'.ifaces)
    <2>1. CASE remote' = remote
      BY <2>1 DEF ZeroInv
    <2>2. CASE remote' # remote
      <3>1. /\ snap \in SUBSET IfaceRec /\ remote.ifaces \in SUBSET IfaceRec
            /\ NoAddressAtInvalidPort(snap)
            /\ NoAddressAtInvalidPort(remote.ifaces)
        BY DEF IInv, TypeOK, RemoteObj, ZeroInv
      <3>2. NoAddressAtInvalidPort(MergeAgentInfo(snap, remote.ifaces))
        BY <3>1, MergeNoAddressAtInvalidPort
      <3>. QED BY <2>2, <3>1, <3>2, RemoteChange
    <2>. QED BY <2>1, <2>2
  <1>. QED BY <1>1, <1>2 DEF ZeroInv

\* InvalidPortsCarryNoAddresses for every value of the constants: no
\* interface the AgentInfo reports with an invalid ofport (Ofport 0) ever
\* shows an address, although getCpIntf pairs such interfaces by ofport.
THEOREM InvalidPortsEmpty == Spec => []InvalidPortsCarryNoAddresses
  <1>1. Init => ZeroInv
    BY DEF Init, ZeroInv, NoAddressAtInvalidPort, NotFound
  <1>2. ZeroInv => InvalidPortsCarryNoAddresses
    BY DEF ZeroInv, InvalidPortsCarryNoAddresses
  <1>. QED BY <1>1, <1>2, IInvCorrect, ZeroStep, PTL DEF Spec

=============================================================================
