------------------------- MODULE AgentInfoStoreProofs -------------------------
(***************************************************************************)
(* Proofs about the atomic AgentInfo store for every value of the          *)
(* constants: the object stays consistent and no write drops an address.   *)
(***************************************************************************)
EXTENDS AgentInfoStore, AgentInfoDataProofs, TLAPS

\* the store invariant: typed, and same-port interfaces of the object alike
StoreInv == StoreTypeOK /\ StoreConsistent

LEMMA StoreInitInv == StoreInit => StoreInv
  <1> SUFFICES ASSUME StoreInit PROVE StoreInv
    OBVIOUS
  <1>1. {} \in Reports
    BY DEF Reports, SameKeySameIPs
  <1>. QED BY <1>1 DEF StoreInit, StoreInv, StoreTypeOK, StoreConsistent,
                       NotFound, RemoteObj, SameKeySameIPs

LEMMA StoreStepInv == StoreInv /\ [StoreNext]_storeVars => StoreInv'
  <1> SUFFICES ASSUME StoreInv, [StoreNext]_storeVars PROVE StoreInv'
    OBVIOUS
  <1>1. CASE Prepare
    BY <1>1 DEF Prepare, StoreInv, StoreTypeOK, StoreConsistent
  <1>2. CASE Create
    BY <1>2 DEF Create, StoreInv, StoreTypeOK, StoreConsistent, Reports,
                RemoteObj
  <1>3. CASE Write
    <2>1. local \in SUBSET IfaceRec /\ SameKeySameIPs(local)
          /\ remote.ifaces \in SUBSET IfaceRec
      BY DEF StoreInv, StoreTypeOK, Reports, RemoteObj
    <2>2. MergeAgentInfo(local, remote.ifaces) \in SUBSET IfaceRec
      BY <2>1, MergeAgentInfoType
    <2>3. SameKeySameIPs(MergeAgentInfo(local, remote.ifaces))
      BY <2>1, MergeSameKey
    <2>. QED BY <1>3, <2>2, <2>3 DEF Write, StoreInv, StoreTypeOK,
                                    StoreConsistent, RemoteObj
  <1>4. CASE UNCHANGED storeVars
    BY <1>4 DEF storeVars, StoreInv, StoreTypeOK, StoreConsistent
  <1>. QED BY <1>1, <1>2, <1>3, <1>4 DEF StoreNext

\* The atomic store keeps same-port interfaces of the object alike, for
\* every value of the constants.
THEOREM StoreInvariant == StoreSpec => []StoreInv
  BY StoreInitInv, StoreStepInv, PTL DEF StoreSpec

\* In the atomic store no write removes an address from an interface whose
\* bridge and ofport are kept (the promise mergeAgentInfo is written for).
THEOREM StoreNeverDrops == StoreSpec => StoreKeepsAddresses
  <1>1. StoreInv /\ [StoreNext]_storeVars => [KeepsAddresses(remote, remote')]_storeVars
    <2> SUFFICES ASSUME StoreInv, [StoreNext]_storeVars
                 PROVE  KeepsAddresses(remote, remote')
      OBVIOUS
    <2>1. CASE remote' = remote
      BY <2>1 DEF KeepsAddresses, StoreInv, StoreConsistent, SameKeySameIPs
    <2>2. CASE Create
      BY <2>2 DEF Create, KeepsAddresses
    <2>3. CASE Write /\ remote' # remote
      <3> SUFFICES ASSUME NEW r \in remote'.ifaces, NEW m \in remote.ifaces,
                          Key(r) = Key(m), NEW ip \in GlobalIPs,
                          m.ipmap[ip] > 0
                   PROVE  r.ipmap[ip] > 0
        BY DEF KeepsAddresses
      <3>1. r \in MergeAgentInfo(local, remote.ifaces)
        BY <2>3 DEF Write
      <3>2. local \in SUBSET IfaceRec /\ remote.ifaces \in SUBSET IfaceRec
            /\ SameKeySameIPs(remote.ifaces)
        BY DEF StoreInv, StoreTypeOK, StoreConsistent, Reports, RemoteObj
      <3>. QED BY <3>1, <3>2, MergeKeepsAddresses
    <2>. QED BY <2>1, <2>2, <2>3 DEF StoreNext, Prepare, storeVars
  <1>. QED BY <1>1, StoreInvariant, PTL DEF StoreSpec, StoreKeepsAddresses

=============================================================================
