------------------------ MODULE AgentMonitorRefinement ------------------------
(***************************************************************************)
(* Proof that the engine implements the atomic AgentInfo store:           *)
(* Spec => Store!StoreSpec under the mapping local <- snap.               *)
(***************************************************************************)
EXTENDS AgentMonitorProofs, TLAPS

\* the store's copy of the data operators is the engine's
LEMMA StoreData ==
    /\ Store!NotFound = NotFound
    /\ Store!Reports = {S \in SUBSET IfaceRec : SameKeySameIPs(S)}
    /\ \A S, o : Store!MergeAgentInfo(S, o) = MergeAgentInfo(S, o)
  <1>1. Store!NotFound = NotFound
    BY DEF Store!NotFound, NotFound
  <1>2. Store!Reports = {S \in SUBSET IfaceRec : SameKeySameIPs(S)}
    BY DEF Store!Reports, Store!IfaceRec, Store!IPMaps, Store!SameKeySameIPs,
           Store!Key, IfaceRec, IPMaps, SameKeySameIPs, Key
  <1>3. \A S, o : Store!MergeAgentInfo(S, o) = MergeAgentInfo(S, o)
    BY DEF Store!MergeAgentInfo, Store!MergeIface, Store!Matches,
           Store!GetCpIntf, Store!MergeIPMap, Store!Key,
           MergeAgentInfo, MergeIface, Matches, GetCpIntf, MergeIPMap, Key
  <1>. QED BY <1>1, <1>2, <1>3

\* the initial state of the engine is an initial state of the store
LEMMA RefineInit == Init => Store!StoreInit
  BY StoreData DEF Init, Store!StoreInit

\* every step of the engine is a step of the store or leaves the remote
\* object and the snapshot as they are
LEMMA RefineStep ==
    IInv /\ IInv' /\ [Next]_vars => [Store!StoreNext]_(Store!storeVars)
  <1> SUFFICES ASSUME IInv, IInv', [Next]_vars
               PROVE  [Store!StoreNext]_(Store!storeVars)
    OBVIOUS
  <1>1. snap' \in Store!Reports
    BY StoreData DEF IInv, TypeOK
  <1>2. CASE remote' = remote
    BY <1>1, <1>2 DEF Store!StoreNext, Store!Prepare
  <1>3. CASE remote' # remote
    <2>1. CASE ~remote.found
      BY <1>1, <1>3, <2>1, RemoteChange, StoreData DEF Store!StoreNext, Store!Create
    <2>2. CASE remote.found
      BY <1>1, <1>3, <2>2, RemoteChange, StoreData DEF Store!StoreNext, Store!Write
    <2>. QED BY <2>1, <2>2
  <1>. QED BY <1>2, <1>3

\* StoreRefined for every value of the constants: the engine, with its
\* lagging informer, lost answers, conflicts and restarts, behaves as the
\* store whose read-merge-write is atomic.
THEOREM Refinement == Spec => StoreRefined
  <1>1. []IInv /\ [][Next]_vars => [][Store!StoreNext]_(Store!storeVars)
    BY RefineStep, PTL
  <1>. QED BY <1>1, IInvCorrect, RefineInit, PTL
           DEF Spec, StoreRefined, Store!StoreSpec

=============================================================================
