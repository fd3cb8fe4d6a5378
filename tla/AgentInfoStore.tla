---------------------------- MODULE AgentInfoStore --------------------------
(***************************************************************************)
(* What the AgentInfo synchronisation engine promises about the object it  *)
(* keeps in the apiserver, with the worker's read-merge-write made atomic. *)
(*                                                                         *)
(* local is the AgentInfo the agent would report now.  The object is only  *)
(* ever created from it when none exists, or replaced by it merged with    *)
(* the object's current content: a write never rests on an outdated read. *)
(* Every other step of the agent only recomputes local.                    *)
(***************************************************************************)
EXTENDS AgentInfoData

VARIABLES
    remote,        \* the AgentInfo held by the apiserver
    local          \* the AgentInfo the agent reports

storeVars == <<remote, local>>

\* a report in which interfaces of one port show the same addresses
Reports == {S \in SUBSET IfaceRec : SameKeySameIPs(S)}

StoreInit ==
    /\ remote = NotFound
    /\ local = {}

\* the agent recomputes what it reports
Prepare ==
    /\ local' \in Reports
    /\ UNCHANGED remote

\* no object exists: it is created with the agent's report
Create ==
    /\ ~remote.found
    /\ remote' = [found |-> TRUE, ifaces |-> local]
    /\ local' \in Reports

\* the object exists: the report, merged with the object's current
\* content, replaces it
Write ==
    /\ remote.found
    /\ remote' = [found |-> TRUE, ifaces |-> MergeAgentInfo(local, remote.ifaces)]
    /\ local' \in Reports

StoreNext == Prepare \/ Create \/ Write

StoreSpec == StoreInit /\ [][StoreNext]_storeVars

-----------------------------------------------------------------------------
(* Properties *)

StoreTypeOK ==
    /\ remote \in RemoteObj
    /\ local \in Reports

\* the object's interfaces on one port show the same addresses, whatever
\* sequence of creates and merged writes built it
StoreConsistent == SameKeySameIPs(remote.ifaces)

\* no write removes an address from an interface whose port is kept
StoreKeepsAddresses == [][KeepsAddresses(remote, remote')]_storeVars

=============================================================================
