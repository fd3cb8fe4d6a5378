---------------------------- MODULE AgentInfoData ---------------------------
(***************************************************************************)
(* The AgentInfo content of pkg/monitor/agent.go and the pure merge the    *)
(* worker applies before an Update (mergeAgentInfo, getCpIntf).            *)
(*                                                                         *)
(* An AgentInfo is abstracted to the set of its interface records with     *)
(* bridges and ports flattened: [name, br, ofport, ipmap].  An IPMap gives *)
(* each global unicast address its discovery time, 0 meaning absent, and   *)
(* time is the number of learning events so far (at most MaxLearn).        *)
(***************************************************************************)
EXTENDS Integers, FiniteSets

CONSTANTS
    Ifaces,        \* OVSDB Interface rows (model values)
    Bridges,       \* bridge names
    Ofports,       \* valid OpenFlow port numbers
    GlobalIPs,     \* addresses with IsGlobalUnicast() = TRUE
    MaxLearn       \* bound on learning batches (and so on time)

ASSUME BridgesAssumption == Bridges # {}
ASSUME OfportsAssumption == Ofports \subseteq Nat \ {0}
ASSUME LearnAssumption == MaxLearn \in Nat
\* OVSDB holds finitely many bridges, and OpenFlow port numbers are bounded
ASSUME FinitenessAssumption == IsFiniteSet(Bridges) /\ IsFiniteSet(Ofports)

\* ipCache keys "<bridge>-<ofport>"
Keys == Bridges \X Ofports

IPMaps == [GlobalIPs -> 0..MaxLearn]

NoIPs == [ip \in GlobalIPs |-> 0]

\* an invalid ofport is stored as the Go zero value 0
IfaceRec == [name : Ifaces, br : Bridges, ofport : Ofports \cup {0},
             ipmap : IPMaps]

RemoteObj == [found : BOOLEAN, ifaces : SUBSET IfaceRec]

NotFound == [found |-> FALSE, ifaces |-> {}]

\* the IP-cache key of an interface record
Key(r) == <<r.br, r.ofport>>

-----------------------------------------------------------------------------
(* mergeAgentInfo and getCpIntf *)

\* Mutant: interfaces are matched by bridge and interface name
MatchesByName(o, r) == {m \in o : m.br = r.br /\ m.name = r.name}

\* getCpIntf: the first remote interface on the same bridge and ofport
Matches(o, r) == {m \in o : Key(m) = Key(r)}

GetCpIntf(o, r) == CHOOSE m \in Matches(o, r) : TRUE

\* Mutant: the remote addresses are not copied forward
MergeIPMapDropRemote(local, cp) == local

\* remote addresses missing from the local map are copied forward
MergeIPMap(local, cp) ==
    [ip \in GlobalIPs |-> IF local[ip] > 0 THEN local[ip] ELSE cp[ip]]

MergeIface(r, o) ==
    IF Matches(o, r) = {} THEN r
    ELSE [r EXCEPT !.ipmap = MergeIPMap(r.ipmap, GetCpIntf(o, r).ipmap)]

MergeAgentInfo(local, o) == {MergeIface(r, o) : r \in local}

-----------------------------------------------------------------------------
(* Relations between AgentInfo contents *)

\* records with the same bridge and ofport carry the same IPMap
SameKeySameIPs(S) ==
    \A r1, r2 \in S : Key(r1) = Key(r2) => r1.ipmap = r2.ipmap

\* at most one interface of S has a given bridge and valid ofport
UniqueValidKeys(S) ==
    \A r1, r2 \in S : r1.ofport # 0 /\ Key(r1) = Key(r2) => r1 = r2

\* no interface of S with an invalid ofport (reported as 0) shows an address
NoAddressAtInvalidPort(S) == \A r \in S : r.ofport = 0 => r.ipmap = NoIPs

\* every address of an interface of old is still present in each interface
\* of new with the same bridge and ofport
KeepsAddresses(old, new) ==
    old.found =>
        \A r \in new.ifaces, m \in old.ifaces :
            Key(r) = Key(m) => \A ip \in GlobalIPs : m.ipmap[ip] > 0 => r.ipmap[ip] > 0

=============================================================================
