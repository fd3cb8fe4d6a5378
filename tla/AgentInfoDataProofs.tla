------------------------- MODULE AgentInfoDataProofs -------------------------
(***************************************************************************)
(* Lemmas on mergeAgentInfo and getCpIntf, for every value of the          *)
(* constants of AgentInfoData.                                             *)
(***************************************************************************)
EXTENDS AgentInfoData, TLAPS

\* the merge keeps interface records well formed
LEMMA MergeIfaceType ==
    ASSUME NEW r \in IfaceRec, NEW o \in SUBSET IfaceRec
    PROVE  MergeIface(r, o) \in IfaceRec
  <1>1. CASE Matches(o, r) = {}
    BY <1>1 DEF MergeIface
  <1>2. CASE Matches(o, r) # {}
    <2>1. GetCpIntf(o, r) \in IfaceRec
      BY <1>2 DEF GetCpIntf, Matches
    <2>2. MergeIPMap(r.ipmap, GetCpIntf(o, r).ipmap) \in IPMaps
      BY <2>1 DEF MergeIPMap, IfaceRec, IPMaps
    <2>. QED BY <1>2, <2>2 DEF MergeIface, IfaceRec
  <1>. QED BY <1>1, <1>2

\* mergeAgentInfo yields a set of interface records
LEMMA MergeAgentInfoType ==
    ASSUME NEW local \in SUBSET IfaceRec, NEW o \in SUBSET IfaceRec
    PROVE  MergeAgentInfo(local, o) \in SUBSET IfaceRec
  BY MergeIfaceType DEF MergeAgentInfo

\* mergeAgentInfo keeps the bridge and ofport of each interface
LEMMA MergeIfaceKey ==
    ASSUME NEW r \in IfaceRec, NEW o
    PROVE  Key(MergeIface(r, o)) = Key(r)
  BY DEF MergeIface, Key, IfaceRec

\* the addresses merged into an interface depend only on its key and its
\* own IPMap, so the merge keeps same-key records alike
LEMMA MergeSameKey ==
    ASSUME NEW S \in SUBSET IfaceRec, NEW o, SameKeySameIPs(S)
    PROVE  SameKeySameIPs(MergeAgentInfo(S, o))
  <1> SUFFICES ASSUME NEW s1 \in S, NEW s2 \in S,
                      Key(MergeIface(s1, o)) = Key(MergeIface(s2, o))
               PROVE  MergeIface(s1, o).ipmap = MergeIface(s2, o).ipmap
    BY DEF SameKeySameIPs, MergeAgentInfo
  <1>1. Key(s1) = Key(s2) /\ s1.ipmap = s2.ipmap
    BY MergeIfaceKey DEF SameKeySameIPs
  <1>2. Matches(o, s1) = Matches(o, s2)
    BY <1>1 DEF Matches
  <1>3. GetCpIntf(o, s1) = GetCpIntf(o, s2)
    BY <1>2 DEF GetCpIntf
  <1>. QED BY <1>1, <1>2, <1>3 DEF MergeIface, IfaceRec

\* the merge against a consistent remote object keeps every remote address
\* of an interface with the same bridge and ofport
LEMMA MergeKeepsAddresses ==
    ASSUME NEW S \in SUBSET IfaceRec, NEW o \in SUBSET IfaceRec,
           SameKeySameIPs(o),
           NEW r \in MergeAgentInfo(S, o), NEW m \in o, Key(r) = Key(m),
           NEW ip \in GlobalIPs, m.ipmap[ip] > 0
    PROVE  r.ipmap[ip] > 0
  <1>1. PICK s \in S : r = MergeIface(s, o)
    BY DEF MergeAgentInfo
  <1>2. Key(s) = Key(m)
    BY <1>1, MergeIfaceKey
  <1>3. m \in Matches(o, s)
    BY <1>2 DEF Matches
  <1>4. GetCpIntf(o, s) \in o /\ Key(GetCpIntf(o, s)) = Key(m)
    BY <1>2, <1>3 DEF GetCpIntf, Matches
  <1>5. GetCpIntf(o, s).ipmap = m.ipmap
    BY <1>4 DEF SameKeySameIPs
  <1>6. r.ipmap = MergeIPMap(s.ipmap, m.ipmap)
    BY <1>1, <1>3, <1>5 DEF MergeIface, IfaceRec
  <1>7. s.ipmap \in IPMaps /\ m.ipmap \in IPMaps
    BY DEF IfaceRec
  <1>. QED BY <1>6, <1>7, LearnAssumption DEF MergeIPMap, IPMaps

\* the merge of records that show no address at ofport 0 with a remote
\* object of the same kind shows none there either: getCpIntf only pairs
\* an ofport-0 interface with another one
LEMMA MergeNoAddressAtInvalidPort ==
    ASSUME NEW S \in SUBSET IfaceRec, NEW o \in SUBSET IfaceRec,
           NoAddressAtInvalidPort(S), NoAddressAtInvalidPort(o)
    PROVE  NoAddressAtInvalidPort(MergeAgentInfo(S, o))
  <1> SUFFICES ASSUME NEW s \in S, MergeIface(s, o).ofport = 0
               PROVE  MergeIface(s, o).ipmap = NoIPs
    BY DEF NoAddressAtInvalidPort, MergeAgentInfo
  <1>1. s.ofport = 0 /\ s.ipmap = NoIPs
    BY MergeIfaceKey DEF Key, NoAddressAtInvalidPort
  <1>2. CASE Matches(o, s) = {}
    BY <1>1, <1>2 DEF MergeIface
  <1>3. CASE Matches(o, s) # {}
    <2>1. GetCpIntf(o, s) \in o /\ GetCpIntf(o, s).ofport = 0
      BY <1>1, <1>3 DEF GetCpIntf, Matches, Key
    <2>2. GetCpIntf(o, s).ipmap = NoIPs
      BY <2>1 DEF NoAddressAtInvalidPort
    <2>3. MergeIPMap(NoIPs, NoIPs) = NoIPs
      BY DEF MergeIPMap, NoIPs
    <2>. QED BY <1>1, <1>3, <2>2, <2>3 DEF MergeIface, IfaceRec
  <1>. QED BY <1>2, <1>3

\* the merge keeps each interface's key, so it keeps valid keys unique
LEMMA MergeUniqueValidKeys ==
    ASSUME NEW S \in SUBSET IfaceRec, NEW o, UniqueValidKeys(S)
    PROVE  UniqueValidKeys(MergeAgentInfo(S, o))
  <1> SUFFICES ASSUME NEW s1 \in S, NEW s2 \in S,
                      MergeIface(s1, o).ofport # 0,
                      Key(MergeIface(s1, o)) = Key(MergeIface(s2, o))
               PROVE  MergeIface(s1, o) = MergeIface(s2, o)
    BY DEF UniqueValidKeys, MergeAgentInfo
  <1>1. s1.ofport # 0 /\ Key(s1) = Key(s2)
    BY MergeIfaceKey DEF Key
  <1>. QED BY <1>1 DEF UniqueValidKeys

=============================================================================
