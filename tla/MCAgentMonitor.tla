--------------------------- MODULE MCAgentMonitor ---------------------------
(* Model-checking instance of AgentMonitor: one bridge, two interface rows *)
(* competing for two ofports, two global addresses and one link-local one. *)
EXTENDS AgentMonitor, TLC

CONSTANTS i1, i2, a1, a2, ll, br0

MCIfaces == {i1, i2}
MCBridges == {br0}
MCGlobalIPs == {a1, a2}
MCOtherIPs == {ll}

MCSymmetry == Permutations(MCIfaces) \cup Permutations(MCGlobalIPs)
=============================================================================
