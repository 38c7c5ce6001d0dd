--------------------------- MODULE MCMCPManager ---------------------------
(* Small instances of MCPManager: one name with two supervision chains     *)
(* (a respawn beside a restart), or with one.                              *)
EXTENDS MCPManager, TLC

CONSTANTS n1, o1, o2

MCObjs == {o1, o2}
OneName == [o \in {o1, o2} |-> n1]
OneObj == [o \in {o1} |-> n1]
MCSymmetry == Permutations(MCObjs)
=============================================================================
