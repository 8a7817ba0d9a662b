---------------------------- MODULE MCPolicyTabs ----------------------------
(* Instances of PolicyTabs for TLC.                                        *)
EXTENDS PolicyTabs

CONSTANTS a, b

MCOwned == [o \in Owners |-> IF o = a THEN {1, 2} ELSE {2}]
=============================================================================
