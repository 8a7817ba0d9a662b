------------------------- MODULE MCFortiDeployment -------------------------
(* Instances of FortiDeployment for TLC.                                   *)
EXTENDS FortiDeployment

(* Policies by what they do to the packets looked at: a1 and b1 accept and *)
(* d1 and e1 deny them all, ap accepts p alone.                            *)
MCAction == [c \in Policies |-> IF c \in {"ap", "a1", "b1"} THEN "accept" ELSE "deny"]
MCMatch == [c \in Policies |-> IF c = "ap" THEN {"p"} ELSE Packets]
=============================================================================
