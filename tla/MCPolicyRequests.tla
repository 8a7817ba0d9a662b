-------------------------- MODULE MCPolicyRequests ---------------------------
(* Instances of PolicyRequests for TLC.                                    *)
EXTENDS PolicyRequests, TLC

CONSTANTS ann, dev, vic, r1, r2, h1, h2, k1, k2

(* An administrator, a developer and a user without a role.                *)
MCRole == [u \in Users |->
             CASE u = ann -> "admin" [] u = dev -> "developer" [] OTHER -> "viewer"]

(* Requests, submission handlers and pages are interchangeable.            *)
NameSymmetry == 
  Permutations(Requests) \cup Permutations(Submitters) \cup Permutations(Desks)

(* Bound: four of two requests, two revisions and one run together; and an *)
(* account change, a crash or a request that leaves the quota's 24 hours   *)
(* once, beside two of them.                                               *)
Submitted == {q \in Requests : request[q].status # "none"}
Extent == Cardinality(Submitted) + Len(policy) + runs

Mishaps == accountsVersion + crashes
             + Cardinality({q \in Submitted : ~request[q].recent})

OneMishap ==
  \/ Mishaps = 0 /\ Extent <= 4
  \/ Mishaps = 1 /\ Extent <= 2
=============================================================================
