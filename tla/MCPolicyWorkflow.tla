-------------------------- MODULE MCPolicyWorkflow --------------------------
(* Instances of PolicyWorkflow for TLC.                                    *)
EXTENDS PolicyWorkflow, TLC

CONSTANTS d1, d2, ann, eva, rob, dev, h1, h2

(* An administrator, an editor, a reviewer and a developer.                *)
MCRole == [u \in Users |->
             CASE u = ann -> "admin" [] u = eva -> "editor"
               [] u = rob -> "reviewer" [] OTHER -> "developer"]
(* Approval handlers are interchangeable.                                  *)
PublisherSymmetry == Permutations(Publishers)

(* d1 puts nothing on the devices, d2 does.                                *)
MCRendering == [d \in Docs |-> IF d = d1 THEN "empty" ELSE "rules"]
=============================================================================
