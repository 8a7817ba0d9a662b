-------------------------- MODULE ReviewedHistory --------------------------
(***************************************************************************)
(* What the administration promises about the policy history, with no      *)
(* lock, draft, file or handler in sight: a proposal is decided at most    *)
(* once, only a pending proposal is published, whoever publishes it is     *)
(* independent of its authors unless that account is a developer at that   *)
(* moment, and the history only grows.  PolicyWorkflow implements it.      *)
(*                                                                         *)
(* Sources of the promise: README "Rollen und Rechte" (four eyes, only     *)
(* developers exempt) and "Entwurf, Staging, Freigabe und Deployment";     *)
(* the atomic steps are the SQLite transactions of policy-store.go.        *)
(***************************************************************************)
EXTENDS Integers, Sequences

CONSTANTS Users,       \* accounts
          Roles        \* roles an account can have

VARIABLES proposals,   \* Seq of [authors, status]: revision n is proposals[n]
          history      \* Seq of [version, by, role]: publications, oldest first

rhVars == <<proposals, history>>

Statuses == {"pending", "published", "rejected"}

Init == proposals = <<>> /\ history = <<>>

(* A revision is stored as pending (storeRevisionWithMetadata,             *)
(* persistStagedPolicyRequest).                                            *)
Propose(authors) ==
  /\ proposals' = Append(proposals, [authors |-> authors, status |-> "pending"])
  /\ UNCHANGED history

(* A pending revision is rejected (rejectRevision).                        *)
Reject(v) ==
  /\ proposals[v].status = "pending"
  /\ proposals' = [proposals EXCEPT ![v].status = "rejected"]
  /\ UNCHANGED history

Independent(u, r, authors) == u \in authors => r = "developer"

(* Proposals not decided yet.                                              *)
Pending == {v \in DOMAIN proposals : proposals[v].status = "pending"}

(* The publication, the decision on the revision and the rejection of the  *)
(* revisions made obsolete by it are one transaction                       *)
(* (finalizePublicationWithSetupClaim).                                    *)
Publish(v, u, r) ==
  /\ v \in Pending
  /\ Independent(u, r, proposals[v].authors)
  /\ history' = Append(history, [version |-> v, by |-> u, role |-> r])
  /\ \E obsolete \in SUBSET (Pending \ {v}) :
       proposals' = [w \in DOMAIN proposals |->
                       [proposals[w] EXCEPT !.status =
                          IF w = v THEN "published"
                          ELSE IF w \in obsolete THEN "rejected" ELSE @]]

Next ==
  \/ \E authors \in SUBSET Users : Propose(authors)
  \/ \E v \in DOMAIN proposals : Reject(v)
  \/ \E v \in Pending, u \in Users, r \in Roles : Publish(v, u, r)

Spec == Init /\ [][Next]_rhVars
=============================================================================
