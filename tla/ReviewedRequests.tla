-------------------------- MODULE ReviewedRequests --------------------------
(***************************************************************************)
(* What becomes of a change request, with no page, handler, account or     *)
(* protocol in sight.  It is open until it is decided once; it is only     *)
(* staged and approved on the publication it was written for, so that      *)
(* every publication closes all other open requests; and no publication    *)
(* overtakes an approved request that still waits to be deployed.          *)
(* PolicyRequests implements it.                                           *)
(*                                                                         *)
(* Sources of the promise: the statuses a request can have and the         *)
(* comments on the transactions that change them (policy-requests.go).     *)
(***************************************************************************)
EXTENDS Integers

CONSTANT Requests

VARIABLES phase,    \* of every request
          base,     \* the publication it was written for
          revision, \* the policy revision that carries it, 0 for none
          work,     \* has that revision anything to deploy?
          drawn,    \* policy revisions so far
          current   \* the latest publication

rrVars == <<phase, base, revision, work, drawn, current>>

Open == {"submitted", "staged"}

Init ==
  /\ phase = [r \in Requests |-> "none"]
  /\ base = [r \in Requests |-> 0]
  /\ revision = [r \in Requests |-> 0]
  /\ work = [r \in Requests |-> FALSE]
  /\ drawn = 0
  /\ current = 0

Submit(r) ==
  /\ phase[r] = "none"
  /\ phase' = [phase EXCEPT ![r] = "submitted"]
  /\ base' = [base EXCEPT ![r] = current]
  /\ UNCHANGED <<revision, work, drawn, current>>

Stage(r, commands) ==
  /\ phase[r] = "submitted"
  /\ base[r] = current
  /\ phase' = [phase EXCEPT ![r] = "staged"]
  /\ drawn' = drawn + 1
  /\ revision' = [revision EXCEPT ![r] = drawn + 1]
  /\ work' = [work EXCEPT ![r] = commands]
  /\ UNCHANGED <<base, current>>

(* It does not fit the current policy, or a reviewer says no.              *)
Close(r) ==
  /\ \/ phase[r] = "submitted" /\ phase' = [phase EXCEPT ![r] = "conflict"]
     \/ phase[r] \in Open \cup {"conflict"} /\ phase' = [phase EXCEPT ![r] = "rejected"]
  /\ UNCHANGED <<base, revision, work, drawn, current>>

NothingWaits == \A r \in Requests : phase[r] = "approved" => ~work[r]

(* Whatever else is open has been overtaken.                               *)
Overtake(approved) ==
  /\ NothingWaits
  /\ phase' = [r \in Requests |->
                 IF r \in approved THEN "approved"
                 ELSE IF phase[r] \in Open THEN "conflict" ELSE phase[r]]
  /\ UNCHANGED <<base, revision, work>>

Approve(r) ==
  /\ phase[r] = "staged"
  /\ base[r] = current /\ current < revision[r]
  /\ current' = revision[r]
  /\ Overtake({r})
  /\ UNCHANGED drawn

(* A revision of an editor's draft is published.                           *)
PublishOther ==
  /\ drawn' = drawn + 1
  /\ current' = drawn + 1
  /\ Overtake({})

Deploy(r) ==
  /\ phase[r] = "approved"
  /\ revision[r] = current
  /\ phase' = [phase EXCEPT ![r] = "deployed"]
  /\ UNCHANGED <<base, revision, work, drawn, current>>

Next ==
  \/ \E r \in Requests : Submit(r) \/ Close(r) \/ Approve(r) \/ Deploy(r)
  \/ \E r \in Requests, commands \in BOOLEAN : Stage(r, commands)
  \/ PublishOther

Spec == Init /\ [][Next]_rrVars
=============================================================================
