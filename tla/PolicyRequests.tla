---------------------------- MODULE PolicyRequests ----------------------------
(***************************************************************************)
(* Change requests of users and what becomes of them: submission, staging  *)
(* by an editor, rejection by a reviewer, and the transactions of the      *)
(* policy workflow and of deployments that move requests along with their  *)
(* linked policy revisions.                                                *)
(*                                                                         *)
(* A request carries a revision number every change increments; a decision *)
(* names the number its author saw and is one conditional UPDATE.  desk[h] *)
(* is an administrator's browser page and the handler it starts: "viewing" *)
(* is the page, every other pc a handler between two transactions.         *)
(*                                                                         *)
(* A policy revision is its place in policy; 0 is the setup's publication, *)
(* latest the most recent one.                                             *)
(***************************************************************************)
EXTENDS Integers, Sequences, FiniteSets

CONSTANTS
  Users,              \* accounts
  NoUser,             \* "no such account"
  InitialRole,        \* role of every account at first
  Requests,           \* identifiers of requests
  NoRequest,          \* link of a revision that has no request
  Submitters,         \* submission handlers that run at the same time
  Desks,              \* pages and handlers of administrators
  SubmitLimit,        \* requests accepted from one user in 24 hours
  MaxPolicy,          \* bound: policy revisions
  MaxAccountsVersion, \* bound: account catalog mutations
  MaxRuns,            \* bound: deployments
  MaxLapsed,          \* bound: requests that grow older than 24 hours
  MaxCrash            \* bound: server crashes

Roles == {"viewer", "editor", "reviewer", "deployer", "admin", "developer"}

ASSUME RequestsAssumption ==
  /\ NoUser \notin Users /\ NoRequest \notin Requests
  /\ InitialRole \in [Users -> Roles]
  /\ IsFiniteSet(Requests)
  /\ {SubmitLimit, MaxPolicy, MaxAccountsVersion, MaxRuns, MaxLapsed, MaxCrash}
       \subseteq Nat

VARIABLES
  role,             \* policy_account: live roles
  accountsVersion,  \* policy_account_state.version
  request,          \* policy_request, one row per identifier
  trail,            \* policy_request_event: the statuses each event leads from and to
  policy,           \* policy_revision: Seq of [request, creator, commands, status]
  latest,           \* the latest policy_publication
  protocol,         \* policy_deployment_log of latest: complete, or not
  run,              \* a deployment of latest is in flight
  submitter,        \* submission handlers
  desk,             \* staging and rejection
  runs, crashes     \* counters of the bounds

vars == <<role, accountsVersion, request, trail, policy, latest, protocol, run,
          submitter, desk, runs, crashes>>

tables == <<request, trail, policy, latest>>

Unsubmitted == [status |-> "none", requester |-> NoUser, base |-> 0, revision |-> 0,
                linked |-> 0, recent |-> FALSE]
IdleSubmitter == [pc |-> "idle", actor |-> NoUser, base |-> 0]
IdleDesk == [pc |-> "idle", actor |-> NoUser, request |-> NoRequest, seen |-> Unsubmitted,
             accounts |-> 0, bypass |-> FALSE]

HasPolicyRole(u, roles) == role[u] = "developer" \/ role[u] \in roles
BypassesFourEyes(u) == role[u] = "developer"

(* What counts against the quota: the requester's rows of the last 24      *)
(* hours, whatever became of them.                                         *)
Recent(u) == {r \in Requests : request[r].requester = u /\ request[r].recent}
WithinQuota(u) == Cardinality(Recent(u)) < SubmitLimit

(* Faulty: the revision number stays.                                      *)
MovedSilently(q, s) == [q EXCEPT !.status = s]

(* Every UPDATE of a status increments the revision number.                *)
Moved(q, s) == [q EXCEPT !.status = s, !.revision = @ + 1]

(* The requests in DOMAIN moves change to the given status, each with its  *)
(* event.                                                                  *)
Move(moves) ==
  /\ request' = [r \in Requests |->
       IF r \in DOMAIN moves THEN Moved(request[r], moves[r]) ELSE request[r]]
  /\ trail' = [r \in Requests |->
       IF r \in DOMAIN moves THEN Append(trail[r], <<request[r].status, moves[r]>>)
       ELSE trail[r]]

One(r, s) == [x \in {r} |-> s]

SettlePolicies(V, s) ==
  policy' = [v \in 1..Len(policy) |->
               IF v \in V THEN [policy[v] EXCEPT !.status = s] ELSE policy[v]]

(* Faulty: a publication never waits for the one before it.                *)
NothingToDeploy == latest >= 0

(* requireLatestPublicationDeployed                                        *)
LatestPublicationDeployed ==
  latest # 0 /\ policy[latest].commands => protocol = "complete"

-----------------------------------------------------------------------------
Init ==
  /\ role = InitialRole
  /\ accountsVersion = 0
  /\ request = [r \in Requests |-> Unsubmitted]
  /\ trail = [r \in Requests |-> <<>>]
  /\ policy = <<>>
  /\ latest = 0
  /\ protocol = "none"
  /\ run = FALSE
  /\ submitter = [k \in Submitters |-> IdleSubmitter]
  /\ desk = [h \in Desks |-> IdleDesk]
  /\ runs = 0
  /\ crashes = 0

-----------------------------------------------------------------------------
(* Submission.  The quota is first counted before the body is read; the    *)
(* base is the publication the change was validated against.               *)
AdmitSubmission(k, u) ==
  /\ submitter[k].pc = "idle"
  /\ WithinQuota(u)
  /\ submitter' = [submitter EXCEPT ![k] = [pc |-> "admitted", actor |-> u, base |-> latest]]
  /\ UNCHANGED <<role, accountsVersion, tables, protocol, run, desk, runs, crashes>>

(* Faulty: the quota is trusted as it was read.                            *)
InsertableAsRead(k) == submitter[k].base = latest

(* The conditions of the INSERT itself                                     *)
Insertable(k) == submitter[k].base = latest /\ WithinQuota(submitter[k].actor)

StoreSubmitted(k, r) ==
  /\ submitter[k].pc = "admitted"
  /\ request[r].status = "none"
  /\ IF Insertable(k)
     THEN /\ request' = [request EXCEPT ![r] =
               [status |-> "submitted", requester |-> submitter[k].actor,
                base |-> submitter[k].base, revision |-> 1, linked |-> 0, recent |-> TRUE]]
          /\ trail' = [trail EXCEPT ![r] = << <<"none", "submitted">> >>]
     ELSE UNCHANGED <<request, trail>>
  /\ submitter' = [submitter EXCEPT ![k] = IdleSubmitter]
  /\ UNCHANGED <<role, accountsVersion, policy, latest, protocol, run, desk, runs, crashes>>

(* 24 hours pass.                                                          *)
LeaveWindow(r) ==
  /\ request[r].recent
  /\ Cardinality({q \in Requests : request[q].status # "none" /\ ~request[q].recent}) < MaxLapsed
  /\ request' = [request EXCEPT ![r].recent = FALSE]
  /\ UNCHANGED <<role, accountsVersion, trail, policy, latest, protocol, run,
                 submitter, desk, runs, crashes>>

-----------------------------------------------------------------------------
(* Administration.                                                         *)

ListRequests(h, u, r) ==
  /\ desk[h].pc \in {"idle", "viewing"}
  /\ HasPolicyRole(u, {"admin", "editor", "reviewer", "deployer"})
  /\ request[r].status # "none"
  /\ desk' = [desk EXCEPT ![h] =
                [pc |-> "viewing", actor |-> u, request |-> r,
                 seen |-> [request[r] EXCEPT !.recent = FALSE],
                 accounts |-> 0, bypass |-> FALSE]]
  /\ UNCHANGED <<role, accountsVersion, tables, protocol, run, submitter, runs, crashes>>

(* Faulty: only the page decides.                                          *)
UnchangedOnPage(h) == request[desk[h].request].status # "none"

(* The row is still the one on the page.                                   *)
UnchangedSince(h) ==
  /\ request[desk[h].request].revision = desk[h].seen.revision
  /\ request[desk[h].request].status = desk[h].seen.status

GoTo(h, pc) == desk' = [desk EXCEPT ![h].pc = pc]
Leave(h) == desk' = [desk EXCEPT ![h] = IdleDesk]

(* adminStagePolicyRequest: role, revision number and status               *)
LoadForStaging(h) ==
  /\ desk[h].pc = "viewing"
  /\ HasPolicyRole(desk[h].actor, {"admin", "editor"})
  /\ request[desk[h].request].revision = desk[h].seen.revision
  /\ desk[h].seen.status = "submitted"
  /\ GoTo(h, "staging")
  /\ UNCHANGED <<role, accountsVersion, tables, protocol, run, submitter, runs, crashes>>

(* stagePolicyRequest: the candidate is built on the latest publication,   *)
(* if that is the request's base and the change can still be applied.      *)
BuildCandidate(h) ==
  /\ desk[h].pc = "staging"
  /\ \/ /\ latest = desk[h].seen.base
        /\ desk' = [desk EXCEPT ![h].pc = "planned", ![h].accounts = accountsVersion]
     \/ GoTo(h, "unusable")
  /\ UNCHANGED <<role, accountsVersion, tables, protocol, run, submitter, runs, crashes>>

MarkRequestConflict(h) ==
  /\ desk[h].pc = "unusable"
  /\ IF UnchangedSince(h) THEN Move(One(desk[h].request, "conflict"))
     ELSE UNCHANGED <<request, trail>>
  /\ Leave(h)
  /\ UNCHANGED <<role, accountsVersion, policy, latest, protocol, run, submitter, runs, crashes>>

(* Faulty: the request is left in "processing".                            *)
StageHalfLinked(r, actor, commands) ==
  /\ policy' = Append(policy, [request |-> r, creator |-> actor, commands |-> commands,
                               status |-> "pending"])
  /\ request' = [request EXCEPT ![r] = [Moved(@, "processing") EXCEPT !.linked = Len(policy) + 1]]
  /\ trail' = [trail EXCEPT ![r] = Append(@, <<request[r].status, "processing">>)]

(* persistStagedPolicyRequest: through "processing" to "staged", with the  *)
(* linked revision, in one transaction                                     *)
StageLinked(r, actor, commands) ==
  /\ policy' = Append(policy, [request |-> r, creator |-> actor, commands |-> commands,
                               status |-> "pending"])
  /\ request' = [request EXCEPT ![r] =
       [Moved(Moved(@, "processing"), "staged") EXCEPT !.linked = Len(policy) + 1]]
  /\ trail' = [trail EXCEPT ![r] =
       @ \o << <<request[r].status, "processing">>, <<"processing", "staged">> >>]

PersistStaged(h, commands) ==
  /\ desk[h].pc = "planned"
  /\ Len(policy) < MaxPolicy
  /\ IF desk[h].accounts = accountsVersion /\ UnchangedSince(h)
     THEN IF latest = desk[h].seen.base
          THEN StageLinked(desk[h].request, desk[h].actor, commands)
          ELSE Move(One(desk[h].request, "conflict")) /\ UNCHANGED policy
     ELSE UNCHANGED <<request, trail, policy>>
  /\ Leave(h)
  /\ UNCHANGED <<role, accountsVersion, latest, protocol, run, submitter, runs, crashes>>

(* adminRejectPolicyRequest                                                *)
LoadForRejection(h) ==
  /\ desk[h].pc = "viewing"
  /\ HasPolicyRole(desk[h].actor, {"admin", "reviewer"})
  /\ request[desk[h].request].revision = desk[h].seen.revision
  /\ desk[h].seen.requester = desk[h].actor => BypassesFourEyes(desk[h].actor)
  /\ desk[h].seen.status \in {"submitted", "staged", "conflict"}
  /\ desk' = [desk EXCEPT ![h].pc = "rejecting", ![h].bypass = BypassesFourEyes(desk[h].actor)]
  /\ UNCHANGED <<role, accountsVersion, tables, protocol, run, submitter, runs, crashes>>

(* rejectStagedPolicyRequest: what the linked revision must be             *)
RevisionRejectable(h) ==
  LET v == desk[h].seen.linked
  IN  /\ policy[v].creator = desk[h].actor => desk[h].bypass
      /\ \/ policy[v].status = "pending"
         \/ desk[h].seen.status = "conflict" /\ policy[v].status = "rejected"

(* Faulty: the linked revision stays as it is.                             *)
RejectRequestOnly(h) ==
  /\ desk[h].pc = "rejecting"
  /\ IF UnchangedSince(h) /\ (desk[h].seen.linked # 0 => RevisionRejectable(h))
     THEN Move(One(desk[h].request, "rejected"))
     ELSE UNCHANGED <<request, trail>>
  /\ Leave(h)
  /\ UNCHANGED <<role, accountsVersion, policy, latest, protocol, run, submitter, runs, crashes>>

(* rejectUnstagedPolicyRequest and rejectStagedPolicyRequest               *)
RejectRequest(h) ==
  /\ desk[h].pc = "rejecting"
  /\ IF UnchangedSince(h) /\ (desk[h].seen.linked # 0 => RevisionRejectable(h))
     THEN /\ Move(One(desk[h].request, "rejected"))
          /\ SettlePolicies({desk[h].seen.linked}, "rejected")
     ELSE UNCHANGED <<request, trail, policy>>
  /\ Leave(h)
  /\ UNCHANGED <<role, accountsVersion, latest, protocol, run, submitter, runs, crashes>>

-----------------------------------------------------------------------------
(* The transactions of the policy workflow.                                *)

(* Faulty: only requests that have a revision are swept.                   *)
ObsoleteStaged(v) ==
  {r \in Requests : request[r].status = "staged" /\ request[r].base # v}

(* conflictObsoletePolicyRequestsTx                                        *)
Obsolete(v) ==
  {r \in Requests : request[r].status \in {"submitted", "staged"} /\ request[r].base # v}

Sweepable(R) == \A r \in R :
  request[r].status = "staged" => policy[request[r].linked].status = "pending"

(* finalizePublicationWithSetupClaim for the revision of a request: it is  *)
(* approved first and therefore not among the requests swept.              *)
PublishRequest(u, v) ==
  /\ HasPolicyRole(u, {"admin", "reviewer"})
  /\ ~run /\ LatestPublicationDeployed
  /\ policy[v].request # NoRequest /\ policy[v].status = "pending"
  /\ u \in {policy[v].creator, request[policy[v].request].requester} => BypassesFourEyes(u)
  /\ request[policy[v].request].status = "staged"
  /\ LET own == policy[v].request
         swept == Obsolete(v) \ {own}
     IN  /\ Sweepable(swept)
         /\ Move([r \in swept \cup {own} |-> IF r = own THEN "approved" ELSE "conflict"])
         /\ policy' = [w \in 1..Len(policy) |->
              CASE w = v -> [policy[w] EXCEPT !.status = "published"]
                [] w # v /\ w \in {request[r].linked : r \in swept} ->
                     [policy[w] EXCEPT !.status = "rejected"]
                [] OTHER -> policy[w]]
  /\ latest' = v
  /\ protocol' = "none"
  /\ UNCHANGED <<role, accountsVersion, run, submitter, desk, runs, crashes>>

(* ... and for a revision staged from the draft.                           *)
PublishDirect(u, commands) ==
  /\ Len(policy) < MaxPolicy
  /\ HasPolicyRole(u, {"admin", "reviewer"})
  /\ ~run /\ LatestPublicationDeployed
  /\ LET v == Len(policy) + 1
         swept == Obsolete(v)
     IN  /\ Sweepable(swept)
         /\ Move([r \in swept |-> "conflict"])
         /\ policy' = Append(
              [w \in 1..Len(policy) |->
                 IF w \in {request[r].linked : r \in swept}
                 THEN [policy[w] EXCEPT !.status = "rejected"] ELSE policy[w]],
              [request |-> NoRequest, creator |-> u, commands |-> commands,
               status |-> "published"])
         /\ latest' = v
  /\ protocol' = "none"
  /\ UNCHANGED <<role, accountsVersion, run, submitter, desk, runs, crashes>>

(* adminReject and rejectRevision with rejectLinkedPolicyRequestTx         *)
RejectRevision(u, v) ==
  /\ HasPolicyRole(u, {"admin", "reviewer"})
  /\ policy[v].request # NoRequest /\ policy[v].status = "pending"
  /\ u \in {policy[v].creator, request[policy[v].request].requester} => BypassesFourEyes(u)
  /\ request[policy[v].request].status \in {"staged", "conflict"}
  /\ Move(One(policy[v].request, "rejected"))
  /\ SettlePolicies({v}, "rejected")
  /\ UNCHANGED <<role, accountsVersion, latest, protocol, run, submitter, desk, runs, crashes>>

-----------------------------------------------------------------------------
(* Deployments of the latest publication.                                  *)

StartRun(u) ==
  /\ runs < MaxRuns
  /\ ~run
  /\ HasPolicyRole(u, {"admin", "deployer"})
  /\ latest # 0 /\ policy[latest].commands
  /\ run' = TRUE
  /\ protocol' = "incomplete"
  /\ runs' = runs + 1
  /\ UNCHANGED <<role, accountsVersion, tables, submitter, desk, crashes>>

(* Faulty: every successful run deploys the request.                       *)
LogPartialRun(r, complete) ==
  IF request[r].status = "approved" THEN Move(One(r, "deployed"))
  ELSE UNCHANGED <<request, trail>>

(* updateLinkedPolicyRequestDeploymentTx: a failed or a partial run is     *)
(* only an event, the run that completes the protocol deploys the request. *)
LogRun(r, complete) ==
  IF complete /\ request[r].status = "approved" THEN Move(One(r, "deployed"))
  ELSE /\ trail' = IF complete THEN trail
                   ELSE [trail EXCEPT ![r] = Append(@, <<request[r].status, request[r].status>>)]
       /\ UNCHANGED request

(* The transaction that ends the protocol of a run is rolled back if the   *)
(* request cannot follow.                                                  *)
Loggable(complete) ==
  complete /\ policy[latest].request # NoRequest
    => request[policy[latest].request].status \in {"approved", "deployed"}

FinishRun(complete) ==
  /\ run
  /\ IF Loggable(complete) /\ policy[latest].request # NoRequest
     THEN LogRun(policy[latest].request, complete)
     ELSE UNCHANGED <<request, trail>>
  /\ protocol' = IF complete /\ Loggable(complete) THEN "complete" ELSE "incomplete"
  /\ run' = FALSE
  /\ UNCHANGED <<role, accountsVersion, policy, latest, submitter, desk, runs, crashes>>

-----------------------------------------------------------------------------
(* The environment.                                                        *)

MutateAccount(actor, u, r) ==
  /\ accountsVersion < MaxAccountsVersion
  /\ role[actor] \in {"admin", "developer"}
  /\ r # role[u]
  /\ role' = [role EXCEPT ![u] = r]
  /\ \E p \in Users : role'[p] \in {"admin", "developer"}
  /\ accountsVersion' = accountsVersion + 1
  /\ UNCHANGED <<tables, protocol, run, submitter, desk, runs, crashes>>

(* The server dies with its handlers; pages stay open.  The interlock of a *)
(* deployment that was running expires before anyone can go on.            *)
Crash ==
  /\ crashes < MaxCrash
  /\ crashes' = crashes + 1
  /\ submitter' = [k \in Submitters |-> IdleSubmitter]
  /\ desk' = [h \in Desks |-> IF desk[h].pc = "viewing" THEN desk[h] ELSE IdleDesk]
  /\ run' = FALSE
  /\ UNCHANGED <<role, accountsVersion, tables, protocol, runs>>

-----------------------------------------------------------------------------
Next ==
  \/ \E k \in Submitters, u \in Users : AdmitSubmission(k, u)
  \/ \E k \in Submitters, r \in Requests : StoreSubmitted(k, r)
  \/ \E r \in Requests : LeaveWindow(r)
  \/ \E h \in Desks, u \in Users, r \in Requests : ListRequests(h, u, r)
  \/ \E h \in Desks : LoadForStaging(h) \/ BuildCandidate(h) \/ MarkRequestConflict(h)
                      \/ LoadForRejection(h) \/ RejectRequest(h)
  \/ \E h \in Desks, c \in BOOLEAN : PersistStaged(h, c)
  \/ \E u \in Users, v \in 1..Len(policy) : PublishRequest(u, v) \/ RejectRevision(u, v)
  \/ \E u \in Users, c \in BOOLEAN : PublishDirect(u, c)
  \/ \E u \in Users : StartRun(u)
  \/ \E complete \in BOOLEAN : FinishRun(complete)
  \/ \E a, u \in Users, r \in Roles : MutateAccount(a, u, r)
  \/ Crash

Spec == Init /\ [][Next]_vars

-----------------------------------------------------------------------------
Statuses == {"none", "submitted", "processing", "staged", "approved", "deployed",
             "rejected", "conflict"}
RequestType == [status : Statuses \ {"processing"}, requester : Users \cup {NoUser}, base : Nat,
                revision : Nat, linked : Nat, recent : BOOLEAN]
PolicyType == [request : Requests \cup {NoRequest}, creator : Users, commands : BOOLEAN,
               status : {"pending", "published", "rejected"}]
DeskType == [pc : {"idle", "viewing", "staging", "planned", "unusable", "rejecting"},
             actor : Users \cup {NoUser}, request : Requests \cup {NoRequest},
             seen : RequestType, accounts : Nat, bypass : BOOLEAN]

(* The tables and the handlers' variables have their types; no request is  *)
(* left in "processing", which only exists inside a transaction.           *)
TypeOK ==
  /\ role \in [Users -> Roles]
  /\ accountsVersion \in Nat
  /\ request \in [Requests -> RequestType]
  /\ trail \in [Requests -> Seq(Statuses \X Statuses)]
  /\ policy \in Seq(PolicyType)
  /\ latest \in 0..Len(policy)
  /\ protocol \in {"none", "incomplete", "complete"}
  /\ run \in BOOLEAN
  /\ submitter \in [Submitters -> [pc : {"idle", "admitted"}, actor : Users \cup {NoUser},
                                base : Nat]]
  /\ desk \in [Desks -> DeskType]
  /\ runs \in Nat
  /\ crashes \in Nat

(* storeSubmittedPolicyRequest, "either this request is visible to the     *)
(* publication conflict sweep, or a publication that won the race makes    *)
(* the INSERT affect zero rows": no request that can still be staged or    *)
(* approved is based on an older publication.                              *)
ActionableOnLatestBase ==
  \A r \in Requests :
    request[r].status \in {"submitted", "staged"} => request[r].base = latest

(* A request and its revision are decided together, so that neither a      *)
(* publication nor a sweep nor a deployment's protocol meets a request in  *)
(* a status it refuses ("linked policy request is not staged", "linked     *)
(* revision is not pending", "linked policy request is not approved").     *)
DecisionsAgree ==
  /\ \A r \in Requests :
       /\ request[r].status \in {"none", "submitted"} => request[r].linked = 0
       /\ request[r].status \in {"staged", "approved", "deployed"} => request[r].linked # 0
       /\ request[r].linked # 0 => /\ request[r].linked \in 1..Len(policy)
                                  /\ policy[request[r].linked].request = r
  /\ \A v \in 1..Len(policy) : policy[v].request # NoRequest =>
       LET q == request[policy[v].request]
       IN  /\ q.linked = v
           /\ policy[v].status = "pending" <=> q.status = "staged"
           /\ policy[v].status = "published" <=> q.status \in {"approved", "deployed"}
           /\ policy[v].status = "rejected" <=> q.status \in {"rejected", "conflict"}

(* A decision is only taken on the request its author had on the page:     *)
(* whatever was decided in between makes it fail (errPolicyRequestConflict).*)
DecidedAsSeen ==
  [][\A h \in Desks :
       /\ desk[h].pc \in {"planned", "unusable", "rejecting"}
       /\ desk'[h].pc = "idle"
       /\ request' # request
       => [request[desk[h].request] EXCEPT !.recent = FALSE] = desk[h].seen]_vars

(* "Pro Benutzer werden hoechstens 200 neue Antraege innerhalb von 24      *)
(* Stunden angenommen", whatever submissions run at the same time and      *)
(* whatever became of the requests.                                        *)
QuotaRespected == \A u \in Users : Cardinality(Recent(u)) <= SubmitLimit

(* The history of a request is one path from its submission to its status, *)
(* and its revision number counts the changes in it.                       *)
TrailIsPath ==
  \A r \in Requests :
    LET t == trail[r]
    IN  /\ t = <<>> <=> request[r].status = "none"
        /\ t # <<>> => t[1][1] = "none" /\ t[Len(t)][2] = request[r].status
        /\ \A i \in 1..(Len(t) - 1) : t[i][2] = t[i + 1][1]
        /\ request[r].revision = Cardinality({i \in 1..Len(t) : t[i][1] # t[i][2]})

(* "deployed" means on every target: a request becomes deployed only with  *)
(* the run that completes the protocol of its own publication.             *)
DeployedWhenComplete ==
  [][\A r \in Requests :
       request[r].status # "deployed" /\ request'[r].status = "deployed"
         => protocol' = "complete" /\ request[r].linked = latest]_vars

(* A request that was overtaken while only approved had nothing to deploy, *)
(* so that its history does not end with a deployment that never came.     *)
OvertakenNeedsNoDeployment ==
  \A r \in Requests :
    request[r].status = "approved" /\ request[r].linked # latest
      => ~policy[request[r].linked].commands
-----------------------------------------------------------------------------
(* The revision of a request has commands to deploy.                       *)
HasCommands(r) == request[r].linked # 0 /\ policy[request[r].linked].commands

Reviewed == INSTANCE ReviewedRequests WITH
              phase <- [r \in Requests |-> request[r].status],
              base <- [r \in Requests |-> request[r].base],
              revision <- [r \in Requests |-> request[r].linked],
              work <- [r \in Requests |-> HasCommands(r)],
              drawn <- Len(policy),
              current <- latest

(* Refinement: with its pages, handlers, crashes, quota, protocols and     *)
(* roles, the administration of requests only ever does what               *)
(* ReviewedRequests allows: one decision per request, on the publication   *)
(* it was written for, and no publication beside an approved request that  *)
(* still has to be deployed.                                               *)
ImplementsReviewedRequests == Reviewed!Spec
=============================================================================
