--------------------------- MODULE PolicyWorkflow ---------------------------
(***************************************************************************)
(* The reviewed change workflow of the policy administration: draft,       *)
(* staging, approval, publication, rejection, rollback, and the interlock  *)
(* publications share with deployments.                                    *)
(*                                                                         *)
(* Every SQLite transaction and every change of the "current" symlink is   *)
(* one step; between two of them the other handlers, an account change, a  *)
(* crash of the server or the expiry of the lock may come.  A handler's    *)
(* local variables live in publisher[h] and client[u] and die with it.     *)
(*                                                                         *)
(* A policy document is a member of Docs; what it means on the devices is  *)
(* Rendering[d]: a revision has commands unless its rendering and its      *)
(* base's are empty.  A version ("p" plus a timestamp) is its place in the   *)
(* table policy_revision; InitialVersion is the publication made by the    *)
(* setup, which has no revision row.                                       *)
(***************************************************************************)
EXTENDS Integers, Sequences, FiniteSets

CONSTANTS
  Users,              \* accounts
  NoUser,             \* "no such account"
  InitialRole,        \* role of every account after the setup
  Docs, InitialDoc,   \* policy documents; the one the setup published
  Rendering,          \* device configuration a document stands for
  NoRendering,        \* the empty device configuration
  Publishers,         \* concurrently running approval requests
  IOFaults,           \* steps of a publication whose I/O may fail
  MaxRevision,        \* bound: revisions ever staged
  MaxDraftVersion,    \* bound: draft versions written by editors
  MaxAccountsVersion, \* bound: account catalog mutations
  MaxCrash,           \* bound: server crashes
  MaxStall            \* bound: publishers suspended past their lock's hour

Roles == {"viewer", "editor", "reviewer", "deployer", "admin", "developer"}

ASSUME WorkflowAssumption ==
  /\ NoUser \notin Users
  /\ InitialRole \in [Users -> Roles]
  /\ InitialDoc \in Docs
  /\ DOMAIN Rendering = Docs
  /\ IOFaults \subseteq {"export", "draft", "unlink", "rename", "finalize"}
  /\ {MaxRevision, MaxDraftVersion, MaxAccountsVersion, MaxCrash, MaxStall} \subseteq Nat

VARIABLES
  role,             \* policy_account: the live role of every account
  accountsVersion,  \* policy_account_state.version
  draft,            \* policy_draft: [doc, version]
  revision,         \* policy_revision: Seq of [base, doc, creator, requester, commands, status]
  publication,      \* policy_publication: Seq of [version, doc, base, by, role]
  current,          \* target of the "current" symlink, or NoLink
  lock,             \* policy_deployment_lock: [kind, version, stale]
  deployed,         \* versions whose deployment protocol is complete and successful
  deployment,       \* the deployment handler: [pc, version]
  client,           \* an editor's browser and staging handler
  publisher,        \* approval handlers
  crashes,          \* server crashes so far
  stalls            \* locks that expired under a live publisher so far

vars == <<role, accountsVersion, draft, revision, publication, current, lock,
          deployed, deployment, client, publisher, crashes, stalls>>

InitialVersion == 0
NoLink == -1

NoLock == [kind |-> "none", version |-> 0, stale |-> FALSE]
PublicationLock(v) == [kind |-> "publication", version |-> v, stale |-> FALSE]
DeploymentLock(v) == [kind |-> "deployment", version |-> v, stale |-> FALSE]

NoDraft == [doc |-> InitialDoc, version |-> 0]

IdlePublisher == [pc |-> "idle", actor |-> NoUser, version |-> 0, accounts |-> 0,
                  link |-> NoLink, draft |-> NoDraft]

ClosedClient == [pc |-> "closed", seen |-> NoDraft, base |-> 0, accounts |-> 0]

Versions == 1..Len(revision)
Latest == publication[Len(publication)]
PublishedVersions == {publication[i].version : i \in 1..Len(publication)}
PublishedDoc(v) == (CHOOSE p \in {publication[i] : i \in 1..Len(publication)} : p.version = v).doc

(* hasPolicyRole: a developer has every role.                              *)
HasPolicyRole(u, roles) == role[u] = "developer" \/ role[u] \in roles

(* bypassesFourEyes                                                        *)
BypassesFourEyes(u) == role[u] = "developer"

(* A plan has a command for every policy of the document and for every one *)
(* of the base that is gone (generateDeploymentPlanWithBase); the setup's  *)
(* publication has no plan, so nothing is known to be gone since           *)
(* (deploymentPlanBase).                                                   *)
HasCommands(base, d) ==
  \/ Rendering[d] # NoRendering
  \/ base # InitialVersion /\ Rendering[PublishedDoc(base)] # NoRendering

(* Faulty: the base is forgotten.                                          *)
NewRevisionWithoutBase(base, d, creator, requester) ==
  [base |-> NoLink, doc |-> d, creator |-> creator, requester |-> requester,
   commands |-> HasCommands(base, d), status |-> "pending"]

NewRevision(base, d, creator, requester) ==
  [base |-> base, doc |-> d, creator |-> creator, requester |-> requester,
   commands |-> HasCommands(base, d), status |-> "pending"]

(* requireLatestPublicationDeployed                                        *)
LatestPublicationDeployed ==
  Latest.version # InitialVersion /\ revision[Latest.version].commands
    => Latest.version \in deployed

(* A fresh row blocks; an expired one is deleted by whoever comes next.    *)
LockFree == lock.kind = "none" \/ lock.stale

-----------------------------------------------------------------------------
Init ==
  /\ role = InitialRole
  /\ accountsVersion = 0
  /\ draft = [doc |-> InitialDoc, version |-> 1]
  /\ revision = <<>>
  /\ publication = <<[version |-> InitialVersion, doc |-> InitialDoc, base |-> NoLink,
                      by |-> NoUser, role |-> "viewer"]>>
  /\ current = InitialVersion
  /\ lock = NoLock
  /\ deployed = {}
  /\ deployment = [pc |-> "idle", version |-> 0]
  /\ client = [u \in Users |-> ClosedClient]
  /\ publisher = [h \in Publishers |-> IdlePublisher]
  /\ crashes = 0
  /\ stalls = 0

-----------------------------------------------------------------------------
(* Accounts: any mutation of the live catalog moves its version.           *)

MutateAccount(actor, u, r) ==
  /\ accountsVersion < MaxAccountsVersion
  /\ role[actor] \in {"admin", "developer"}
  /\ r # role[u]
  /\ role' = [role EXCEPT ![u] = r]
  /\ \E p \in Users : role'[p] \in {"admin", "developer"}
  /\ accountsVersion' = accountsVersion + 1
  /\ UNCHANGED <<draft, revision, publication, current, lock, deployed,
                 deployment, client, publisher, crashes, stalls>>

-----------------------------------------------------------------------------
(* Editors.  client[u].seen is the draft the browser shows.                *)

MayEdit(u) == HasPolicyRole(u, {"admin", "editor"})

(* adminPolicy, GET                                                        *)
LoadDraft(u) ==
  /\ MayEdit(u)
  /\ client[u].pc \in {"closed", "open"}
  /\ client' = [client EXCEPT ![u] = [ClosedClient EXCEPT !.pc = "open", !.seen = draft]]
  /\ UNCHANGED <<role, accountsVersion, draft, revision, publication, current, lock,
                 deployed, deployment, publisher, crashes, stalls>>

(* Bound: the revisions stored and those whose staging has begun.          *)
RevisionRoom ==
  Len(revision) + Cardinality({u \in Users : client[u].pc \in {"staging", "based"}})
    < MaxRevision

(* storePolicyDraftVersion with the version the client sent                *)
StoreDraft(u, d) ==
  /\ draft.version < MaxDraftVersion
  /\ client[u].seen.version = draft.version
  /\ draft' = [doc |-> d, version |-> draft.version + 1]

(* adminPolicy, POST                                                       *)
SaveDraft(u, d) ==
  /\ MayEdit(u)
  /\ client[u].pc = "open"
  /\ StoreDraft(u, d)
  /\ client' = [client EXCEPT ![u].seen = draft']
  /\ UNCHANGED <<role, accountsVersion, revision, publication, current, lock,
                 deployed, deployment, publisher, crashes, stalls>>

(* adminStage is three steps: save the draft, read the latest publication, *)
(* store the revision with that base.                                      *)
Stage(u, d) ==
  /\ RevisionRoom
  /\ MayEdit(u)
  /\ client[u].pc = "open"
  /\ StoreDraft(u, d)
  /\ client' = [client EXCEPT ![u].pc = "staging", ![u].seen = draft',
                              ![u].accounts = accountsVersion]
  /\ UNCHANGED <<role, accountsVersion, revision, publication, current, lock,
                 deployed, deployment, publisher, crashes, stalls>>

ReadStagingBase(u) ==
  /\ client[u].pc = "staging"
  /\ client' = [client EXCEPT ![u].pc = "based", ![u].base = Latest.version]
  /\ UNCHANGED <<role, accountsVersion, draft, revision, publication, current, lock,
                 deployed, deployment, publisher, crashes, stalls>>

(* adminRollback reads the base before it saves the draft; a publication   *)
(* between the two moves the draft's version, so that they are one step.   *)
Rollback(u, i) ==
  /\ RevisionRoom
  /\ HasPolicyRole(u, {"admin"})
  /\ client[u].pc = "open"
  /\ StoreDraft(u, publication[i].doc)
  /\ client' = [client EXCEPT ![u].pc = "based", ![u].seen = draft',
                              ![u].base = Latest.version, ![u].accounts = accountsVersion]
  /\ UNCHANGED <<role, accountsVersion, revision, publication, current, lock,
                 deployed, deployment, publisher, crashes, stalls>>

(* storeRevisionWithMetadata; the account fence may refuse it.             *)
StoreRevision(u) ==
  /\ client[u].pc = "based"
  /\ IF client[u].accounts = accountsVersion
     THEN revision' = Append(revision,
            NewRevision(client[u].base, client[u].seen.doc, u, NoUser))
     ELSE UNCHANGED revision
  /\ client' = [client EXCEPT ![u].pc = "open", ![u].base = 0, ![u].accounts = 0]
  /\ UNCHANGED <<role, accountsVersion, draft, publication, current, lock,
                 deployed, deployment, publisher, crashes, stalls>>

(* persistStagedPolicyRequest checks in its transaction that the request's *)
(* base is still the latest publication.                                   *)
StageRequest(u, requester, d) ==
  /\ RevisionRoom
  /\ MayEdit(u)
  /\ revision' = Append(revision, NewRevision(Latest.version, d, u, requester))
  /\ UNCHANGED <<role, accountsVersion, draft, publication, current, lock,
                 deployed, deployment, client, publisher, crashes, stalls>>

-----------------------------------------------------------------------------
(* Reviewers.                                                              *)

MayReview(u) == HasPolicyRole(u, {"admin", "reviewer"})

Authors(v) == {revision[v].creator, revision[v].requester}

(* adminReject and rejectRevision with its linked request                  *)
Reject(u, v) ==
  /\ MayReview(u)
  /\ revision[v].status = "pending"
  /\ u \in Authors(v) => BypassesFourEyes(u)
  /\ revision' = [revision EXCEPT ![v].status = "rejected"]
  /\ UNCHANGED <<role, accountsVersion, draft, publication, current, lock,
                 deployed, deployment, client, publisher, crashes, stalls>>

GoTo(h, pc) == publisher' = [publisher EXCEPT ![h].pc = pc]

(* Bound: two stalled publishers can lift each other's draft versions for  *)
(* ever.  Without a stall, a publication that finds its revision pending   *)
(* is within the bound: every one before it and every crash has lifted the *)
(* version once.                                                           *)
DraftBound == MaxDraftVersion + MaxRevision + MaxCrash - 1

(* adminPublish: the role check                                            *)
AuthorizePublish(h, u) ==
  /\ publisher[h].pc = "idle"
  /\ draft.version <= DraftBound
  /\ MayReview(u)
  /\ publisher' = [publisher EXCEPT ![h].pc = "authorized", ![h].actor = u]
  /\ UNCHANGED <<role, accountsVersion, draft, revision, publication, current, lock,
                 deployed, deployment, client, crashes, stalls>>

(* adminPublish: the revision is loaded with the account catalog and       *)
(* checked; the base is compared with the latest publication here, before  *)
(* the lock is held.                                                       *)
CheckPublish(h, v) ==
  /\ publisher[h].pc = "authorized"
  /\ revision[v].status = "pending"
  /\ publisher[h].actor \in Authors(v) => BypassesFourEyes(publisher[h].actor)
  /\ revision[v].base = Latest.version
  /\ publisher' = [publisher EXCEPT ![h].pc = "checked", ![h].version = v,
                                    ![h].accounts = accountsVersion]
  /\ UNCHANGED <<role, accountsVersion, draft, revision, publication, current, lock,
                 deployed, deployment, client, crashes, stalls>>

(* A refused request: before the lock nothing has changed.                 *)
RefusePublish(h) ==
  /\ \/ publisher[h].pc = "authorized"
     \/ publisher[h].pc = "checked" /\ ~(LockFree /\ LatestPublicationDeployed)
  /\ publisher' = [publisher EXCEPT ![h] = IdlePublisher]
  /\ UNCHANGED <<role, accountsVersion, draft, revision, publication, current, lock,
                 deployed, deployment, client, crashes, stalls>>

(* Faulty: the row is replaced without looking at it.                      *)
AcquireLockUnchecked(h) ==
  /\ publisher[h].pc = "checked"
  /\ LatestPublicationDeployed
  /\ lock' = PublicationLock(publisher[h].version)
  /\ GoTo(h, "locked")
  /\ UNCHANGED <<role, accountsVersion, draft, revision, publication, current,
                 deployed, deployment, client, crashes, stalls>>

AcquirePublicationLock(h) ==
  /\ publisher[h].pc = "checked"
  /\ LockFree
  /\ LatestPublicationDeployed
  /\ lock' = PublicationLock(publisher[h].version)
  /\ GoTo(h, "locked")
  /\ UNCHANGED <<role, accountsVersion, draft, revision, publication, current,
                 deployed, deployment, client, crashes, stalls>>

(* The export into the version's own directory, then the snapshots of the  *)
(* link and of the draft that a failure is undone with.                    *)
ExportPolicy(h) ==
  /\ publisher[h].pc = "locked"
  /\ \/ publisher' = [publisher EXCEPT ![h].pc = "exported", ![h].link = current,
                                       ![h].draft = draft]
     \/ "export" \in IOFaults /\ GoTo(h, "release")
  /\ UNCHANGED <<role, accountsVersion, draft, revision, publication, current, lock,
                 deployed, deployment, client, crashes, stalls>>

(* Faulty: nobody handles the refusal by the account fence.                *)
SavePublishedDraftNoRefusal(h) ==
  /\ publisher[h].pc = "exported"
  /\ publisher[h].accounts = accountsVersion
  /\ draft' = [doc |-> revision[publisher[h].version].doc, version |-> draft.version + 1]
  /\ GoTo(h, "drafted")
  /\ UNCHANGED <<role, accountsVersion, revision, publication, current, lock,
                 deployed, deployment, client, crashes, stalls>>

(* saveDraft: no expected version, only the account fence                  *)
SavePublishedDraft(h) ==
  /\ publisher[h].pc = "exported"
  /\ \/ /\ publisher[h].accounts = accountsVersion
        /\ draft' = [doc |-> revision[publisher[h].version].doc,
                     version |-> draft.version + 1]
        /\ GoTo(h, "drafted")
     \/ /\ publisher[h].accounts # accountsVersion \/ "draft" \in IOFaults
        /\ GoTo(h, "release")
        /\ UNCHANGED draft
  /\ UNCHANGED <<role, accountsVersion, revision, publication, current, lock,
                 deployed, deployment, client, crashes, stalls>>

(* Faulty: the rename is skipped.                                          *)
RemoveCurrentLinkOnly(h) ==
  /\ publisher[h].pc = "drafted"
  /\ current' = NoLink
  /\ GoTo(h, "switched")
  /\ UNCHANGED <<role, accountsVersion, draft, revision, publication, lock,
                 deployed, deployment, client, crashes, stalls>>

RemoveCurrentLink(h) ==
  /\ publisher[h].pc = "drafted"
  /\ \/ current' = NoLink /\ GoTo(h, "unlinked")
     \/ "unlink" \in IOFaults /\ GoTo(h, "restoreDraft") /\ UNCHANGED current
  /\ UNCHANGED <<role, accountsVersion, draft, revision, publication, lock,
                 deployed, deployment, client, crashes, stalls>>

RenameCurrentLink(h) ==
  /\ publisher[h].pc = "unlinked"
  /\ \/ current' = publisher[h].version /\ GoTo(h, "switched")
     \/ "rename" \in IOFaults /\ GoTo(h, "restoreLink") /\ UNCHANGED current
  /\ UNCHANGED <<role, accountsVersion, draft, revision, publication, lock,
                 deployed, deployment, client, crashes, stalls>>

(* Faulty: no account fence; no look at the lock; no look at the status.   *)
FinalizableUnfenced(h) ==
  /\ lock.kind = "none" \/ lock.stale \/ lock = PublicationLock(publisher[h].version)
  /\ revision[publisher[h].version].status = "pending"

FinalizableUnlocked(h) ==
  /\ publisher[h].accounts = accountsVersion
  /\ revision[publisher[h].version].status = "pending"

FinalizableDecided(h) ==
  /\ publisher[h].accounts = accountsVersion
  /\ lock.kind = "none" \/ lock.stale \/ lock = PublicationLock(publisher[h].version)

(* The conditions of finalizePublicationWithSetupClaim's transaction.  A   *)
(* missing lock row does not stop it, only somebody else's fresh one.      *)
Finalizable(h) ==
  LET v == publisher[h].version
      u == publisher[h].actor
  IN  /\ publisher[h].accounts = accountsVersion
      /\ lock.kind = "none" \/ lock.stale \/ lock = PublicationLock(v)
      /\ v \notin PublishedVersions
      /\ revision[v].status = "pending"
      /\ u = revision[v].requester => BypassesFourEyes(u)

(* Faulty: no request becomes obsolete; decided ones do.                   *)
NoObsoleteRequests(v) == {}

ObsoleteDecidedRequests(v) ==
  {w \in Versions : revision[w].requester # NoUser /\ revision[w].base # v /\ w # v}

(* conflictObsoletePolicyRequestsTx: staged requests with another base     *)
ObsoleteRequests(v) ==
  {w \in Versions : /\ revision[w].requester # NoUser
                    /\ revision[w].status = "pending"
                    /\ revision[w].base # v
                    /\ w # v}

Decide(v) ==
  [w \in Versions |->
     [revision[w] EXCEPT !.status = IF w = v THEN "published"
                                    ELSE IF w \in ObsoleteRequests(v) THEN "rejected"
                                    ELSE @]]

(* Faulty: after a failed commit only the draft is restored.               *)
FinalizeKeepingLink(h) ==
  /\ publisher[h].pc = "switched"
  /\ IF Finalizable(h)
     THEN /\ publication' = Append(publication,
               [version |-> publisher[h].version, doc |-> revision[publisher[h].version].doc,
                base |-> revision[publisher[h].version].base,
                by |-> publisher[h].actor, role |-> role[publisher[h].actor]])
          /\ revision' = Decide(publisher[h].version)
          /\ GoTo(h, "release")
     ELSE GoTo(h, "restoreDraft") /\ UNCHANGED <<publication, revision>>
  /\ UNCHANGED <<role, accountsVersion, draft, current, lock,
                 deployed, deployment, client, crashes, stalls>>

FinalizePublication(h) ==
  LET v == publisher[h].version
      u == publisher[h].actor
  IN  /\ publisher[h].pc = "switched"
      /\ \/ /\ Finalizable(h)
            /\ publication' = Append(publication,
                 [version |-> v, doc |-> revision[v].doc, base |-> revision[v].base,
                  by |-> u, role |-> role[u]])
            /\ revision' = Decide(v)
            /\ GoTo(h, "release")
         \/ /\ ~Finalizable(h) \/ "finalize" \in IOFaults
            /\ GoTo(h, "restoreLink")
            /\ UNCHANGED <<publication, revision>>
      /\ UNCHANGED <<role, accountsVersion, draft, current, lock,
                     deployed, deployment, client, crashes, stalls>>

(* Faulty: the link is removed but not put back.                           *)
RestoreNoLink(h) ==
  /\ publisher[h].pc = "restoreLink"
  /\ current' = NoLink
  /\ GoTo(h, "restoreDraft")
  /\ UNCHANGED <<role, accountsVersion, draft, revision, publication, lock,
                 deployed, deployment, client, crashes, stalls>>

RestoreCurrentPolicyLink(h) ==
  /\ publisher[h].pc = "restoreLink"
  /\ current' = publisher[h].link
  /\ GoTo(h, "restoreDraft")
  /\ UNCHANGED <<role, accountsVersion, draft, revision, publication, lock,
                 deployed, deployment, client, crashes, stalls>>

(* The snapshot's document and its version number come back, whatever was  *)
(* saved in the meantime.                                                  *)
RestoreStoredPolicyDraft(h) ==
  /\ publisher[h].pc = "restoreDraft"
  /\ draft' = publisher[h].draft
  /\ GoTo(h, "release")
  /\ UNCHANGED <<role, accountsVersion, revision, publication, current, lock,
                 deployed, deployment, client, crashes, stalls>>

(* releaseDeploymentLock deletes the row only if it is this publication's. *)
ReleaseLock(h) ==
  /\ publisher[h].pc = "release"
  /\ lock' = IF lock.kind = "publication" /\ lock.version = publisher[h].version
             THEN NoLock ELSE lock
  /\ publisher' = [publisher EXCEPT ![h] = IdlePublisher]
  /\ UNCHANGED <<role, accountsVersion, draft, revision, publication, current,
                 deployed, deployment, client, crashes, stalls>>

-----------------------------------------------------------------------------
(* Deployments, as the workflow sees them: holders of the same lock whose  *)
(* protocol decides whether the next publication may start.                *)

(* adminDeploy up to and including startDeploymentLog                      *)
StartDeployment(u) ==
  /\ HasPolicyRole(u, {"admin", "deployer"})
  /\ deployment.pc = "idle"
  /\ Latest.version # InitialVersion
  /\ revision[Latest.version].commands
  /\ LockFree
  /\ lock' = DeploymentLock(Latest.version)
  /\ deployed' = deployed \ {Latest.version}
  /\ deployment' = [pc |-> "running", version |-> Latest.version]
  /\ UNCHANGED <<role, accountsVersion, draft, revision, publication, current,
                 client, publisher, crashes, stalls>>

(* finishDeploymentLog, with the outcome of the run                        *)
FinishDeployment(succeeded) ==
  /\ deployment.pc = "running"
  /\ deployed' = IF succeeded THEN deployed \cup {deployment.version} ELSE deployed
  /\ deployment' = [deployment EXCEPT !.pc = "logged"]
  /\ UNCHANGED <<role, accountsVersion, draft, revision, publication, current, lock,
                 client, publisher, crashes, stalls>>

ReleaseDeployment ==
  /\ deployment.pc = "logged"
  /\ lock' = IF lock.kind = "deployment" THEN NoLock ELSE lock
  /\ deployment' = [pc |-> "idle", version |-> 0]
  /\ UNCHANGED <<role, accountsVersion, draft, revision, publication, current,
                 deployed, client, publisher, crashes, stalls>>

-----------------------------------------------------------------------------
(* The environment: the server dies with all its handlers; the lock's hour *)
(* passes.  A live deployment is bounded by 30 minutes and its rollback by *)
(* 10 more, so that its lock is never stale; a publisher has no deadline.  *)

Crash ==
  /\ crashes < MaxCrash
  /\ crashes' = crashes + 1
  /\ publisher' = [h \in Publishers |-> IdlePublisher]
  /\ client' = [u \in Users |-> IF client[u].pc \in {"staging", "based"}
                                THEN [client[u] EXCEPT !.pc = "open", !.base = 0, !.accounts = 0]
                                ELSE client[u]]
  /\ deployment' = [pc |-> "idle", version |-> 0]
  /\ UNCHANGED <<role, accountsVersion, draft, revision, publication, current, lock, deployed, stalls>>

Holding == {"locked", "exported", "drafted", "unlinked", "switched",
            "restoreLink", "restoreDraft", "release"}

HolderLive ==
  \/ lock.kind = "deployment" /\ deployment.pc # "idle"
  \/ /\ lock.kind = "publication"
     /\ \E h \in Publishers : publisher[h].pc \in Holding

(* Faulty: a lease shorter than the operations it protects.                *)
ExpireLiveLock ==
  /\ lock.kind # "none"
  /\ ~lock.stale
  /\ lock' = [lock EXCEPT !.stale = TRUE]
  /\ UNCHANGED <<role, accountsVersion, draft, revision, publication, current,
                 deployed, deployment, client, publisher, crashes, stalls>>

(* Faulty: only publications' rows ever expire.                            *)
ExpirePublicationLock ==
  /\ lock.kind = "publication"
  /\ ~lock.stale
  /\ ~HolderLive
  /\ lock' = [lock EXCEPT !.stale = TRUE]
  /\ UNCHANGED <<role, accountsVersion, draft, revision, publication, current,
                 deployed, deployment, client, publisher, crashes, stalls>>

ExpireLock ==
  /\ lock.kind # "none"
  /\ ~lock.stale
  /\ \/ ~HolderLive /\ UNCHANGED stalls
     \/ /\ HolderLive /\ lock.kind = "publication" /\ stalls < MaxStall
        /\ stalls' = stalls + 1
  /\ lock' = [lock EXCEPT !.stale = TRUE]
  /\ UNCHANGED <<role, accountsVersion, draft, revision, publication, current,
                 deployed, deployment, client, publisher, crashes>>

-----------------------------------------------------------------------------
EditorStep(u) ==
  \/ LoadDraft(u)
  \/ \E d \in Docs : SaveDraft(u, d) \/ Stage(u, d)
  \/ \E i \in 1..Len(publication) : Rollback(u, i)
  \/ \E q \in Users, d \in Docs : StageRequest(u, q, d)

StagingStep(u) == ReadStagingBase(u) \/ StoreRevision(u)

(* The steps of an approval request once it has been accepted.             *)
PublishStep(h) ==
  \/ RefusePublish(h) \/ AcquirePublicationLock(h) \/ ExportPolicy(h)
  \/ SavePublishedDraft(h) \/ RemoveCurrentLink(h) \/ RenameCurrentLink(h)
  \/ FinalizePublication(h) \/ RestoreCurrentPolicyLink(h)
  \/ RestoreStoredPolicyDraft(h) \/ ReleaseLock(h)

DeploymentStep == (\E ok \in BOOLEAN : FinishDeployment(ok)) \/ ReleaseDeployment

Next ==
  \/ \E a \in Users, u \in Users, r \in Roles : MutateAccount(a, u, r)
  \/ \E u \in Users : EditorStep(u) \/ StagingStep(u) \/ StartDeployment(u)
  \/ \E u \in Users, v \in Versions : Reject(u, v)
  \/ \E h \in Publishers, u \in Users : AuthorizePublish(h, u)
  \/ \E h \in Publishers, v \in Versions : CheckPublish(h, v)
  \/ \E h \in Publishers : PublishStep(h)
  \/ DeploymentStep
  \/ Crash
  \/ ExpireLock

Spec == Init /\ [][Next]_vars

(* Handlers that have started run on, and clocks advance; what users do is *)
(* up to them.                                                             *)
Fairness ==
  /\ \A h \in Publishers : WF_vars(PublishStep(h))
  /\ \A u \in Users : WF_vars(StagingStep(u))
  /\ WF_vars(DeploymentStep)
  /\ WF_vars(ExpireLock)

FairSpec == Spec /\ Fairness
-----------------------------------------------------------------------------
DraftType == [doc : Docs, version : Nat]
RevisionType == [base : Nat, doc : Docs, creator : Users, requester : Users \cup {NoUser},
                 commands : BOOLEAN, status : {"pending", "published", "rejected"}]
PublicationType == [version : Nat, doc : Docs, base : Int, by : Users \cup {NoUser},
                    role : Roles]
LockType == [kind : {"none", "publication", "deployment"}, version : Nat, stale : BOOLEAN]
ClientType == [pc : {"closed", "open", "staging", "based"}, seen : DraftType,
               base : Nat, accounts : Nat]
PublisherType == [pc : {"idle", "authorized", "checked"} \cup Holding,
                  actor : Users \cup {NoUser}, version : Nat, accounts : Nat,
                  link : Int, draft : DraftType]

(* The tables, the link and the handlers' variables have their types.      *)
TypeOK ==
  /\ role \in [Users -> Roles]
  /\ accountsVersion \in Nat
  /\ draft \in DraftType
  /\ revision \in Seq(RevisionType)
  /\ publication \in Seq(PublicationType) /\ publication # <<>>
  /\ current \in Int
  /\ lock \in LockType
  /\ deployed \subseteq Nat
  /\ deployment \in [pc : {"idle", "running", "logged"}, version : Nat]
  /\ client \in [Users -> ClientType]
  /\ publisher \in [Publishers -> PublisherType]
  /\ crashes \in Nat
  /\ stalls \in Nat

InCriticalSection(h) == publisher[h].pc \in Holding

(* Publication and device mutation exclude each other for the complete     *)
(* operation (acquirePublicationLock), across crashes and lock expiry, as  *)
(* long as no live publisher is suspended for an hour.                     *)
MutualExclusion ==
  /\ \A g, h \in Publishers : InCriticalSection(g) /\ InCriticalSection(h) => g = h
  /\ deployment.pc # "idle" => \A h \in Publishers : ~InCriticalSection(h)

(* No publication is committed while a deployment is in flight, so that    *)
(* the latest publication keeps its meaning for the deployment             *)
(* (finalizePublicationWithSetupClaim), even after a publisher slept       *)
(* through the expiry of its own lock.                                     *)
NoPublicationDuringDeployment ==
  [][publication' # publication => deployment.pc = "idle"]_vars

(* Four eyes: a published revision was approved by an account that neither *)
(* created it nor requested it, or that was a developer at the moment of   *)
(* the commit, however roles changed since the approval was checked.       *)
FourEyes ==
  \A i \in 2..Len(publication) :
    publication[i].by \in Authors(publication[i].version)
      => publication[i].role = "developer"

(* Every publication after the first is one published revision with the    *)
(* reviewed document, and no revision is published twice.                  *)
PublishedExactlyOnce ==
  /\ \A i \in 2..Len(publication) :
       /\ publication[i].version \in Versions
       /\ revision[publication[i].version].status = "published"
       /\ revision[publication[i].version].doc = publication[i].doc
  /\ \A v \in Versions : revision[v].status = "published" =>
       \E i \in 2..Len(publication) : publication[i].version = v
  /\ \A i, j \in 1..Len(publication) : publication[i].version = publication[j].version => i = j

(* A request's revision can never be approved after its base changed       *)
(* (conflictObsoletePolicyRequestsTx): while it is pending its base is the *)
(* latest publication, whatever was published in between.                  *)
PendingRequestOnLatestBase ==
  \A v \in Versions :
    revision[v].requester # NoUser /\ revision[v].status = "pending"
      => revision[v].base = Latest.version

(* ... so that a request is always published on the base it was reviewed   *)
(* against.                                                                *)
RequestPublishedOnItsBase ==
  \A i \in 2..Len(publication) :
    revision[publication[i].version].requester # NoUser
      => publication[i].base = publication[i - 1].version

(* Without a crash the link readers follow is the latest publication       *)
(* whenever no publication is between removing and settling it: a failed   *)
(* publication leaves no trace in what users see.                          *)
LinkIsLatestPublication ==
  (crashes = 0 /\ \A h \in Publishers :
     publisher[h].pc \notin {"unlinked", "switched", "restoreLink"})
    => current = Latest.version

(* Whatever a crash has left behind, a publication is only committed with  *)
(* the link already on it.                                                 *)
CommitFollowsLink ==
  [][publication' # publication => current = publication'[Len(publication')].version]_vars

(* No crash, failure or interleaving holds the interlock for ever.         *)
LockIsReleased == []<>LockFree

(* An approval request always gets its answer.                             *)
PublisherReturns ==
  \A h \in Publishers : publisher[h].pc \in Holding ~> publisher[h].pc = "idle"

(* The workflow implements the reviewed history it promises: revisions are *)
(* its proposals, publications after the setup's its history.              *)
Proposals ==
  [v \in Versions |-> [authors |-> Authors(v) \ {NoUser}, status |-> revision[v].status]]

PublishedHistory ==
  [i \in 1..(Len(publication) - 1) |->
     [version |-> publication[i + 1].version, by |-> publication[i + 1].by,
      role |-> publication[i + 1].role]]

Reviewed == INSTANCE ReviewedHistory WITH proposals <- Proposals, history <- PublishedHistory

ImplementsReviewedHistory == Reviewed!Spec

-----------------------------------------------------------------------------
(* What the documentation says and the code does not keep.                 *)

(* README, "Entwurf, Staging, Freigabe und Deployment": if the base        *)
(* revision changes between staging and approval the operation is aborted. *)
EveryPublicationOnItsBase ==
  \A i \in 2..Len(publication) : publication[i].base = publication[i - 1].version

(* errDraftConflict, "draft changed since it was loaded": a save is        *)
(* accepted only if the draft is the one its editor had loaded.            *)
SaveFindsLoadedDraft ==
  [][\A u \in Users :
       client'[u].seen # client[u].seen /\ draft' # draft => client[u].seen = draft]_vars
=============================================================================
