------------------------ MODULE PolicyWorkflowProofs ------------------------
(***************************************************************************)
(* Theorems about PolicyWorkflow, for every value of its constants.        *)
(***************************************************************************)
EXTENDS PolicyWorkflow, SequenceTheorems, TLAPS

-----------------------------------------------------------------------------
(* The deployment's side of the interlock.  It needs nothing about the     *)
(* publishers: a running deployment keeps a fresh row of its own kind, and *)
(* the conditions of a commit exclude such a row.                          *)

DeploymentHoldsLock ==
  deployment.pc # "idle" => lock.kind = "deployment" /\ ~lock.stale

LEMMA DeploymentHoldsLockInit == Init => DeploymentHoldsLock
BY DEF Init, DeploymentHoldsLock

LEMMA DeploymentHoldsLockStep ==
  DeploymentHoldsLock /\ [Next]_vars => DeploymentHoldsLock'
<1> SUFFICES ASSUME DeploymentHoldsLock, [Next]_vars
             PROVE  DeploymentHoldsLock'
  OBVIOUS
<1> USE DEF DeploymentHoldsLock
<1>1. CASE UNCHANGED <<lock, deployment>>
  BY <1>1
<1>2. ASSUME NEW h \in Publishers, AcquirePublicationLock(h)
      PROVE  DeploymentHoldsLock'
  BY <1>2 DEF AcquirePublicationLock, LockFree
<1>3. ASSUME NEW h \in Publishers, ReleaseLock(h)
      PROVE  DeploymentHoldsLock'
  BY <1>3 DEF ReleaseLock
<1>4. ASSUME NEW u \in Users, StartDeployment(u)
      PROVE  DeploymentHoldsLock'
  BY <1>4 DEF StartDeployment, DeploymentLock
<1>5. ASSUME NEW ok \in BOOLEAN, FinishDeployment(ok)
      PROVE  DeploymentHoldsLock'
  BY <1>5 DEF FinishDeployment
<1>6. CASE ReleaseDeployment
  BY <1>6 DEF ReleaseDeployment
<1>7. CASE Crash
  BY <1>7 DEF Crash
<1>8. CASE ExpireLock
  BY <1>8 DEF ExpireLock, HolderLive
<1>9. ASSUME NEW h \in Publishers, PublishStep(h)
      PROVE  DeploymentHoldsLock'
  <2>1. AcquirePublicationLock(h) \/ ReleaseLock(h) \/ UNCHANGED <<lock, deployment>>
    BY <1>9 DEF PublishStep, RefusePublish, ExportPolicy, SavePublishedDraft,
                RemoveCurrentLink, RenameCurrentLink, FinalizePublication,
                RestoreCurrentPolicyLink, RestoreStoredPolicyDraft
  <2> QED
    BY <2>1, <1>1, <1>2, <1>3
<1>10. ASSUME NEW u \in Users, EditorStep(u) \/ StagingStep(u)
       PROVE  UNCHANGED <<lock, deployment>>
  BY <1>10 DEF EditorStep, StagingStep, LoadDraft, SaveDraft, Stage, Rollback,
               StageRequest, ReadStagingBase, StoreRevision
<1>11. CASE UNCHANGED vars
  BY <1>11 DEF vars
<1>12. ASSUME NEW a \in Users, NEW u \in Users, NEW r \in Roles, MutateAccount(a, u, r)
       PROVE  UNCHANGED <<lock, deployment>>
  BY <1>12 DEF MutateAccount
<1>13. ASSUME NEW u \in Users, NEW v \in Versions, Reject(u, v)
       PROVE  UNCHANGED <<lock, deployment>>
  BY <1>13 DEF Reject
<1>14. ASSUME NEW h \in Publishers, NEW u \in Users, AuthorizePublish(h, u)
       PROVE  UNCHANGED <<lock, deployment>>
  BY <1>14 DEF AuthorizePublish
<1>15. ASSUME NEW h \in Publishers, NEW v \in Versions, CheckPublish(h, v)
       PROVE  UNCHANGED <<lock, deployment>>
  BY <1>15 DEF CheckPublish
<1> QED
  BY <1>1, <1>4, <1>5, <1>6, <1>7, <1>8, <1>9, <1>10, <1>11, <1>12, <1>13, <1>14,
     <1>15 DEF Next, DeploymentStep

(* Only the commit of a publication changes the table of publications.     *)
LEMMA OnlyCommitPublishes ==
  ASSUME [Next]_vars, publication' # publication
  PROVE  \E h \in Publishers : Finalizable(h)
<1>1. ~UNCHANGED vars
  BY DEF vars
<1>2. \A a \in Users, u \in Users, r \in Roles : ~MutateAccount(a, u, r)
  BY DEF MutateAccount
<1>3. \A u \in Users : ~(EditorStep(u) \/ StagingStep(u) \/ StartDeployment(u))
  BY DEF EditorStep, StagingStep, LoadDraft, SaveDraft, Stage, Rollback,
         StageRequest, ReadStagingBase, StoreRevision, StartDeployment
<1>4. \A u \in Users, v \in Versions : ~Reject(u, v)
  BY DEF Reject
<1>5. \A h \in Publishers, u \in Users : ~AuthorizePublish(h, u)
  BY DEF AuthorizePublish
<1>6. \A h \in Publishers, v \in Versions : ~CheckPublish(h, v)
  BY DEF CheckPublish
<1>7. ~DeploymentStep /\ ~Crash /\ ~ExpireLock
  BY DEF DeploymentStep, FinishDeployment, ReleaseDeployment, Crash, ExpireLock
<1>8. PICK h \in Publishers : PublishStep(h)
  BY <1>1, <1>2, <1>3, <1>4, <1>5, <1>6, <1>7 DEF Next
<1>9. FinalizePublication(h)
  BY <1>8 DEF PublishStep, RefusePublish, AcquirePublicationLock, ExportPolicy,
              SavePublishedDraft, RemoveCurrentLink, RenameCurrentLink,
              RestoreCurrentPolicyLink, RestoreStoredPolicyDraft, ReleaseLock
<1> QED
  BY <1>9 DEF FinalizePublication

(* No publication is committed while a deployment is in flight             *)
(* (finalizePublicationWithSetupClaim against startDeploymentLog), however *)
(* many publishers have slept through the expiry of their lock.            *)
THEOREM PublicationWaitsForDeployment == Spec => NoPublicationDuringDeployment
<1>1. DeploymentHoldsLock /\ [Next]_vars
        => [publication' # publication => deployment.pc = "idle"]_vars
  <2> SUFFICES ASSUME DeploymentHoldsLock, [Next]_vars, publication' # publication
               PROVE  deployment.pc = "idle"
    OBVIOUS
  <2>1. PICK h \in Publishers : Finalizable(h)
    BY OnlyCommitPublishes
  <2> QED
    BY <2>1 DEF Finalizable, PublicationLock, DeploymentHoldsLock
<1> QED
  BY <1>1, DeploymentHoldsLockInit, DeploymentHoldsLockStep, PTL
     DEF Spec, NoPublicationDuringDeployment
-----------------------------------------------------------------------------
(* Types.  A handler that has chosen its actor or its revision refers to   *)
(* an existing one, which is what types everything it copies.              *)

HandlersRefer ==
  \A h \in Publishers :
    /\ publisher[h].pc # "idle" => publisher[h].actor \in Users
    /\ publisher[h].pc \in {"checked"} \cup Holding => publisher[h].version \in Versions

Typed == TypeOK /\ HandlersRefer

LEMMA TypedInit == Init => Typed
<1> SUFFICES ASSUME Init PROVE Typed
  OBVIOUS
<1>1. publication \in Seq(PublicationType) /\ publication # <<>>
  BY WorkflowAssumption DEF Init, PublicationType, InitialVersion, NoLink, Roles
<1>2. revision \in Seq(RevisionType)
  BY DEF Init
<1>3. client \in [Users -> ClientType]
  BY WorkflowAssumption DEF Init, ClientType, ClosedClient, NoDraft, DraftType
<1>4. publisher \in [Publishers -> PublisherType]
  BY WorkflowAssumption DEF Init, PublisherType, IdlePublisher, NoDraft, DraftType, NoLink
<1>5. TypeOK
  BY <1>1, <1>2, <1>3, <1>4, WorkflowAssumption
     DEF Init, TypeOK, DraftType, LockType, NoLock, InitialVersion
<1>6. HandlersRefer
  BY DEF Init, HandlersRefer, IdlePublisher, Holding
<1> QED
  BY <1>5, <1>6 DEF Typed

(* A revision that is stored keeps its type, its place and its content.    *)
LEMMA AppendRevision ==
  ASSUME Typed, NEW b \in Nat, NEW d \in Docs, NEW c \in Users,
         NEW q \in Users \cup {NoUser}, revision' = Append(revision, NewRevision(b, d, c, q))
  PROVE  /\ revision' \in Seq(RevisionType)
         /\ Versions \subseteq Versions'
         /\ Len(revision') = Len(revision) + 1
         /\ \A v \in Versions : revision'[v] = revision[v]
         /\ revision'[Len(revision) + 1] = NewRevision(b, d, c, q)
<1>1. HasCommands(b, d) \in BOOLEAN
  BY DEF HasCommands
<1>2. NewRevision(b, d, c, q) \in RevisionType
  BY <1>1 DEF NewRevision, RevisionType
<1>3. revision \in Seq(RevisionType)
  BY DEF Typed, TypeOK
<1> QED
  BY <1>2, <1>3 DEF Versions

(* A decision changes the status of revisions and nothing else.            *)
LEMMA DecideRevision ==
  ASSUME Typed, NEW v \in Versions, revision' = Decide(v)
  PROVE  /\ revision' \in Seq(RevisionType)
         /\ Versions' = Versions
         /\ \A w \in Versions :
              revision'[w] = [revision[w] EXCEPT !.status =
                                IF w = v THEN "published"
                                ELSE IF w \in ObsoleteRequests(v) THEN "rejected" ELSE @]
<1>1. revision \in Seq(RevisionType) /\ Len(revision) \in Nat
  BY DEF Typed, TypeOK
<1>2. \A w \in Versions : revision[w] \in RevisionType
  BY <1>1 DEF Versions
<1>3. \A w \in Versions :
        [revision[w] EXCEPT !.status = IF w = v THEN "published"
           ELSE IF w \in ObsoleteRequests(v) THEN "rejected" ELSE @] \in RevisionType
  BY <1>2 DEF RevisionType
<1>4. Decide(v) \in [1..Len(revision) -> RevisionType]
  BY <1>3 DEF Decide, Versions
<1>5. Decide(v) \in Seq(RevisionType) /\ Len(Decide(v)) = Len(revision)
  BY <1>1, <1>4, SeqDef, LenProperties DEF Decide, Versions
<1> QED
  BY <1>5 DEF Decide, Versions

LEMMA RejectRevision ==
  ASSUME Typed, NEW v \in Versions,
         revision' = [revision EXCEPT ![v].status = "rejected"]
  PROVE  /\ revision' \in Seq(RevisionType)
         /\ Versions' = Versions
         /\ \A w \in Versions :
              revision'[w] = IF w = v THEN [revision[v] EXCEPT !.status = "rejected"]
                             ELSE revision[w]
<1>1. revision \in Seq(RevisionType)
  BY DEF Typed, TypeOK
<1>2. revision[v] \in RevisionType
  BY <1>1 DEF Versions
<1>3. [revision[v] EXCEPT !.status = "rejected"] \in RevisionType
  BY <1>2 DEF RevisionType
<1>4. revision' = [revision EXCEPT ![v] = [revision[v] EXCEPT !.status = "rejected"]]
  OBVIOUS
<1> QED
  BY <1>1, <1>3, <1>4, ExceptSeq DEF Versions

LEMMA PublicationsTyped ==
  ASSUME Typed
  PROVE  /\ Len(publication) \in Nat \ {0}
         /\ \A i \in 1..Len(publication) : publication[i] \in PublicationType
         /\ Latest.version \in Nat
<1>1. publication \in Seq(PublicationType) /\ publication # <<>>
  BY DEF Typed, TypeOK
<1>2. Len(publication) \in Nat \ {0}
  BY <1>1, EmptySeq
<1>3. \A i \in 1..Len(publication) : publication[i] \in PublicationType
  BY <1>1, ElementOfSeq
<1>4. Latest \in PublicationType
  BY <1>2, <1>3 DEF Latest
<1> QED
  BY <1>2, <1>3, <1>4 DEF PublicationType

(* Editors and staging.                                                    *)
LEMMA TypedEditorStep ==
  ASSUME Typed, NEW u \in Users, EditorStep(u) \/ StagingStep(u)
  PROVE  Typed'
<1> USE DEF Typed, TypeOK, HandlersRefer
<1>1. ASSUME client' \in [Users -> ClientType], draft' \in DraftType,
             UNCHANGED <<role, accountsVersion, revision, publication, current, lock,
                         deployed, deployment, publisher, crashes, stalls>>
      PROVE  Typed'
  BY <1>1 DEF Versions
<1>2. ASSUME NEW b \in Nat, NEW d \in Docs, NEW c \in Users, NEW q \in Users \cup {NoUser},
             revision' = Append(revision, NewRevision(b, d, c, q)),
             client' \in [Users -> ClientType],
             UNCHANGED <<role, accountsVersion, draft, publication, current, lock,
                         deployed, deployment, publisher, crashes, stalls>>
      PROVE  Typed'
  <2>1. revision' \in Seq(RevisionType) /\ Versions \subseteq Versions'
    BY <1>2, AppendRevision
  <2> QED
    BY <1>2, <2>1
<1>3. client[u] \in ClientType /\ client[u].seen \in DraftType /\ draft.version \in Nat
  BY DEF ClientType, DraftType
<1>4. CASE LoadDraft(u)
  <2>1. [ClosedClient EXCEPT !.pc = "open", !.seen = draft] \in ClientType
    BY DEF ClosedClient, ClientType
  <2> QED
    BY <1>1, <1>4, <2>1 DEF LoadDraft
<1>5. ASSUME NEW d \in Docs, SaveDraft(u, d)
      PROVE  Typed'
  <2>1. draft' \in DraftType
    BY <1>3, <1>5 DEF SaveDraft, StoreDraft, DraftType
  <2>2. client' \in [Users -> ClientType]
    BY <1>5, <2>1, <1>3 DEF SaveDraft, ClientType
  <2> QED
    BY <1>1, <1>5, <2>1, <2>2 DEF SaveDraft
<1>6. ASSUME NEW d \in Docs, Stage(u, d)
      PROVE  Typed'
  <2>1. draft' \in DraftType
    BY <1>3, <1>6 DEF Stage, StoreDraft, DraftType
  <2>2. client' \in [Users -> ClientType]
    BY <1>6, <2>1, <1>3 DEF Stage, ClientType
  <2> QED
    BY <1>1, <1>6, <2>1, <2>2 DEF Stage
<1>7. ASSUME NEW i \in 1..Len(publication), Rollback(u, i)
      PROVE  Typed'
  <2>1. publication[i].doc \in Docs /\ Latest.version \in Nat
    BY PublicationsTyped DEF PublicationType
  <2>2. draft' \in DraftType
    BY <1>3, <1>7, <2>1 DEF Rollback, StoreDraft, DraftType
  <2>3. client' \in [Users -> ClientType]
    BY <1>7, <2>1, <2>2, <1>3 DEF Rollback, ClientType
  <2> QED
    BY <1>1, <1>7, <2>2, <2>3 DEF Rollback
<1>8. ASSUME NEW q \in Users, NEW d \in Docs, StageRequest(u, q, d)
      PROVE  Typed'
  <2>1. Latest.version \in Nat
    BY PublicationsTyped
  <2> QED
    BY <1>2, <1>8, <2>1 DEF StageRequest
<1>9. CASE ReadStagingBase(u)
  <2>1. Latest.version \in Nat
    BY PublicationsTyped
  <2>2. client' \in [Users -> ClientType]
    BY <1>9, <1>3, <2>1 DEF ReadStagingBase, ClientType
  <2> QED
    BY <1>1, <1>9, <2>2 DEF ReadStagingBase
<1>10. CASE StoreRevision(u)
  <2>1. client' \in [Users -> ClientType]
    BY <1>10, <1>3 DEF StoreRevision, ClientType
  <2>2. client[u].base \in Nat /\ client[u].seen.doc \in Docs
    BY <1>3 DEF ClientType, DraftType
  <2>3. CASE UNCHANGED revision
    BY <1>1, <1>10, <2>1, <2>3 DEF StoreRevision
  <2>4. CASE revision' = Append(revision, NewRevision(client[u].base, client[u].seen.doc, u, NoUser))
    BY <1>2, <1>10, <2>1, <2>2, <2>4 DEF StoreRevision
  <2> QED
    BY <1>10, <2>3, <2>4 DEF StoreRevision
<1> QED
  BY <1>4, <1>5, <1>6, <1>7, <1>8, <1>9, <1>10 DEF EditorStep, StagingStep

(* The steps of an approval request.                                       *)
LEMMA TypedPublishStep ==
  ASSUME Typed, NEW h \in Publishers, PublishStep(h)
  PROVE  Typed'
<1> USE DEF Typed, TypeOK, HandlersRefer
<1>1. publisher[h] \in PublisherType /\ publisher[h].draft \in DraftType /\ draft.version \in Nat
  BY DEF PublisherType, DraftType
<1>2. ASSUME NEW p \in PublisherType, publisher' = [publisher EXCEPT ![h] = p],
             p.pc # "idle" => p.actor \in Users,
             p.pc \in {"checked"} \cup Holding => p.version \in Versions,
             current' \in Int, draft' \in DraftType, lock' \in LockType,
             UNCHANGED <<role, accountsVersion, revision, publication, deployed,
                         deployment, client, crashes, stalls>>
      PROVE  Typed'
  BY <1>2 DEF Versions
<1>3. ASSUME NEW pc \in {"authorized", "checked"} \cup Holding, GoTo(h, pc),
             publisher[h].pc \in {"checked"} \cup Holding,
             current' \in Int, draft' \in DraftType, lock' \in LockType,
             UNCHANGED <<role, accountsVersion, revision, publication, deployed,
                         deployment, client, crashes, stalls>>
      PROVE  Typed'
  <2> DEFINE p == [publisher[h] EXCEPT !.pc = pc]
  <2>1. p \in PublisherType
    BY <1>1 DEF PublisherType
  <2>2. p.actor = publisher[h].actor /\ p.version = publisher[h].version
    BY <1>1 DEF PublisherType
  <2>3. publisher[h].pc # "idle"
    BY <1>3 DEF Holding
  <2>4. p.actor \in Users /\ p.version \in Versions
    BY <1>3, <2>2, <2>3
  <2>5. publisher' = [publisher EXCEPT ![h] = p]
    BY <1>3 DEF GoTo
  <2> QED
    BY <1>2, <1>3, <2>1, <2>4, <2>5
<1>4. IdlePublisher \in PublisherType /\ IdlePublisher.pc \notin {"checked"} \cup Holding
  BY WorkflowAssumption DEF IdlePublisher, PublisherType, NoDraft, DraftType, NoLink, Holding
<1>5. CASE RefusePublish(h)
  BY <1>2, <1>4, <1>5 DEF RefusePublish, IdlePublisher
<1>6. CASE AcquirePublicationLock(h)
  <2>1. publisher[h].version \in Nat
    BY <1>1 DEF PublisherType
  <2>2. lock' \in LockType
    BY <1>6, <2>1 DEF AcquirePublicationLock, PublicationLock, LockType
  <2> QED
    BY <1>3, <1>6, <2>2 DEF AcquirePublicationLock, Holding
<1>7. CASE ExportPolicy(h)
  <2> DEFINE p == [publisher[h] EXCEPT !.pc = "exported", !.link = current, !.draft = draft]
  <2>1. p \in PublisherType /\ p.actor = publisher[h].actor /\ p.version = publisher[h].version
    BY <1>1 DEF PublisherType, Holding
  <2>2. publisher[h].pc # "idle" /\ publisher[h].pc \in Holding
    BY <1>7 DEF ExportPolicy, Holding
  <2>3. p.actor \in Users /\ p.version \in Versions
    BY <2>1, <2>2
  <2>4. CASE publisher' = [publisher EXCEPT ![h] = p]
    BY <1>2, <1>7, <2>1, <2>3, <2>4 DEF ExportPolicy
  <2>5. CASE GoTo(h, "release")
    BY <1>3, <1>7, <2>2, <2>5 DEF ExportPolicy, Holding
  <2> QED
    BY <1>7, <2>4, <2>5 DEF ExportPolicy
<1>8. CASE SavePublishedDraft(h)
  <2>1. publisher[h].pc \in Holding
    BY <1>8 DEF SavePublishedDraft, Holding
  <2>2. revision[publisher[h].version] \in RevisionType
    BY <2>1 DEF Versions
  <2>3. draft' \in DraftType
    BY <1>1, <1>8, <2>2 DEF SavePublishedDraft, DraftType, RevisionType
  <2>4. GoTo(h, "drafted") \/ GoTo(h, "release")
    BY <1>8 DEF SavePublishedDraft
  <2> QED
    BY <1>3, <1>8, <2>1, <2>3, <2>4 DEF SavePublishedDraft, Holding
<1>9. CASE RemoveCurrentLink(h)
  <2>1. current' \in Int
    BY <1>9 DEF RemoveCurrentLink, NoLink
  <2>2. GoTo(h, "unlinked") \/ GoTo(h, "restoreDraft")
    BY <1>9 DEF RemoveCurrentLink
  <2> QED
    BY <1>3, <1>9, <2>1, <2>2 DEF RemoveCurrentLink, Holding
<1>10. CASE RenameCurrentLink(h)
  <2>1. current' \in Int
    BY <1>1, <1>10 DEF RenameCurrentLink, PublisherType
  <2>2. GoTo(h, "switched") \/ GoTo(h, "restoreLink")
    BY <1>10 DEF RenameCurrentLink
  <2> QED
    BY <1>3, <1>10, <2>1, <2>2 DEF RenameCurrentLink, Holding
<1>11. CASE FinalizePublication(h)
  <2>1. publisher[h].pc \in Holding
    BY <1>11 DEF FinalizePublication, Holding
  <2>2. CASE /\ GoTo(h, "restoreLink")
             /\ UNCHANGED <<publication, revision>>
    BY <1>3, <1>11, <2>1, <2>2 DEF FinalizePublication, Holding
  <2> DEFINE v == publisher[h].version
             u == publisher[h].actor
             p == [version |-> v, doc |-> revision[v].doc, base |-> revision[v].base,
                   by |-> u, role |-> role[u]]
  <2>3. CASE /\ publication' = Append(publication, p)
             /\ revision' = Decide(v)
             /\ GoTo(h, "release")
    <3>1. v \in Versions /\ u \in Users
      BY <2>1 DEF Holding
    <3>2. revision[v] \in RevisionType /\ role[u] \in Roles
      BY <3>1 DEF Versions
    <3>3. p \in PublicationType
      BY <1>1, <3>1, <3>2 DEF PublicationType, PublisherType, RevisionType
    <3>4. publication' \in Seq(PublicationType) /\ publication' # <<>>
      <4>1. publication \in Seq(PublicationType)
        OBVIOUS
      <4> QED
        BY <2>3, <3>3, <4>1, AppendProperties
    <3>5. revision' \in Seq(RevisionType) /\ Versions' = Versions
      BY <2>3, <3>1, DecideRevision
    <3>6. publisher' \in [Publishers -> PublisherType] /\ HandlersRefer'
      <4>1. [publisher[h] EXCEPT !.pc = "release"] \in PublisherType
        BY <1>1 DEF PublisherType, Holding
      <4>2. publisher' = [publisher EXCEPT ![h] = [publisher[h] EXCEPT !.pc = "release"]]
        BY <2>3 DEF GoTo
      <4>3. /\ [publisher[h] EXCEPT !.pc = "release"].actor = u
            /\ [publisher[h] EXCEPT !.pc = "release"].version = v
        BY <1>1 DEF PublisherType
      <4> QED
        BY <3>1, <3>5, <4>1, <4>2, <4>3
    <3> QED
      BY <1>11, <3>4, <3>5, <3>6 DEF FinalizePublication
  <2> QED
    BY <1>11, <2>2, <2>3 DEF FinalizePublication
<1>12. CASE RestoreCurrentPolicyLink(h)
  <2>1. current' \in Int
    BY <1>1, <1>12 DEF RestoreCurrentPolicyLink, PublisherType
  <2> QED
    BY <1>3, <1>12, <2>1 DEF RestoreCurrentPolicyLink, Holding
<1>13. CASE RestoreStoredPolicyDraft(h)
  BY <1>1, <1>3, <1>13 DEF RestoreStoredPolicyDraft, Holding
<1>14. CASE ReleaseLock(h)
  <2>1. lock' \in LockType
    BY <1>14 DEF ReleaseLock, NoLock, LockType
  <2> QED
    BY <1>2, <1>4, <1>14, <2>1 DEF ReleaseLock, IdlePublisher
<1> QED
  BY <1>5, <1>6, <1>7, <1>8, <1>9, <1>10, <1>11, <1>12, <1>13, <1>14 DEF PublishStep

(* Everything else: accounts, reviewers, deployments, the environment.     *)
LEMMA TypedStep == Typed /\ [Next]_vars => Typed'
<1> SUFFICES ASSUME Typed, [Next]_vars
             PROVE  Typed'
  OBVIOUS
<1> USE DEF Typed, TypeOK, HandlersRefer
<1>1. ASSUME NEW a \in Users, NEW u \in Users, NEW r \in Roles, MutateAccount(a, u, r)
      PROVE  Typed'
  BY <1>1 DEF MutateAccount, Versions
<1>2. ASSUME NEW u \in Users, EditorStep(u) \/ StagingStep(u)
      PROVE  Typed'
  BY <1>2, TypedEditorStep
<1>3. ASSUME NEW u \in Users, StartDeployment(u)
      PROVE  Typed'
  <2>1. Latest.version \in Nat
    BY PublicationsTyped
  <2> QED
    BY <1>3, <2>1 DEF StartDeployment, DeploymentLock, LockType, Versions
<1>4. ASSUME NEW u \in Users, NEW v \in Versions, Reject(u, v)
      PROVE  Typed'
  <2>1. revision' \in Seq(RevisionType) /\ Versions' = Versions
    BY <1>4, RejectRevision DEF Reject
  <2> QED
    BY <1>4, <2>1 DEF Reject
<1>5. ASSUME NEW h \in Publishers, NEW u \in Users, AuthorizePublish(h, u)
      PROVE  Typed'
  <2> DEFINE p == [publisher[h] EXCEPT !.pc = "authorized", !.actor = u]
  <2>1. p \in PublisherType /\ p.pc = "authorized" /\ p.actor = u
    BY DEF PublisherType
  <2>2. publisher' = [publisher EXCEPT ![h] = p]
    BY <1>5 DEF AuthorizePublish
  <2> QED
    BY <1>5, <2>1, <2>2 DEF AuthorizePublish, Holding, Versions
<1>6. ASSUME NEW h \in Publishers, NEW v \in Versions, CheckPublish(h, v)
      PROVE  Typed'
  <2> DEFINE p == [publisher[h] EXCEPT !.pc = "checked", !.version = v,
                                       !.accounts = accountsVersion]
  <2>1. v \in Nat
    BY DEF Versions
  <2>2. p \in PublisherType /\ p.actor = publisher[h].actor /\ p.version = v
    BY <2>1 DEF PublisherType
  <2>3. publisher' = [publisher EXCEPT ![h] = p] /\ p.actor \in Users
    BY <1>6, <2>2 DEF CheckPublish
  <2> QED
    BY <1>6, <2>2, <2>3 DEF CheckPublish, Versions
<1>7. ASSUME NEW h \in Publishers, PublishStep(h)
      PROVE  Typed'
  BY <1>7, TypedPublishStep
<1>8. ASSUME NEW ok \in BOOLEAN, FinishDeployment(ok)
      PROVE  Typed'
  <2>1. deployment'.version = deployment.version /\ deployment' \in [pc : {"idle", "running", "logged"}, version : Nat]
    BY <1>8 DEF FinishDeployment
  <2> QED
    BY <1>8, <2>1 DEF FinishDeployment, Versions
<1>9. CASE ReleaseDeployment
  BY <1>9 DEF ReleaseDeployment, NoLock, LockType, Versions
<1>10. CASE Crash
  <2>1. IdlePublisher \in PublisherType /\ IdlePublisher.pc = "idle"
    BY WorkflowAssumption DEF IdlePublisher, PublisherType, NoDraft, DraftType, NoLink
  <2>2. \A u \in Users :
          [client[u] EXCEPT !.pc = "open", !.base = 0, !.accounts = 0] \in ClientType
    BY DEF ClientType
  <2>3. client' \in [Users -> ClientType]
    BY <1>10, <2>2 DEF Crash
  <2>4. publisher' \in [Publishers -> PublisherType] /\ HandlersRefer'
    BY <1>10, <2>1 DEF Crash, Holding
  <2>5. crashes' \in Nat
    <3>1. crashes \in Nat
      OBVIOUS
    <3>2. crashes' = crashes + 1
      BY <1>10 DEF Crash
    <3> HIDE DEF Typed, TypeOK, HandlersRefer
    <3> QED
      BY <3>1, <3>2
  <2>6. deployment' \in [pc : {"idle", "running", "logged"}, version : Nat]
    BY <1>10 DEF Crash
  <2> QED
    BY <1>10, <2>3, <2>4, <2>5, <2>6 DEF Crash
<1>11. CASE ExpireLock
  <2>1. lock' \in LockType
    BY <1>11 DEF ExpireLock, LockType
  <2>2. stalls' \in Nat
    BY <1>11 DEF ExpireLock
  <2> QED
    BY <1>11, <2>1, <2>2 DEF ExpireLock, Versions
<1>12. CASE UNCHANGED vars
  BY <1>12 DEF vars, Versions
<1> QED
  BY <1>1, <1>2, <1>3, <1>4, <1>5, <1>6, <1>7, <1>8, <1>9, <1>10, <1>11, <1>12
     DEF Next, DeploymentStep

LEMMA AlwaysTyped == Spec => []Typed
BY TypedInit, TypedStep, PTL DEF Spec

(* The tables, the link and the handlers' variables keep their types.      *)
THEOREM WorkflowTyped == Spec => []TypeOK
<1>1. Typed => TypeOK
  BY DEF Typed
<1> QED
  BY <1>1, AlwaysTyped, PTL

-----------------------------------------------------------------------------
(* The publishers' side of the interlock.  As long as no live publisher    *)
(* has slept through the expiry of its lock, whoever is past the           *)
(* acquisition finds its own fresh row, and there is only one of them.     *)

PublisherHoldsLock ==
  /\ \A h \in Publishers :
       InCriticalSection(h) => lock = PublicationLock(publisher[h].version)
  /\ \A g, h \in Publishers : InCriticalSection(g) /\ InCriticalSection(h) => g = h

Interlocked == stalls = 0 => PublisherHoldsLock

LEMMA InterlockedInit == Init => Interlocked
BY DEF Init, Interlocked, PublisherHoldsLock, InCriticalSection, IdlePublisher, Holding

(* What a step does to the handlers and to the row, as far as the          *)
(* interlock is concerned.                                                 *)
LEMMA InterlockedStep ==
  Typed /\ DeploymentHoldsLock /\ Interlocked /\ [Next]_vars => Interlocked'
<1> SUFFICES ASSUME Typed, DeploymentHoldsLock, Interlocked, [Next]_vars, stalls' = 0
             PROVE  PublisherHoldsLock'
  BY DEF Interlocked
<1>a. lock \in LockType /\ stalls \in Nat /\ publisher \in [Publishers -> PublisherType]
  BY DEF Typed, TypeOK
<1>b. stalls = 0 => PublisherHoldsLock
  BY DEF Interlocked
<1> USE DEF PublisherHoldsLock, InCriticalSection
(* Most steps leave the row alone and bring nobody in.                     *)
<1>c. ASSUME stalls = 0, UNCHANGED lock,
             \A h \in Publishers : InCriticalSection(h)' =>
               InCriticalSection(h) /\ publisher'[h].version = publisher[h].version
      PROVE  PublisherHoldsLock'
  BY <1>b, <1>c
<1>d. CASE UNCHANGED <<lock, publisher, stalls>>
  BY <1>b, <1>d DEF PublicationLock
<1>1. ASSUME NEW h \in Publishers, PublishStep(h)
      PROVE  PublisherHoldsLock'
  <2>0. stalls = 0 /\ publisher[h] \in PublisherType
    BY <1>1, <1>a DEF PublishStep, RefusePublish, AcquirePublicationLock, ExportPolicy,
       SavePublishedDraft, RemoveCurrentLink, RenameCurrentLink, FinalizePublication,
       RestoreCurrentPolicyLink, RestoreStoredPolicyDraft, ReleaseLock
  <2>1. ASSUME NEW pc, GoTo(h, pc), publisher[h].pc \in Holding, UNCHANGED lock
        PROVE  PublisherHoldsLock'
    BY <1>a, <1>c, <2>0, <2>1 DEF GoTo, PublisherType
  <2>2. CASE RefusePublish(h)
    BY <1>a, <1>c, <2>0, <2>2 DEF RefusePublish, IdlePublisher, Holding
  <2>3. CASE AcquirePublicationLock(h)
    <3>1. \A g \in Publishers : ~InCriticalSection(g)
      BY <1>b, <2>0, <2>3 DEF AcquirePublicationLock, LockFree, PublicationLock
    <3>2. \A g \in Publishers : InCriticalSection(g)' => g = h
      BY <1>a, <2>3, <3>1 DEF AcquirePublicationLock, GoTo
    <3>3. publisher'[h].version = publisher[h].version
      BY <1>a, <2>0, <2>3 DEF AcquirePublicationLock, GoTo, PublisherType
    <3> QED
      BY <2>3, <3>2, <3>3 DEF AcquirePublicationLock, PublicationLock
  <2>4. CASE ExportPolicy(h)
    <3>1. CASE GoTo(h, "release")
      BY <2>1, <2>4, <3>1 DEF ExportPolicy, Holding
    <3>2. CASE publisher' = [publisher EXCEPT ![h].pc = "exported", ![h].link = current,
                                              ![h].draft = draft]
      BY <1>a, <1>c, <2>0, <2>4, <3>2 DEF ExportPolicy, PublisherType, Holding
    <3> QED
      BY <2>4, <3>1, <3>2 DEF ExportPolicy
  <2>5. CASE SavePublishedDraft(h)
    BY <2>1, <2>5 DEF SavePublishedDraft, Holding
  <2>6. CASE RemoveCurrentLink(h)
    BY <2>1, <2>6 DEF RemoveCurrentLink, Holding
  <2>7. CASE RenameCurrentLink(h)
    BY <2>1, <2>7 DEF RenameCurrentLink, Holding
  <2>8. CASE FinalizePublication(h)
    BY <2>1, <2>8 DEF FinalizePublication, Holding
  <2>9. CASE RestoreCurrentPolicyLink(h)
    BY <2>1, <2>9 DEF RestoreCurrentPolicyLink, Holding
  <2>10. CASE RestoreStoredPolicyDraft(h)
    BY <2>1, <2>10 DEF RestoreStoredPolicyDraft, Holding
  <2>11. CASE ReleaseLock(h)
    <3>1. \A g \in Publishers : InCriticalSection(g) => g = h
      BY <1>b, <2>0, <2>11 DEF ReleaseLock, Holding
    <3> QED
      BY <1>a, <2>11, <3>1 DEF ReleaseLock, IdlePublisher, Holding
  <2> QED
    BY <1>1, <2>2, <2>3, <2>4, <2>5, <2>6, <2>7, <2>8, <2>9, <2>10, <2>11 DEF PublishStep
<1>2. ASSUME NEW h \in Publishers, NEW u \in Users, AuthorizePublish(h, u)
      PROVE  PublisherHoldsLock'
  BY <1>a, <1>c, <1>2 DEF AuthorizePublish, PublisherType, Holding
<1>3. ASSUME NEW h \in Publishers, NEW v \in Versions, CheckPublish(h, v)
      PROVE  PublisherHoldsLock'
  BY <1>a, <1>c, <1>3 DEF CheckPublish, PublisherType, Holding
<1>4. ASSUME NEW u \in Users, StartDeployment(u)
      PROVE  PublisherHoldsLock'
  BY <1>a, <1>b, <1>4 DEF StartDeployment, LockFree, PublicationLock
<1>5. CASE ReleaseDeployment
  <2>1. lock.kind = "deployment"
    BY <1>5 DEF ReleaseDeployment, DeploymentHoldsLock
  <2> QED
    BY <1>b, <1>5, <2>1 DEF ReleaseDeployment, PublicationLock
<1>6. CASE Crash
  BY <1>6 DEF Crash, IdlePublisher, Holding
<1>7. CASE ExpireLock
  <2>1. stalls = 0 /\ ~HolderLive
    BY <1>a, <1>7 DEF ExpireLock
  <2>2. \A h \in Publishers : ~InCriticalSection(h)
    BY <1>b, <2>1 DEF HolderLive, PublicationLock
  <2> QED
    BY <1>7, <2>2 DEF ExpireLock
<1>8. ASSUME NEW u \in Users, EditorStep(u) \/ StagingStep(u)
      PROVE  UNCHANGED <<lock, publisher, stalls>>
  BY <1>8 DEF EditorStep, StagingStep, LoadDraft, SaveDraft, Stage, Rollback,
              StageRequest, ReadStagingBase, StoreRevision
<1>9. ASSUME NEW a \in Users, NEW u \in Users, NEW r \in Roles, MutateAccount(a, u, r)
      PROVE  UNCHANGED <<lock, publisher, stalls>>
  BY <1>9 DEF MutateAccount
<1>10. ASSUME NEW u \in Users, NEW v \in Versions, Reject(u, v)
       PROVE  UNCHANGED <<lock, publisher, stalls>>
  BY <1>10 DEF Reject
<1>11. ASSUME NEW ok \in BOOLEAN, FinishDeployment(ok)
       PROVE  UNCHANGED <<lock, publisher, stalls>>
  BY <1>11 DEF FinishDeployment
<1>12. CASE UNCHANGED vars
  BY <1>d, <1>12 DEF vars
<1> QED
  BY <1>d, <1>1, <1>2, <1>3, <1>4, <1>5, <1>6, <1>7, <1>8, <1>9, <1>10, <1>11, <1>12
     DEF Next, DeploymentStep

LEMMA AlwaysInterlocked == Spec => [](Typed /\ DeploymentHoldsLock /\ Interlocked)
BY TypedInit, TypedStep, DeploymentHoldsLockInit, DeploymentHoldsLockStep,
   InterlockedInit, InterlockedStep, PTL DEF Spec

(* Publication and device mutation exclude each other, across crashes and  *)
(* lock expiry, until a live publisher sleeps through its lock's hour      *)
(* (acquirePublicationLock, startDeploymentLog, releaseDeploymentLock).    *)
THEOREM PublicationExclusive == Spec => [](stalls = 0 => MutualExclusion)
<1>1. DeploymentHoldsLock /\ Interlocked => (stalls = 0 => MutualExclusion)
  BY DEF DeploymentHoldsLock, Interlocked, PublisherHoldsLock, MutualExclusion,
         PublicationLock
<1> QED
  BY <1>1, AlwaysInterlocked, PTL
-----------------------------------------------------------------------------
(* The history.  Every step does one of four things to the tables of       *)
(* revisions and publications: nothing, store a pending revision, reject   *)
(* one, or commit a publication.                                           *)

Stored ==
  \E b \in Nat, d \in Docs, c \in Users, q \in Users \cup {NoUser} :
    /\ revision' = Append(revision, NewRevision(b, d, c, q))
    /\ q # NoUser => b = Latest.version
    /\ UNCHANGED publication

Rejected ==
  \E v \in Versions :
    /\ revision[v].status = "pending"
    /\ revision' = [revision EXCEPT ![v].status = "rejected"]
    /\ UNCHANGED publication

PublicationBy(h) ==
  [version |-> publisher[h].version, doc |-> revision[publisher[h].version].doc,
   base |-> revision[publisher[h].version].base,
   by |-> publisher[h].actor, role |-> role[publisher[h].actor]]

CommittedBy(h) ==
  /\ publisher[h].pc = "switched"
  /\ Finalizable(h)
  /\ publication' = Append(publication, PublicationBy(h))
  /\ revision' = Decide(publisher[h].version)

LEMMA HistoryStep ==
  Typed /\ [Next]_vars =>
    \/ UNCHANGED <<revision, publication>>
    \/ Stored
    \/ Rejected
    \/ \E h \in Publishers : CommittedBy(h)
<1> SUFFICES ASSUME Typed, [Next]_vars
             PROVE  \/ UNCHANGED <<revision, publication>>
                    \/ Stored
                    \/ Rejected
                    \/ \E h \in Publishers : CommittedBy(h)
  OBVIOUS
<1>1. ASSUME NEW u \in Users, EditorStep(u) \/ StagingStep(u)
      PROVE  UNCHANGED <<revision, publication>> \/ Stored
  <2>1. CASE \E q \in Users, d \in Docs : StageRequest(u, q, d)
    <3>1. Latest.version \in Nat
      BY PublicationsTyped
    <3> QED
      BY <2>1, <3>1 DEF StageRequest, Stored
  <2>2. CASE StoreRevision(u)
    <3>1. client[u].base \in Nat /\ client[u].seen.doc \in Docs
      BY DEF Typed, TypeOK, ClientType, DraftType
    <3>2. UNCHANGED publication
      BY <2>2 DEF StoreRevision
    <3>3. UNCHANGED revision
          \/ revision' = Append(revision,
                          NewRevision(client[u].base, client[u].seen.doc, u, NoUser))
      BY <2>2 DEF StoreRevision
    <3> QED
      BY <3>1, <3>2, <3>3 DEF Stored
  <2> QED
    BY <1>1, <2>1, <2>2 DEF EditorStep, StagingStep, LoadDraft, SaveDraft, Stage,
       Rollback, ReadStagingBase
<1>2. ASSUME NEW u \in Users, NEW v \in Versions, Reject(u, v)
      PROVE  Rejected
  BY <1>2 DEF Reject, Rejected
<1>3. ASSUME NEW h \in Publishers, PublishStep(h)
      PROVE  UNCHANGED <<revision, publication>> \/ CommittedBy(h)
  <2>1. CASE FinalizePublication(h)
    BY <2>1 DEF FinalizePublication, CommittedBy, PublicationBy
  <2> QED
    BY <1>3, <2>1 DEF PublishStep, RefusePublish, AcquirePublicationLock, ExportPolicy,
       SavePublishedDraft, RemoveCurrentLink, RenameCurrentLink,
       RestoreCurrentPolicyLink, RestoreStoredPolicyDraft, ReleaseLock
<1>4. ASSUME NEW a \in Users, NEW u \in Users, NEW r \in Roles, MutateAccount(a, u, r)
      PROVE  UNCHANGED <<revision, publication>>
  BY <1>4 DEF MutateAccount
<1>5. ASSUME NEW u \in Users, StartDeployment(u)
      PROVE  UNCHANGED <<revision, publication>>
  BY <1>5 DEF StartDeployment
<1>6. ASSUME NEW h \in Publishers, NEW u \in Users, AuthorizePublish(h, u)
      PROVE  UNCHANGED <<revision, publication>>
  BY <1>6 DEF AuthorizePublish
<1>7. ASSUME NEW h \in Publishers, NEW v \in Versions, CheckPublish(h, v)
      PROVE  UNCHANGED <<revision, publication>>
  BY <1>7 DEF CheckPublish
<1>8. ASSUME DeploymentStep \/ Crash \/ ExpireLock \/ UNCHANGED vars
      PROVE  UNCHANGED <<revision, publication>>
  BY <1>8 DEF DeploymentStep, FinishDeployment, ReleaseDeployment, Crash, ExpireLock, vars
<1> QED
  BY <1>1, <1>2, <1>3, <1>4, <1>5, <1>6, <1>7, <1>8 DEF Next

(* What a revision says never changes, and a decided one stays decided.    *)
LEMMA RevisionsKept ==
  ASSUME Typed, [Next]_vars
  PROVE  /\ Versions \subseteq Versions'
         /\ \A v \in Versions :
              /\ revision'[v].base = revision[v].base
              /\ revision'[v].doc = revision[v].doc
              /\ revision'[v].creator = revision[v].creator
              /\ revision'[v].requester = revision[v].requester
              /\ revision[v].status # "pending" => revision'[v].status = revision[v].status
<1>1. \A v \in Versions : revision[v] \in RevisionType
  BY ElementOfSeq DEF Typed, TypeOK, Versions
<1>2. CASE UNCHANGED <<revision, publication>>
  BY <1>2 DEF Versions
<1>3. CASE Stored
  BY <1>3, AppendRevision DEF Stored
<1>4. CASE Rejected
  <2>1. PICK v \in Versions : /\ revision[v].status = "pending"
                              /\ revision' = [revision EXCEPT ![v].status = "rejected"]
    BY <1>4 DEF Rejected
  <2>2. /\ Versions' = Versions
        /\ \A w \in Versions :
             revision'[w] = IF w = v THEN [revision[v] EXCEPT !.status = "rejected"]
                            ELSE revision[w]
    BY <2>1, RejectRevision
  <2> QED
    BY <1>1, <2>1, <2>2 DEF RevisionType
<1>5. ASSUME NEW h \in Publishers, CommittedBy(h)
      PROVE  /\ Versions' = Versions
             /\ \A w \in Versions :
                  /\ revision'[w].base = revision[w].base
                  /\ revision'[w].doc = revision[w].doc
                  /\ revision'[w].creator = revision[w].creator
                  /\ revision'[w].requester = revision[w].requester
                  /\ revision[w].status # "pending" => revision'[w].status = revision[w].status
  <2> DEFINE v == publisher[h].version
  <2>1. v \in Versions /\ revision[v].status = "pending"
    BY <1>5 DEF CommittedBy, Finalizable, Typed, HandlersRefer, Holding
  <2>2. /\ Versions' = Versions
        /\ \A w \in Versions :
             revision'[w] = [revision[w] EXCEPT !.status =
                               IF w = v THEN "published"
                               ELSE IF w \in ObsoleteRequests(v) THEN "rejected" ELSE @]
    BY <1>5, <2>1, DecideRevision DEF CommittedBy
  <2>3. \A w \in ObsoleteRequests(v) : revision[w].status = "pending"
    BY DEF ObsoleteRequests
  <2>4. ASSUME NEW w \in Versions
        PROVE  /\ revision'[w].base = revision[w].base
               /\ revision'[w].doc = revision[w].doc
               /\ revision'[w].creator = revision[w].creator
               /\ revision'[w].requester = revision[w].requester
               /\ revision[w].status # "pending" => revision'[w].status = revision[w].status
    <3> DEFINE s == IF w = v THEN "published"
                    ELSE IF w \in ObsoleteRequests(v) THEN "rejected" ELSE revision[w].status
    <3>1. revision'[w] = [revision[w] EXCEPT !.status = s]
      BY <2>2
    <3>2. revision[w].status # "pending" => s = revision[w].status
      BY <2>1, <2>3
    <3>3. revision[w] \in RevisionType
      BY <1>1
    <3> HIDE DEF s, v
    <3> QED
      BY <3>1, <3>2, <3>3 DEF RevisionType
  <2> QED
    BY <2>2, <2>4
<1> QED
  BY <1>2, <1>3, <1>4, <1>5, HistoryStep

-----------------------------------------------------------------------------
(* Four eyes.  Between the check of an approval and its commit roles may   *)
(* change; the fence compares catalog versions, so that what was checked   *)
(* is still true of any approval that can still commit.                    *)

ApprovalsFenced ==
  \A h \in Publishers : publisher[h].pc \in {"checked"} \cup Holding =>
    /\ publisher[h].accounts <= accountsVersion
    /\ publisher[h].accounts = accountsVersion
         /\ publisher[h].actor \in Authors(publisher[h].version)
           => role[publisher[h].actor] = "developer"

PublishedRevisionsExist ==
  \A i \in 2..Len(publication) : publication[i].version \in Versions

IndependentApprovals == ApprovalsFenced /\ PublishedRevisionsExist /\ FourEyes

(* Whoever is past the check has just passed it or was past it before with *)
(* the same actor, revision and catalog version.                           *)
LEMMA ApprovalKept ==
  ASSUME Typed, [Next]_vars, NEW h \in Publishers,
         publisher'[h].pc \in {"checked"} \cup Holding
  PROVE  \/ \E v \in Versions : CheckPublish(h, v)
         \/ /\ publisher[h].pc \in {"checked"} \cup Holding
            /\ publisher'[h].actor = publisher[h].actor
            /\ publisher'[h].version = publisher[h].version
            /\ publisher'[h].accounts = publisher[h].accounts
<1> DEFINE Kept == /\ publisher[h].pc \in {"checked"} \cup Holding
                   /\ publisher'[h].actor = publisher[h].actor
                   /\ publisher'[h].version = publisher[h].version
                   /\ publisher'[h].accounts = publisher[h].accounts
<1>a. publisher \in [Publishers -> PublisherType] /\ publisher[h] \in PublisherType
  BY DEF Typed, TypeOK
<1>1. CASE UNCHANGED publisher
  BY <1>1
<1>2. ASSUME NEW g \in Publishers, PublishStep(g)
      PROVE  Kept
  <2>1. ASSUME NEW pc, GoTo(g, pc), publisher[g].pc \in {"checked"} \cup Holding
        PROVE  Kept
    BY <1>a, <2>1 DEF GoTo, PublisherType
  <2>2. ASSUME publisher' = [publisher EXCEPT ![g] = IdlePublisher]
        PROVE  Kept
    BY <1>a, <2>2 DEF IdlePublisher, Holding
  <2>3. CASE ExportPolicy(g)
    <3>1. CASE GoTo(g, "release")
      BY <2>1, <2>3, <3>1 DEF ExportPolicy, Holding
    <3>2. CASE publisher' = [publisher EXCEPT ![g].pc = "exported", ![g].link = current,
                                              ![g].draft = draft]
      BY <1>a, <2>3, <3>2 DEF ExportPolicy, PublisherType, Holding
    <3> QED
      BY <2>3, <3>1, <3>2 DEF ExportPolicy
  <2> QED
    BY <1>2, <2>1, <2>2, <2>3 DEF PublishStep, RefusePublish, AcquirePublicationLock,
       SavePublishedDraft, RemoveCurrentLink, RenameCurrentLink, FinalizePublication,
       RestoreCurrentPolicyLink, RestoreStoredPolicyDraft, ReleaseLock, Holding
<1>3. ASSUME NEW g \in Publishers, NEW u \in Users, AuthorizePublish(g, u)
      PROVE  Kept
  BY <1>a, <1>3 DEF AuthorizePublish, PublisherType, Holding
<1>4. ASSUME NEW g \in Publishers, NEW v \in Versions, CheckPublish(g, v)
      PROVE  g = h \/ Kept
  BY <1>a, <1>4 DEF CheckPublish
<1>5. CASE Crash
  BY <1>5 DEF Crash, IdlePublisher, Holding
<1>6. ASSUME NEW u \in Users, EditorStep(u) \/ StagingStep(u) \/ StartDeployment(u)
      PROVE  UNCHANGED publisher
  BY <1>6 DEF EditorStep, StagingStep, LoadDraft, SaveDraft, Stage, Rollback,
              StageRequest, ReadStagingBase, StoreRevision, StartDeployment
<1>7. ASSUME NEW a \in Users, NEW u \in Users, NEW r \in Roles, MutateAccount(a, u, r)
      PROVE  UNCHANGED publisher
  BY <1>7 DEF MutateAccount
<1>8. ASSUME NEW u \in Users, NEW v \in Versions, Reject(u, v)
      PROVE  UNCHANGED publisher
  BY <1>8 DEF Reject
<1>9. ASSUME DeploymentStep \/ ExpireLock \/ UNCHANGED vars
      PROVE  UNCHANGED publisher
  BY <1>9 DEF DeploymentStep, FinishDeployment, ReleaseDeployment, ExpireLock, vars
<1> QED
  BY <1>1, <1>2, <1>3, <1>4, <1>5, <1>6, <1>7, <1>8, <1>9 DEF Next

LEMMA AccountsMove ==
  ASSUME Typed, [Next]_vars
  PROVE  \/ UNCHANGED <<role, accountsVersion>>
         \/ accountsVersion' = accountsVersion + 1 /\ UNCHANGED <<publisher, revision, publication>>
<1>1. ASSUME NEW a \in Users, NEW u \in Users, NEW r \in Roles, MutateAccount(a, u, r)
      PROVE  accountsVersion' = accountsVersion + 1 /\ UNCHANGED <<publisher, revision, publication>>
  BY <1>1 DEF MutateAccount
<1>2. ASSUME NEW u \in Users, EditorStep(u) \/ StagingStep(u) \/ StartDeployment(u)
      PROVE  UNCHANGED <<role, accountsVersion>>
  BY <1>2 DEF EditorStep, StagingStep, LoadDraft, SaveDraft, Stage, Rollback,
              StageRequest, ReadStagingBase, StoreRevision, StartDeployment
<1>3. ASSUME NEW u \in Users, NEW v \in Versions, Reject(u, v)
      PROVE  UNCHANGED <<role, accountsVersion>>
  BY <1>3 DEF Reject
<1>4. ASSUME NEW h \in Publishers, NEW u \in Users, AuthorizePublish(h, u)
      PROVE  UNCHANGED <<role, accountsVersion>>
  BY <1>4 DEF AuthorizePublish
<1>5. ASSUME NEW h \in Publishers, NEW v \in Versions, CheckPublish(h, v)
      PROVE  UNCHANGED <<role, accountsVersion>>
  BY <1>5 DEF CheckPublish
<1>6. ASSUME NEW h \in Publishers, PublishStep(h)
      PROVE  UNCHANGED <<role, accountsVersion>>
  BY <1>6 DEF PublishStep, RefusePublish, AcquirePublicationLock, ExportPolicy,
     SavePublishedDraft, RemoveCurrentLink, RenameCurrentLink, FinalizePublication,
     RestoreCurrentPolicyLink, RestoreStoredPolicyDraft, ReleaseLock
<1>7. ASSUME DeploymentStep \/ Crash \/ ExpireLock \/ UNCHANGED vars
      PROVE  UNCHANGED <<role, accountsVersion>>
  BY <1>7 DEF DeploymentStep, FinishDeployment, ReleaseDeployment, Crash, ExpireLock, vars
<1> QED
  BY <1>1, <1>2, <1>3, <1>4, <1>5, <1>6, <1>7 DEF Next

LEMMA ApprovalsFencedStep ==
  Typed /\ ApprovalsFenced /\ [Next]_vars => ApprovalsFenced'
<1> SUFFICES ASSUME Typed, ApprovalsFenced, [Next]_vars,
                    NEW h \in Publishers, publisher'[h].pc \in {"checked"} \cup Holding
             PROVE  /\ publisher'[h].accounts <= accountsVersion'
                    /\ publisher'[h].accounts = accountsVersion'
                         /\ publisher'[h].actor \in Authors(publisher[h].version)'
                           => role'[publisher'[h].actor] = "developer"
  BY DEF ApprovalsFenced
<1>1. accountsVersion \in Nat /\ publisher[h] \in PublisherType
  BY DEF Typed, TypeOK
<1>2. publisher \in [Publishers -> PublisherType]
  BY DEF Typed, TypeOK
<1>3. \A v \in Versions : publisher'[h].version = v => Authors(publisher[h].version)' = Authors(v)
  BY RevisionsKept DEF Authors
<1>4. ASSUME NEW v \in Versions, CheckPublish(h, v)
      PROVE  /\ publisher'[h].accounts = accountsVersion
             /\ publisher'[h].version = v
             /\ publisher'[h].actor = publisher[h].actor
             /\ UNCHANGED <<role, accountsVersion>>
             /\ publisher[h].actor \in Authors(v) => role[publisher[h].actor] = "developer"
  BY <1>1, <1>2, <1>4 DEF CheckPublish, BypassesFourEyes, PublisherType
<1>5. CASE \E v \in Versions : CheckPublish(h, v)
  BY <1>1, <1>3, <1>4, <1>5
<1>6. CASE /\ publisher[h].pc \in {"checked"} \cup Holding
           /\ publisher'[h].actor = publisher[h].actor
           /\ publisher'[h].version = publisher[h].version
           /\ publisher'[h].accounts = publisher[h].accounts
  <2>1. /\ publisher[h].accounts <= accountsVersion
        /\ publisher[h].accounts = accountsVersion
             /\ publisher[h].actor \in Authors(publisher[h].version)
               => role[publisher[h].actor] = "developer"
    BY <1>6 DEF ApprovalsFenced
  <2>2. publisher[h].version \in Versions /\ publisher[h].accounts \in Nat
    BY <1>1, <1>6 DEF Typed, HandlersRefer, PublisherType
  <2>3. CASE UNCHANGED <<role, accountsVersion>>
    BY <1>3, <1>6, <2>1, <2>2, <2>3
  <2>4. CASE accountsVersion' = accountsVersion + 1
    BY <1>1, <1>6, <2>1, <2>2, <2>4
  <2> QED
    BY <2>3, <2>4, AccountsMove
<1> QED
  BY <1>5, <1>6, ApprovalKept

LEMMA IndependentApprovalsStep ==
  Typed /\ IndependentApprovals /\ [Next]_vars => IndependentApprovals'
<1> SUFFICES ASSUME Typed, IndependentApprovals, [Next]_vars
             PROVE  IndependentApprovals'
  OBVIOUS
<1>1. ApprovalsFenced'
  BY ApprovalsFencedStep DEF IndependentApprovals
<1>2. Versions \subseteq Versions' /\ \A v \in Versions : Authors(v)' = Authors(v)
  BY RevisionsKept DEF Authors
<1>3. PublishedRevisionsExist /\ FourEyes
  BY DEF IndependentApprovals
<1>4. CASE UNCHANGED publication
  BY <1>1, <1>2, <1>3, <1>4 DEF IndependentApprovals, PublishedRevisionsExist, FourEyes
<1>5. ASSUME NEW h \in Publishers, CommittedBy(h)
      PROVE  IndependentApprovals'
  <2> DEFINE v == publisher[h].version
             u == publisher[h].actor
  <2>1. publisher[h].pc \in Holding
    BY <1>5 DEF CommittedBy, Holding
  <2>2. v \in Versions
    BY <2>1 DEF Typed, HandlersRefer
  <2>3. u \in Authors(v) => role[u] = "developer"
    BY <1>5, <2>1 DEF CommittedBy, Finalizable, IndependentApprovals, ApprovalsFenced
  <2>4. /\ PublicationBy(h).version = v
        /\ PublicationBy(h).by = u
        /\ PublicationBy(h).role = role[u]
    BY DEF PublicationBy
  <2>5. publication \in Seq(PublicationType)
    BY DEF Typed, TypeOK
  <2>6. Len(publication) \in Nat /\ Len(publication') = Len(publication) + 1
        /\ \A i \in 1..Len(publication) : publication'[i] = publication[i]
        /\ publication'[Len(publication) + 1] = PublicationBy(h)
    BY <1>5, <2>5 DEF CommittedBy
  <2> HIDE DEF u, v
  <2>7. ASSUME NEW i \in 2..Len(publication')
        PROVE  /\ publication'[i].version \in Versions
               /\ publication'[i].by \in Authors(publication'[i].version)
                    => publication'[i].role = "developer"
    <3>1. CASE i = Len(publication) + 1
      BY <2>2, <2>3, <2>4, <2>6, <3>1
    <3>2. CASE i \in 2..Len(publication)
      BY <1>3, <2>6, <3>2 DEF PublishedRevisionsExist, FourEyes
    <3> QED
      BY <2>6, <3>1, <3>2
  <2>8. PublishedRevisionsExist' /\ FourEyes'
    BY <1>2, <2>7 DEF PublishedRevisionsExist, FourEyes
  <2> QED
    BY <1>1, <2>8 DEF IndependentApprovals
<1> QED
  BY <1>4, <1>5, HistoryStep DEF Stored, Rejected

LEMMA IndependentApprovalsInit == Init => IndependentApprovals
<1> SUFFICES ASSUME Init PROVE IndependentApprovals
  OBVIOUS
<1>1. Len(publication) = 1
  BY DEF Init
<1>2. ApprovalsFenced
  BY DEF Init, ApprovalsFenced, IdlePublisher, Holding
<1> QED
  BY <1>1, <1>2 DEF IndependentApprovals, PublishedRevisionsExist, FourEyes

(* Nobody publishes a revision he created or requested unless he is a      *)
(* developer at the moment of the commit, however roles were changed while *)
(* the approval was under way (adminPublish, fencePolicyAccountsTx).       *)
THEOREM ApprovalsIndependent == Spec => []FourEyes
<1>1. IndependentApprovals => FourEyes
  BY DEF IndependentApprovals
<1> QED
  BY <1>1, IndependentApprovalsInit, TypedInit, TypedStep, IndependentApprovalsStep, PTL DEF Spec

-----------------------------------------------------------------------------
(* Requests and their base, and the exactly-once history.                  *)

LEMMA CommitAppends ==
  ASSUME Typed, NEW h \in Publishers, CommittedBy(h)
  PROVE  /\ publisher[h].version \in Versions
         /\ revision[publisher[h].version].status = "pending"
         /\ publisher[h].version \notin PublishedVersions
         /\ Len(publication) \in Nat \ {0}
         /\ Len(publication') = Len(publication) + 1
         /\ \A i \in 1..Len(publication) : publication'[i] = publication[i]
         /\ publication'[Len(publication) + 1] = PublicationBy(h)
<1>1. publication \in Seq(PublicationType)
  BY DEF Typed, TypeOK
<1>2. publisher[h].version \in Versions
  BY DEF CommittedBy, Typed, HandlersRefer, Holding
<1>3. Len(publication) \in Nat \ {0}
  BY PublicationsTyped
<1> QED
  BY <1>1, <1>2, <1>3 DEF CommittedBy, Finalizable

(* What a commit does to each revision.                                    *)
LEMMA CommitDecides ==
  ASSUME Typed, NEW h \in Publishers, CommittedBy(h), NEW w \in Versions
  PROVE  revision'[w].status =
           IF w = publisher[h].version THEN "published"
           ELSE IF w \in ObsoleteRequests(publisher[h].version) THEN "rejected"
           ELSE revision[w].status
<1> DEFINE v == publisher[h].version
           s == IF w = v THEN "published"
                ELSE IF w \in ObsoleteRequests(v) THEN "rejected" ELSE revision[w].status
<1>1. v \in Versions
  BY CommitAppends
<1>2. revision'[w] = [revision[w] EXCEPT !.status = s]
  BY <1>1, DecideRevision DEF CommittedBy
<1>3. revision[w] \in RevisionType
  BY ElementOfSeq DEF Typed, TypeOK, Versions
<1> HIDE DEF s
<1>4. revision'[w].status = s
  BY <1>2, <1>3 DEF RevisionType
<1> QED
  BY <1>4 DEF s

LEMMA StoredRevision ==
  ASSUME Typed, Stored, NEW w \in Versions'
  PROVE  \/ w \in Versions /\ revision'[w] = revision[w]
         \/ /\ revision'[w].status = "pending"
            /\ revision'[w].requester # NoUser => revision'[w].base = Latest.version
<1>1. PICK b \in Nat, d \in Docs, c \in Users, q \in Users \cup {NoUser} :
        /\ revision' = Append(revision, NewRevision(b, d, c, q))
        /\ q # NoUser => b = Latest.version
  BY DEF Stored
<1>2. /\ Len(revision') = Len(revision) + 1
      /\ \A v \in Versions : revision'[v] = revision[v]
      /\ revision'[Len(revision) + 1] = NewRevision(b, d, c, q)
  BY <1>1, AppendRevision
<1>3. Len(revision) \in Nat
  BY DEF Typed, TypeOK
<1>4. CASE w \in Versions
  BY <1>2, <1>4
<1>5. CASE w = Len(revision) + 1
  BY <1>1, <1>2, <1>5 DEF NewRevision
<1> QED
  BY <1>2, <1>3, <1>4, <1>5 DEF Versions

LEMMA RejectedRevision ==
  ASSUME Typed, Rejected, NEW w \in Versions
  PROVE  /\ Versions' = Versions
         /\ \/ revision'[w].status = revision[w].status
            \/ revision[w].status = "pending" /\ revision'[w].status = "rejected"
<1>1. PICK v \in Versions : /\ revision[v].status = "pending"
                            /\ revision' = [revision EXCEPT ![v].status = "rejected"]
  BY DEF Rejected
<1>2. /\ Versions' = Versions
      /\ revision'[w] = IF w = v THEN [revision[v] EXCEPT !.status = "rejected"]
                        ELSE revision[w]
  BY <1>1, RejectRevision
<1>3. revision[v] \in RevisionType
  BY ElementOfSeq DEF Typed, TypeOK, Versions
<1> QED
  BY <1>1, <1>2, <1>3 DEF RevisionType

RequestsOnBase ==
  PublishedRevisionsExist /\ PendingRequestOnLatestBase /\ RequestPublishedOnItsBase

LEMMA RequestsOnBaseStep ==
  Typed /\ RequestsOnBase /\ [Next]_vars => RequestsOnBase'
<1> SUFFICES ASSUME Typed, RequestsOnBase, [Next]_vars
             PROVE  RequestsOnBase'
  OBVIOUS
<1>1. /\ Versions \subseteq Versions'
      /\ \A w \in Versions : /\ revision'[w].requester = revision[w].requester
                              /\ revision'[w].base = revision[w].base
  BY RevisionsKept
<1>2. Len(publication) \in Nat \ {0}
  BY PublicationsTyped
<1>3. UNCHANGED publication => PublishedRevisionsExist' /\ RequestPublishedOnItsBase'
  BY <1>1 DEF RequestsOnBase, PublishedRevisionsExist, RequestPublishedOnItsBase
<1>4. CASE UNCHANGED <<revision, publication>>
  BY <1>3, <1>4 DEF RequestsOnBase, PendingRequestOnLatestBase, Latest, Versions
<1>5. CASE Stored
  <2>1. UNCHANGED publication /\ UNCHANGED Latest
    BY <1>5 DEF Stored, Latest
  <2>2. PendingRequestOnLatestBase'
    BY <1>5, <2>1, StoredRevision DEF RequestsOnBase, PendingRequestOnLatestBase
  <2> QED
    BY <1>3, <2>1, <2>2 DEF RequestsOnBase
<1>6. CASE Rejected
  <2>1. UNCHANGED publication /\ UNCHANGED Latest
    BY <1>6 DEF Rejected, Latest
  <2>2. \A w \in Versions : revision'[w].status = "pending" => revision[w].status = "pending"
    BY <1>6, RejectedRevision
  <2>3. Versions' = Versions
    BY <1>6, RejectRevision DEF Rejected
  <2>4. PendingRequestOnLatestBase'
    BY <1>1, <2>1, <2>2, <2>3 DEF RequestsOnBase, PendingRequestOnLatestBase
  <2> QED
    BY <1>3, <2>1, <2>4 DEF RequestsOnBase
<1>7. ASSUME NEW h \in Publishers, CommittedBy(h)
      PROVE  RequestsOnBase'
  <2> DEFINE v == publisher[h].version
             n == Len(publication)
  <2>1. /\ v \in Versions /\ revision[v].status = "pending"
        /\ Len(publication') = n + 1
        /\ \A i \in 1..n : publication'[i] = publication[i]
        /\ publication'[n + 1].version = v
        /\ publication'[n + 1].base = revision[v].base
    <3>1. PublicationBy(h).version = v /\ PublicationBy(h).base = revision[v].base
      BY DEF PublicationBy
    <3> QED
      BY <1>7, <3>1, CommitAppends
  <2>2. Versions' = Versions
    BY <1>7, <2>1, DecideRevision DEF CommittedBy
  <2>3. Latest'.version = v
    BY <1>2, <2>1 DEF Latest
  <2>4. PublishedRevisionsExist'
    <3>1. \A i \in 2..n + 1 : publication'[i].version \in Versions
      BY <1>2, <2>1 DEF RequestsOnBase, PublishedRevisionsExist
    <3> QED
      BY <2>1, <2>2, <3>1 DEF PublishedRevisionsExist
  <2>5. \A w \in Versions :
          revision[w].requester # NoUser /\ revision'[w].status = "pending"
            => revision[w].base = v
    BY <1>7, CommitDecides DEF ObsoleteRequests
  <2>6. PendingRequestOnLatestBase'
    BY <1>1, <2>2, <2>3, <2>5 DEF PendingRequestOnLatestBase
  <2>7. revision[v].requester # NoUser => revision[v].base = publication[n].version
    BY <2>1 DEF RequestsOnBase, PendingRequestOnLatestBase, Latest
  <2>8. ASSUME NEW i \in 2..n + 1, revision'[publication'[i].version].requester # NoUser
        PROVE  publication'[i].base = publication'[i - 1].version
    <3>1. CASE i = n + 1
      <4>1. revision[v].requester # NoUser
        BY <1>1, <2>1, <2>8, <3>1
      <4>2. publication'[i - 1] = publication[n]
        BY <1>2, <2>1, <3>1
      <4> QED
        BY <2>1, <2>7, <3>1, <4>1, <4>2
    <3>2. CASE i \in 2..n
      <4>1. publication'[i] = publication[i] /\ publication'[i - 1] = publication[i - 1]
        BY <1>2, <2>1, <3>2
      <4>2. publication[i].version \in Versions
        BY <3>2 DEF RequestsOnBase, PublishedRevisionsExist
      <4> QED
        BY <1>1, <2>8, <3>2, <4>1, <4>2 DEF RequestsOnBase, RequestPublishedOnItsBase
    <3> QED
      BY <1>2, <3>1, <3>2
  <2>9. RequestPublishedOnItsBase'
    BY <2>1, <2>8 DEF RequestPublishedOnItsBase
  <2> QED
    BY <2>4, <2>6, <2>9 DEF RequestsOnBase
<1> QED
  BY <1>4, <1>5, <1>6, <1>7, HistoryStep

LEMMA RequestsOnBaseInit == Init => RequestsOnBase
<1> SUFFICES ASSUME Init PROVE RequestsOnBase
  OBVIOUS
<1>1. Len(publication) = 1 /\ Len(revision) = 0
  BY DEF Init
<1> QED
  BY <1>1 DEF RequestsOnBase, PublishedRevisionsExist, PendingRequestOnLatestBase,
              RequestPublishedOnItsBase, Versions

(* Every commit rejects the requests it makes obsolete, so that a pending  *)
(* request is always based on the latest publication, and a request is     *)
(* published on the base it was reviewed against: this needs neither the   *)
(* lock nor the check before it (conflictObsoletePolicyRequestsTx).        *)
THEOREM RequestsStayOnTheirBase ==
  Spec => [](PendingRequestOnLatestBase /\ RequestPublishedOnItsBase)
<1>1. RequestsOnBase => PendingRequestOnLatestBase /\ RequestPublishedOnItsBase
  BY DEF RequestsOnBase
<1> QED
  BY <1>1, TypedInit, TypedStep, RequestsOnBaseInit, RequestsOnBaseStep, PTL DEF Spec

(* In particular no reviewer ever approves a request that a publication    *)
(* has overtaken.                                                          *)
THEOREM PendingRequestsStayCurrent == Spec => []PendingRequestOnLatestBase
BY RequestsStayOnTheirBase, PTL

LEMMA PublishedExactlyOnceStep ==
  Typed /\ PublishedExactlyOnce /\ [Next]_vars => PublishedExactlyOnce'
<1> SUFFICES ASSUME Typed, PublishedExactlyOnce, [Next]_vars
             PROVE  PublishedExactlyOnce'
  OBVIOUS
<1>1. /\ Versions \subseteq Versions'
      /\ \A w \in Versions :
           /\ revision'[w].doc = revision[w].doc
           /\ revision[w].status # "pending" => revision'[w].status = revision[w].status
  BY RevisionsKept
<1>2. Len(publication) \in Nat \ {0}
  BY PublicationsTyped
<1>3. ASSUME UNCHANGED publication,
             \A w \in Versions' : revision'[w].status = "published"
               => w \in Versions /\ revision[w].status = "published"
      PROVE  PublishedExactlyOnce'
  BY <1>1, <1>3 DEF PublishedExactlyOnce
<1>4. CASE UNCHANGED <<revision, publication>>
  BY <1>3, <1>4 DEF Versions
<1>5. CASE Stored
  <2>1. UNCHANGED publication
    BY <1>5 DEF Stored
  <2> QED
    BY <1>3, <1>5, <2>1, StoredRevision
<1>6. CASE Rejected
  <2>1. UNCHANGED publication
    BY <1>6 DEF Rejected
  <2>2. Versions' = Versions
    BY <1>6, RejectRevision DEF Rejected
  <2> QED
    BY <1>3, <1>6, <2>1, <2>2, RejectedRevision
<1>7. ASSUME NEW h \in Publishers, CommittedBy(h)
      PROVE  PublishedExactlyOnce'
  <2> DEFINE v == publisher[h].version
             n == Len(publication)
  <2>1. PublicationBy(h).version = v /\ PublicationBy(h).doc = revision[v].doc
    BY DEF PublicationBy
  <2>2. /\ v \in Versions /\ revision[v].status = "pending"
        /\ \A i \in 1..n : publication[i].version # v
        /\ Len(publication') = n + 1
        /\ \A i \in 1..n : publication'[i] = publication[i]
        /\ publication'[n + 1].version = v
        /\ publication'[n + 1].doc = revision[v].doc
    BY <1>7, <2>1, CommitAppends DEF PublishedVersions
  <2>3. Versions' = Versions
    BY <1>7, <2>2, DecideRevision DEF CommittedBy
  <2>4. /\ revision'[v].status = "published"
        /\ \A w \in Versions : w # v /\ revision'[w].status = "published"
             => revision[w].status = "published"
    BY <1>7, <2>2, CommitDecides
  <2>5. \A i \in 2..n : /\ publication[i].version \in Versions
                        /\ revision[publication[i].version].status = "published"
                        /\ revision[publication[i].version].doc = publication[i].doc
    BY DEF PublishedExactlyOnce
  <2> HIDE DEF v, n
  <2>6. ASSUME NEW i \in 2..n + 1
        PROVE  /\ publication'[i].version \in Versions
               /\ revision'[publication'[i].version].status = "published"
               /\ revision'[publication'[i].version].doc = publication'[i].doc
    <3>1. CASE i = n + 1
      BY <1>1, <2>2, <2>4, <3>1
    <3>2. CASE i \in 2..n
      BY <1>1, <2>2, <2>5, <3>2
    <3> QED
      BY <1>2, <3>1, <3>2 DEF n
  <2>7. ASSUME NEW w \in Versions, revision'[w].status = "published"
        PROVE  \E i \in 2..n + 1 : publication'[i].version = w
    <3>1. CASE w = v
      <4>1. n + 1 \in 2..n + 1
        BY <1>2 DEF n
      <4> QED
        BY <2>2, <3>1, <4>1
    <3>2. CASE w # v
      <4>1. PICK i \in 2..n : publication[i].version = w
        BY <2>4, <2>7, <3>2 DEF PublishedExactlyOnce, n
      <4>2. i \in 1..n /\ i \in 2..n + 1
        BY <1>2 DEF n
      <4> QED
        BY <2>2, <4>1, <4>2
    <3> QED
      BY <3>1, <3>2
  <2>8. ASSUME NEW i \in 1..n + 1, NEW j \in 1..n + 1,
               publication'[i].version = publication'[j].version
        PROVE  i = j
    <3>1. \A k \in 1..n + 1 : k = n + 1 \/ k \in 1..n
      BY <1>2 DEF n
    <3>2. \A k, l \in 1..n : publication[k].version = publication[l].version => k = l
      BY DEF PublishedExactlyOnce, n
    <3> QED
      BY <2>2, <2>8, <3>1, <3>2
  <2> QED
    BY <2>2, <2>3, <2>6, <2>7, <2>8 DEF PublishedExactlyOnce
<1> QED
  BY <1>4, <1>5, <1>6, <1>7, HistoryStep

(* Every publication is one published revision with the reviewed document  *)
(* and none is published twice, with any number of approvals at work on    *)
(* the same revision and whatever became of their locks                    *)
(* (finalizePublicationWithSetupClaim).                                    *)
THEOREM RevisionsPublishedOnce == Spec => []PublishedExactlyOnce
<1>1. Init => PublishedExactlyOnce
  <2> SUFFICES ASSUME Init PROVE PublishedExactlyOnce
    OBVIOUS
  <2>1. Len(publication) = 1 /\ Len(revision) = 0
    BY DEF Init
  <2> QED
    BY <2>1 DEF PublishedExactlyOnce, Versions
<1> QED
  BY <1>1, TypedInit, TypedStep, PublishedExactlyOnceStep, PTL DEF Spec

-----------------------------------------------------------------------------
(* The workflow implements ReviewedHistory.                                *)

ProposalType == [authors : SUBSET Users, status : {"pending", "published", "rejected"}]
DecisionType == [version : Nat, by : Users \cup {NoUser}, role : Roles]

Mapped ==
  /\ Proposals \in Seq(ProposalType)
  /\ Len(Proposals) = Len(revision)
  /\ PublishedHistory \in Seq(DecisionType)
  /\ Len(PublishedHistory) = Len(publication) - 1

LEMMA MappedSequences ==
  Typed => Mapped
<1> SUFFICES ASSUME Typed PROVE Mapped
  OBVIOUS
<1>1. /\ Len(revision) \in Nat
      /\ \A v \in Versions : revision[v] \in RevisionType
  BY ElementOfSeq DEF Typed, TypeOK, Versions
<1>2. \A v \in Versions : Authors(v) \ {NoUser} \in SUBSET Users
  BY <1>1 DEF Authors, RevisionType
<1>3. \A v \in Versions : revision[v].status \in {"pending", "published", "rejected"}
  BY <1>1 DEF RevisionType
<1>4. Proposals \in [1..Len(revision) -> ProposalType]
  BY <1>2, <1>3 DEF Proposals, Versions, ProposalType
<1>5. Len(publication) - 1 \in Nat
  BY PublicationsTyped
<1>6. \A i \in 1..(Len(publication) - 1) : publication[i + 1] \in PublicationType
  BY <1>5, PublicationsTyped
<1>7. PublishedHistory \in [1..(Len(publication) - 1) -> DecisionType]
  BY <1>6 DEF PublishedHistory, PublicationType, DecisionType
<1> QED
  BY <1>1, <1>4, <1>5, <1>7, SeqDef, LenProperties DEF Mapped

LEMMA ReviewedInit == Init => Reviewed!Init
<1> SUFFICES ASSUME Init PROVE Proposals = <<>> /\ PublishedHistory = <<>>
  BY DEF Reviewed!Init
<1>1. Typed
  BY TypedInit
<1>2. Len(Proposals) = 0 /\ Len(PublishedHistory) = 0
  BY <1>1, MappedSequences DEF Init, Mapped
<1> QED
  BY <1>1, <1>2, MappedSequences, EmptySeq DEF Mapped

LEMMA ReviewedStored ==
  ASSUME Typed, Typed', Stored
  PROVE  \E authors \in SUBSET Users : Reviewed!Propose(authors)
<1>1. PICK b \in Nat, d \in Docs, c \in Users, q \in Users \cup {NoUser} :
        revision' = Append(revision, NewRevision(b, d, c, q))
  BY DEF Stored
<1>2. /\ Len(revision') = Len(revision) + 1
      /\ \A v \in Versions : revision'[v] = revision[v]
      /\ revision'[Len(revision) + 1] = NewRevision(b, d, c, q)
  BY <1>1, AppendRevision
<1> DEFINE p == [authors |-> {c, q} \ {NoUser}, status |-> "pending"]
           n == Len(revision)
<1>3. p \in ProposalType
  BY DEF ProposalType
<1>a. Mapped /\ Mapped'
  BY MappedSequences, PTL
<1>4. /\ Proposals \in Seq(ProposalType) /\ Len(Proposals) = n
      /\ Proposals' \in Seq(ProposalType) /\ Len(Proposals') = n + 1
  BY <1>2, <1>a DEF Mapped
<1>5. n \in Nat
  BY DEF Typed, TypeOK
<1>b. Proposals' = [v \in 1..n + 1 |-> [authors |-> {revision'[v].creator, revision'[v].requester} \ {NoUser},
                                       status |-> revision'[v].status]]
  BY <1>2 DEF Proposals, Versions, Authors
<1>6. ASSUME NEW v \in 1..n
      PROVE  Proposals'[v] = Proposals[v]
  <2>1. Proposals'[v] = [authors |-> {revision'[v].creator, revision'[v].requester} \ {NoUser},
                         status |-> revision'[v].status]
    BY <1>5, <1>b
  <2>2. Proposals[v] = [authors |-> {revision[v].creator, revision[v].requester} \ {NoUser},
                        status |-> revision[v].status]
    BY DEF Proposals, Versions, Authors
  <2>3. revision'[v] = revision[v]
    BY <1>2 DEF Versions
  <2> QED
    BY <2>1, <2>2, <2>3
<1>7. Proposals'[n + 1] = p
  <2>1. Proposals'[n + 1] = [authors |-> {revision'[n + 1].creator, revision'[n + 1].requester} \ {NoUser},
                             status |-> revision'[n + 1].status]
    BY <1>5, <1>b
  <2>2. /\ revision'[n + 1].creator = c
        /\ revision'[n + 1].requester = q
        /\ revision'[n + 1].status = "pending"
    BY <1>2 DEF NewRevision
  <2> QED
    BY <2>1, <2>2
<1> HIDE DEF p, n
<1>8. /\ Append(Proposals, p) \in Seq(ProposalType)
      /\ Len(Append(Proposals, p)) = n + 1
      /\ \A v \in 1..n : Append(Proposals, p)[v] = Proposals[v]
      /\ Append(Proposals, p)[n + 1] = p
  BY <1>3, <1>4, AppendProperties
<1>9. \A v \in 1..(n + 1) : Proposals'[v] = Append(Proposals, p)[v]
  BY <1>5, <1>6, <1>7, <1>8
<1>10. Proposals' = Append(Proposals, p)
  BY <1>4, <1>8, <1>9, SeqEqual
<1>11. UNCHANGED PublishedHistory
  BY DEF Stored, PublishedHistory
<1>12. {c, q} \ {NoUser} \in SUBSET Users
  OBVIOUS
<1> QED
  BY <1>10, <1>11, <1>12 DEF Reviewed!Propose, p

LEMMA ReviewedRejected ==
  ASSUME Typed, Typed', Rejected
  PROVE  \E v \in DOMAIN Proposals : Reviewed!Reject(v)
<1>1. PICK v \in Versions : /\ revision[v].status = "pending"
                            /\ revision' = [revision EXCEPT ![v].status = "rejected"]
  BY DEF Rejected
<1>2. /\ Versions' = Versions
      /\ \A w \in Versions :
           revision'[w] = IF w = v THEN [revision[v] EXCEPT !.status = "rejected"]
                          ELSE revision[w]
  BY <1>1, RejectRevision
<1>3. revision[v] \in RevisionType
  BY ElementOfSeq DEF Typed, TypeOK, Versions
<1>4. \A w \in Versions :
        /\ Authors(w)' = Authors(w)
        /\ revision'[w].status = IF w = v THEN "rejected" ELSE revision[w].status
  BY <1>2, <1>3 DEF Authors, RevisionType
<1>5. Proposals' = [Proposals EXCEPT ![v].status = "rejected"]
  <2>1. Proposals' = [w \in Versions |->
                        [authors |-> Authors(w) \ {NoUser},
                         status |-> IF w = v THEN "rejected" ELSE revision[w].status]]
    BY <1>2, <1>4 DEF Proposals
  <2> QED
    BY <2>1 DEF Proposals
<1>6. v \in DOMAIN Proposals /\ Proposals[v].status = "pending"
  BY <1>1 DEF Proposals
<1>7. UNCHANGED PublishedHistory
  BY DEF Rejected, PublishedHistory
<1> QED
  BY <1>5, <1>6, <1>7 DEF Reviewed!Reject

LEMMA ReviewedCommitted ==
  ASSUME Typed, Typed', IndependentApprovals, [Next]_vars, NEW h \in Publishers, CommittedBy(h)
  PROVE  \E v \in Reviewed!Pending, u \in Users, r \in Roles : Reviewed!Publish(v, u, r)
<1> DEFINE v == publisher[h].version
           u == publisher[h].actor
           n == Len(publication)
           obsolete == ObsoleteRequests(v)
           rec == [version |-> v, by |-> u, role |-> role[u]]
<1>1. /\ v \in Versions /\ revision[v].status = "pending"
      /\ n \in Nat \ {0}
      /\ Len(publication') = n + 1
      /\ \A i \in 1..n : publication'[i] = publication[i]
      /\ publication'[n + 1] = PublicationBy(h)
  BY CommitAppends
<1>2. publisher[h].pc \in Holding
  BY DEF CommittedBy, Holding
<1>3. u \in Users /\ role[u] \in Roles
  BY <1>2 DEF Typed, TypeOK, HandlersRefer, Holding
<1>4. u \in Authors(v) => role[u] = "developer"
  BY <1>2 DEF CommittedBy, Finalizable, IndependentApprovals, ApprovalsFenced
<1>5. /\ obsolete \subseteq Versions /\ v \notin obsolete
      /\ \A w \in obsolete : revision[w].status = "pending"
  BY DEF ObsoleteRequests
<1>6. DOMAIN Proposals = Versions
  BY DEF Proposals
<1>7. Versions' = Versions
  BY <1>1, DecideRevision DEF CommittedBy
<1>8. \A w \in Versions :
        revision'[w].status = IF w = v THEN "published"
                              ELSE IF w \in obsolete THEN "rejected" ELSE revision[w].status
  BY CommitDecides
<1>9. \A w \in Versions : /\ revision'[w].creator = revision[w].creator
                          /\ revision'[w].requester = revision[w].requester
  BY RevisionsKept
<1> HIDE DEF v, u, n, obsolete, rec
<1>10. Proposals' = [w \in DOMAIN Proposals |->
                      [Proposals[w] EXCEPT !.status =
                         IF w = v THEN "published"
                         ELSE IF w \in obsolete THEN "rejected" ELSE @]]
  <2>1. Proposals' = [w \in Versions |->
                        [authors |-> {revision'[w].creator, revision'[w].requester} \ {NoUser},
                         status |-> revision'[w].status]]
    BY <1>7 DEF Proposals, Authors
  <2>2. Proposals' = [w \in Versions |->
                        [authors |-> {revision[w].creator, revision[w].requester} \ {NoUser},
                         status |-> IF w = v THEN "published"
                                    ELSE IF w \in obsolete THEN "rejected"
                                    ELSE revision[w].status]]
    BY <1>8, <1>9, <2>1
  <2>3. \A w \in Versions :
          Proposals[w] = [authors |-> {revision[w].creator, revision[w].requester} \ {NoUser},
                          status |-> revision[w].status]
    BY DEF Proposals, Authors
  <2>4. \A w \in Versions :
          [Proposals[w] EXCEPT !.status = IF w = v THEN "published"
                                          ELSE IF w \in obsolete THEN "rejected" ELSE @]
          = [authors |-> {revision[w].creator, revision[w].requester} \ {NoUser},
             status |-> IF w = v THEN "published"
                        ELSE IF w \in obsolete THEN "rejected" ELSE revision[w].status]
    <3>1. ASSUME NEW w \in Versions
          PROVE  /\ Proposals[w].status = revision[w].status
                 /\ \A s : [Proposals[w] EXCEPT !.status = s]
                         = [authors |-> {revision[w].creator, revision[w].requester} \ {NoUser},
                            status |-> s]
      <4> DEFINE a == {revision[w].creator, revision[w].requester} \ {NoUser}
      <4>1. Proposals[w] = [authors |-> a, status |-> revision[w].status]
        BY <2>3
      <4> HIDE DEF a
      <4>2. /\ Proposals[w].status = revision[w].status
            /\ \A s : [Proposals[w] EXCEPT !.status = s] = [authors |-> a, status |-> s]
        BY <4>1
      <4> QED
        BY <4>2 DEF a
    <3> QED
      BY <3>1
  <2> QED
    BY <1>6, <2>2, <2>4
<1>11. PublishedHistory' = Append(PublishedHistory, rec)
  <2>a. Mapped /\ Mapped'
    BY MappedSequences, PTL
  <2>1. /\ PublishedHistory \in Seq(DecisionType) /\ Len(PublishedHistory) = n - 1
        /\ PublishedHistory' \in Seq(DecisionType) /\ Len(PublishedHistory') = n
    BY <1>1, <2>a DEF Mapped, n
  <2>2. rec \in DecisionType
    <3>1. v \in Nat
      BY <1>1 DEF Versions
    <3> QED
      BY <1>3, <3>1 DEF rec, DecisionType
  <2>3. /\ Append(PublishedHistory, rec) \in Seq(DecisionType)
        /\ Len(Append(PublishedHistory, rec)) = n
        /\ \A i \in 1..(n - 1) : Append(PublishedHistory, rec)[i] = PublishedHistory[i]
        /\ Append(PublishedHistory, rec)[n] = rec
    BY <1>1, <2>1, <2>2, AppendProperties
  <2>4. \A i \in 1..n :
          PublishedHistory'[i] = [version |-> publication'[i + 1].version,
                                  by |-> publication'[i + 1].by,
                                  role |-> publication'[i + 1].role]
    BY <1>1 DEF PublishedHistory
  <2>5. \A i \in 1..(n - 1) :
          PublishedHistory[i] = [version |-> publication[i + 1].version,
                                 by |-> publication[i + 1].by,
                                 role |-> publication[i + 1].role]
    BY DEF PublishedHistory, n
  <2>6. PublishedHistory'[n] = rec
    <3>1. /\ PublicationBy(h).version = v
          /\ PublicationBy(h).by = u
          /\ PublicationBy(h).role = role[u]
      BY DEF PublicationBy, v, u
    <3> QED
      BY <1>1, <2>4, <3>1 DEF rec
  <2>7. \A i \in 1..(n - 1) : PublishedHistory'[i] = PublishedHistory[i]
    <3>1. \A i \in 1..(n - 1) : i \in 1..n /\ publication'[i + 1] = publication[i + 1]
      BY <1>1
    <3> QED
      BY <2>4, <2>5, <3>1
  <2>8. \A i \in 1..n : PublishedHistory'[i] = Append(PublishedHistory, rec)[i]
    <3>1. \A i \in 1..n : i = n \/ i \in 1..(n - 1)
      BY <1>1
    <3> QED
      BY <2>3, <2>6, <2>7, <3>1
  <2> QED
    BY <2>1, <2>3, <2>8, SeqEqual
<1>12. v \in Reviewed!Pending /\ obsolete \subseteq Reviewed!Pending \ {v}
  BY <1>1, <1>5 DEF Proposals, Reviewed!Pending
<1>13. Reviewed!Publish(v, u, role[u])
  <2>1. Proposals[v].authors = Authors(v) \ {NoUser}
    BY <1>1 DEF Proposals
  <2>2. Reviewed!Independent(u, role[u], Proposals[v].authors)
    BY <1>4, <2>1 DEF Reviewed!Independent
  <2> QED
    BY <1>10, <1>11, <1>12, <2>2 DEF Reviewed!Publish, rec
<1> QED
  BY <1>3, <1>12, <1>13

(* The workflow, with its locks, files, drafts, failures, crashes and      *)
(* stalls, is a reviewed history: only pending revisions are published,    *)
(* by independent approvers, each decided once, and history only grows.    *)
THEOREM WorkflowIsReviewedHistory == Spec => ImplementsReviewedHistory
<1>1. Init => IndependentApprovals
  BY IndependentApprovalsInit
<1>2. Typed /\ Typed' /\ IndependentApprovals /\ [Next]_vars => [Reviewed!Next]_(Reviewed!rhVars)
  <2> SUFFICES ASSUME Typed, Typed', IndependentApprovals, [Next]_vars
               PROVE  Reviewed!Next \/ UNCHANGED <<Proposals, PublishedHistory>>
    BY DEF Reviewed!rhVars
  <2>1. CASE UNCHANGED <<revision, publication>>
    BY <2>1 DEF Proposals, PublishedHistory, Versions, Authors
  <2>2. CASE Stored
    BY <2>2, ReviewedStored DEF Reviewed!Next
  <2>3. CASE Rejected
    BY <2>3, ReviewedRejected DEF Reviewed!Next
  <2>4. CASE \E h \in Publishers : CommittedBy(h)
    BY <2>4, ReviewedCommitted DEF Reviewed!Next
  <2> QED
    BY <2>1, <2>2, <2>3, <2>4, HistoryStep
<1> QED
  BY <1>1, <1>2, TypedInit, TypedStep, IndependentApprovalsStep, ReviewedInit, PTL
     DEF Spec, ImplementsReviewedHistory, Reviewed!Spec

-----------------------------------------------------------------------------
(* The link readers follow.  Until a publisher sleeps through its lock's   *)
(* hour there is one hand on the link; before the first crash the snapshot *)
(* it would put back is the latest publication.                            *)

Switching == {"unlinked", "switched", "restoreLink"}
HasSnapshot == {"exported", "drafted"} \cup Switching

LinkFollows ==
  /\ \A h \in Publishers : publisher[h].pc = "switched" => current = publisher[h].version
  /\ crashes = 0 => \A h \in Publishers :
       publisher[h].pc \in HasSnapshot => publisher[h].link = Latest.version
  /\ LinkIsLatestPublication

LinkKept == stalls = 0 => LinkFollows

LEMMA LinkPublishStep ==
  ASSUME Typed, PublisherHoldsLock, LinkFollows, NEW g \in Publishers, PublishStep(g)
  PROVE  LinkFollows'
<1> USE DEF LinkFollows, LinkIsLatestPublication
<1>1. publisher \in [Publishers -> PublisherType] /\ publisher[g] \in PublisherType
  BY DEF Typed, TypeOK
<1>2. publisher[g].pc \in Holding => \A h \in Publishers : h # g => publisher[h].pc \notin Holding
  BY DEF PublisherHoldsLock, InCriticalSection
<1>3. HasSnapshot \subseteq Holding /\ Switching \subseteq HasSnapshot
  BY DEF HasSnapshot, Switching, Holding
<1>4. UNCHANGED crashes
  BY DEF PublishStep, RefusePublish, AcquirePublicationLock, ExportPolicy,
     SavePublishedDraft, RemoveCurrentLink, RenameCurrentLink, FinalizePublication,
     RestoreCurrentPolicyLink, RestoreStoredPolicyDraft, ReleaseLock
(* A step of g's own while nobody else has a hand on the link.             *)
<1>5. ASSUME publisher[g].pc \in Holding,
             \E p : publisher' = [publisher EXCEPT ![g] = p],
             publisher'[g].pc = "switched" => current' = publisher'[g].version,
             crashes = 0 /\ publisher'[g].pc \in HasSnapshot
               => publisher'[g].link = Latest'.version,
             crashes = 0 /\ publisher'[g].pc \notin Switching => current' = Latest'.version
      PROVE  LinkFollows'
  <2>1. \A h \in Publishers : h # g => publisher'[h] = publisher[h] /\ publisher'[h].pc \notin Holding
    BY <1>1, <1>2, <1>5
  <2> QED
    BY <1>3, <1>4, <1>5, <2>1 DEF Switching
(* What is known of the link while nobody else holds the lock.             *)
<1>6. ASSUME publisher[g].pc \in Holding, publisher[g].pc \notin Switching, crashes = 0
      PROVE  current = Latest.version
  BY <1>2, <1>3, <1>6 DEF Switching
<1>7. ASSUME NEW pc, GoTo(g, pc)
      PROVE  /\ \E p : publisher' = [publisher EXCEPT ![g] = p]
             /\ publisher'[g].pc = pc
             /\ publisher'[g].link = publisher[g].link
             /\ publisher'[g].version = publisher[g].version
  BY <1>1, <1>7 DEF GoTo, PublisherType
<1>8. UNCHANGED publication => Latest' = Latest
  BY DEF Latest
<1>9. CASE RefusePublish(g)
  BY <1>1, <1>4, <1>8, <1>9 DEF RefusePublish, IdlePublisher, HasSnapshot, Switching
<1>10. CASE AcquirePublicationLock(g)
  BY <1>1, <1>4, <1>7, <1>8, <1>10 DEF AcquirePublicationLock, GoTo, HasSnapshot, Switching
<1>11. CASE ExportPolicy(g)
  <2>1. CASE GoTo(g, "release")
    BY <1>5, <1>6, <1>7, <1>8, <1>11, <2>1 DEF ExportPolicy, Holding, HasSnapshot, Switching
  <2>2. CASE publisher' = [publisher EXCEPT ![g].pc = "exported", ![g].link = current,
                                            ![g].draft = draft]
    <3>1. /\ \E p : publisher' = [publisher EXCEPT ![g] = p]
          /\ publisher'[g].pc = "exported"
          /\ publisher'[g].link = current
      BY <1>1, <2>2 DEF PublisherType
    <3> QED
      BY <1>5, <1>6, <1>8, <1>11, <3>1 DEF ExportPolicy, Holding, Switching
  <2> QED
    BY <1>11, <2>1, <2>2 DEF ExportPolicy
<1>12. CASE SavePublishedDraft(g)
  BY <1>5, <1>6, <1>7, <1>8, <1>12 DEF SavePublishedDraft, Holding, HasSnapshot, Switching
<1>13. CASE RemoveCurrentLink(g)
  BY <1>5, <1>6, <1>7, <1>8, <1>13 DEF RemoveCurrentLink, Holding, HasSnapshot, Switching
<1>14. CASE RenameCurrentLink(g)
  BY <1>5, <1>7, <1>8, <1>14 DEF RenameCurrentLink, Holding, HasSnapshot, Switching
<1>15. CASE FinalizePublication(g)
  <2>1. CASE GoTo(g, "restoreLink") /\ UNCHANGED publication
    BY <1>5, <1>7, <1>8, <1>15, <2>1 DEF FinalizePublication, Holding, HasSnapshot, Switching
  <2>2. CASE GoTo(g, "release") /\ CommittedBy(g)
    <3>1. Latest'.version = publisher[g].version
      <4>1. PublicationBy(g).version = publisher[g].version
        BY DEF PublicationBy
      <4> QED
        BY <2>2, <4>1, CommitAppends DEF Latest
    <3>2. current = publisher[g].version
      BY <1>15 DEF FinalizePublication
    <3>3. publisher[g].pc \in Holding /\ UNCHANGED current
      BY <1>15 DEF FinalizePublication, Holding
    <3>4. (\E p : publisher' = [publisher EXCEPT ![g] = p]) /\ publisher'[g].pc = "release"
      BY <1>7, <2>2
    <3>5. "release" \notin HasSnapshot /\ "release" # "switched"
      BY DEF HasSnapshot, Switching
    <3> HIDE DEF LinkFollows, LinkIsLatestPublication
    <3> QED
      BY <1>5, <3>1, <3>2, <3>3, <3>4, <3>5
  <2> QED
    BY <1>15, <2>1, <2>2 DEF FinalizePublication, CommittedBy, PublicationBy
<1>16. CASE RestoreCurrentPolicyLink(g)
  BY <1>5, <1>7, <1>8, <1>16 DEF RestoreCurrentPolicyLink, Holding, HasSnapshot, Switching
<1>17. CASE RestoreStoredPolicyDraft(g)
  BY <1>5, <1>6, <1>7, <1>8, <1>17 DEF RestoreStoredPolicyDraft, Holding, HasSnapshot, Switching
<1>18. CASE ReleaseLock(g)
  <2>1. publisher'[g] = IdlePublisher /\ \E p : publisher' = [publisher EXCEPT ![g] = p]
    BY <1>1, <1>18 DEF ReleaseLock
  <2> QED
    BY <1>5, <1>6, <1>8, <1>18, <2>1
       DEF ReleaseLock, IdlePublisher, Holding, HasSnapshot, Switching
<1> QED
  BY <1>9, <1>10, <1>11, <1>12, <1>13, <1>14, <1>15, <1>16, <1>17, <1>18 DEF PublishStep

(* Only the expiry of a live lock counts as a stall.                       *)
LEMMA StallsMove == [Next]_vars => ExpireLock \/ UNCHANGED stalls
<1> SUFFICES ASSUME [Next]_vars, ~ExpireLock PROVE UNCHANGED stalls
  OBVIOUS
<1>1. \A a \in Users, u \in Users, r \in Roles : MutateAccount(a, u, r) => UNCHANGED stalls
  BY DEF MutateAccount
<1>2. \A u \in Users : EditorStep(u) \/ StagingStep(u) \/ StartDeployment(u) => UNCHANGED stalls
  BY DEF EditorStep, StagingStep, LoadDraft, SaveDraft, Stage, Rollback,
         StageRequest, ReadStagingBase, StoreRevision, StartDeployment
<1>3. \A u \in Users, v \in Versions : Reject(u, v) => UNCHANGED stalls
  BY DEF Reject
<1>4. \A h \in Publishers, u \in Users : AuthorizePublish(h, u) => UNCHANGED stalls
  BY DEF AuthorizePublish
<1>5. \A h \in Publishers, v \in Versions : CheckPublish(h, v) => UNCHANGED stalls
  BY DEF CheckPublish
<1>6. \A h \in Publishers : PublishStep(h) => UNCHANGED stalls
  BY DEF PublishStep, RefusePublish, AcquirePublicationLock, ExportPolicy,
     SavePublishedDraft, RemoveCurrentLink, RenameCurrentLink, FinalizePublication,
     RestoreCurrentPolicyLink, RestoreStoredPolicyDraft, ReleaseLock
<1>7. DeploymentStep \/ Crash \/ UNCHANGED vars => UNCHANGED stalls
  BY DEF DeploymentStep, FinishDeployment, ReleaseDeployment, Crash, vars
<1> QED
  BY <1>1, <1>2, <1>3, <1>4, <1>5, <1>6, <1>7 DEF Next

LEMMA LinkKeptStep ==
  Typed /\ Interlocked /\ LinkKept /\ [Next]_vars => LinkKept'
<1> SUFFICES ASSUME Typed, Interlocked, LinkKept, [Next]_vars, stalls' = 0
             PROVE  LinkFollows'
  BY DEF LinkKept
<1>1. stalls \in Nat /\ publisher \in [Publishers -> PublisherType] /\ crashes \in Nat
  BY DEF Typed, TypeOK
<1>2. stalls = 0
  <2>1. CASE ExpireLock
    BY <1>1, <2>1 DEF ExpireLock
  <2>2. CASE UNCHANGED stalls
    BY <2>2
  <2> QED
    BY <2>1, <2>2, StallsMove
<1>3. LinkFollows /\ PublisherHoldsLock
  BY <1>2 DEF LinkKept, Interlocked
<1> USE DEF LinkFollows, LinkIsLatestPublication
<1>4. CASE UNCHANGED <<publisher, publication, current, crashes>>
  BY <1>3, <1>4 DEF Latest
<1>5. ASSUME NEW h \in Publishers, PublishStep(h)
      PROVE  LinkFollows'
  BY <1>3, <1>5, LinkPublishStep
<1>6. ASSUME NEW h \in Publishers, NEW u \in Users, AuthorizePublish(h, u)
      PROVE  LinkFollows'
  <2>1. /\ \A g \in Publishers : g # h => publisher'[g] = publisher[g]
        /\ publisher'[h].pc = "authorized" /\ publisher[h].pc = "idle"
        /\ UNCHANGED <<publication, current, crashes>>
    BY <1>1, <1>6 DEF AuthorizePublish, PublisherType
  <2> QED
    BY <1>3, <2>1 DEF HasSnapshot, Switching, Latest
<1>7. ASSUME NEW h \in Publishers, NEW v \in Versions, CheckPublish(h, v)
      PROVE  LinkFollows'
  <2>1. /\ \A g \in Publishers : g # h => publisher'[g] = publisher[g]
        /\ publisher'[h].pc = "checked" /\ publisher[h].pc = "authorized"
        /\ UNCHANGED <<publication, current, crashes>>
    BY <1>1, <1>7 DEF CheckPublish, PublisherType
  <2> QED
    BY <1>3, <2>1 DEF HasSnapshot, Switching, Latest
<1>8. CASE Crash
  <2>1. crashes' = crashes + 1 /\ \A h \in Publishers : publisher'[h].pc = "idle"
    BY <1>8 DEF Crash, IdlePublisher
  <2>2. crashes' # 0
    BY <1>1, <2>1
  <2> QED
    BY <2>1, <2>2
<1>9. ASSUME NEW u \in Users, EditorStep(u) \/ StagingStep(u) \/ StartDeployment(u)
      PROVE  UNCHANGED <<publisher, publication, current, crashes>>
  BY <1>9 DEF EditorStep, StagingStep, LoadDraft, SaveDraft, Stage, Rollback,
              StageRequest, ReadStagingBase, StoreRevision, StartDeployment
<1>10. ASSUME NEW a \in Users, NEW u \in Users, NEW r \in Roles, MutateAccount(a, u, r)
       PROVE  UNCHANGED <<publisher, publication, current, crashes>>
  BY <1>10 DEF MutateAccount
<1>11. ASSUME NEW u \in Users, NEW v \in Versions, Reject(u, v)
       PROVE  UNCHANGED <<publisher, publication, current, crashes>>
  BY <1>11 DEF Reject
<1>12. ASSUME DeploymentStep \/ ExpireLock \/ UNCHANGED vars
       PROVE  UNCHANGED <<publisher, publication, current, crashes>>
  BY <1>12 DEF DeploymentStep, FinishDeployment, ReleaseDeployment, ExpireLock, vars
<1> QED
  BY <1>4, <1>5, <1>6, <1>7, <1>8, <1>9, <1>10, <1>11, <1>12 DEF Next

LEMMA AlwaysLinked ==
  Spec => [](Typed /\ DeploymentHoldsLock /\ Interlocked /\ LinkKept)
<1>1. Init => LinkKept
  BY DEF Init, LinkKept, LinkFollows, LinkIsLatestPublication, IdlePublisher,
         HasSnapshot, Switching, Latest
<1> QED
  BY <1>1, TypedInit, TypedStep, DeploymentHoldsLockInit, DeploymentHoldsLockStep,
     InterlockedInit, InterlockedStep, LinkKeptStep, PTL DEF Spec

(* A failed publication leaves no trace in what readers of the link see,   *)
(* until the server crashes or a publisher sleeps through its lock's hour  *)
(* (storedCurrentPolicyLink, restoreCurrentPolicyLink).                    *)
THEOREM LinkFollowsPublications == Spec => [](stalls = 0 => LinkIsLatestPublication)
<1>1. LinkKept => (stalls = 0 => LinkIsLatestPublication)
  BY DEF LinkKept, LinkFollows
<1> QED
  BY <1>1, AlwaysLinked, PTL

LEMMA StallsBounded == Spec => [](stalls <= MaxStall)
<1>1. Init => stalls <= MaxStall
  <2>1. MaxStall \in Nat
    BY WorkflowAssumption
  <2> QED
    BY <2>1 DEF Init
<1>2. Typed /\ stalls <= MaxStall /\ [Next]_vars => (stalls <= MaxStall)'
  <2> SUFFICES ASSUME Typed, stalls <= MaxStall, [Next]_vars
               PROVE  stalls' <= MaxStall
    OBVIOUS
  <2>1. stalls \in Nat /\ MaxStall \in Nat
    BY WorkflowAssumption DEF Typed, TypeOK
  <2>2. stalls' = stalls \/ (stalls < MaxStall /\ stalls' = stalls + 1)
    BY StallsMove DEF ExpireLock
  <2> QED
    BY <2>1, <2>2
<1> QED
  BY <1>1, <1>2, AlwaysTyped, PTL DEF Spec

(* However often the server crashes, a publication is committed with the   *)
(* link already on it, when no live publisher ever sleeps through its      *)
(* lock's hour (publishPolicyVersionBySetupClaim).                         *)
THEOREM CommitsFollowLink == MaxStall = 0 => (Spec => CommitFollowsLink)
<1> SUFFICES ASSUME MaxStall = 0 PROVE Spec => CommitFollowsLink
  OBVIOUS
<1>1. Typed /\ LinkKept /\ stalls <= MaxStall /\ [Next]_vars
        => [publication' # publication
              => current = publication'[Len(publication')].version]_vars
  <2> SUFFICES ASSUME Typed, LinkKept, stalls <= MaxStall, [Next]_vars,
                      publication' # publication
               PROVE  current = publication'[Len(publication')].version
    OBVIOUS
  <2>1. stalls = 0
    BY DEF Typed, TypeOK
  <2>2. PICK h \in Publishers : CommittedBy(h)
    BY HistoryStep DEF Stored, Rejected
  <2>3. PublicationBy(h).version = publisher[h].version
    BY DEF PublicationBy
  <2>4. publication'[Len(publication')].version = publisher[h].version
    BY <2>2, <2>3, CommitAppends
  <2> QED
    BY <2>1, <2>2, <2>4 DEF CommittedBy, LinkKept, LinkFollows
<1> QED
  BY <1>1, AlwaysLinked, StallsBounded, PTL DEF Spec, CommitFollowsLink
=============================================================================
