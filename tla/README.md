# Netspoc-Web in TLA+

TLA+ modules, TLC configurations and TLAPS proofs about the two parts of
Netspoc-Web that hold state of their own: the Go backend (`go/pkg/backend`:
policy drafts, reviewed revisions, publications, FortiGate deployments,
requests, accounts) and the browser client (`app/`, `resources/js/theme.js`:
what a page shows while its requests are answered late and in any order).
File names of the backend stand without their directory, those of the client
start with `app/` or `resources/`.

Check a run with `tlc -workers 2 -config approvals.cfg MCPolicyWorkflow.tla`
and the proofs with `tlapm PolicyWorkflowProofs.tla`, likewise the seven other
modules named `...Proofs`.  `PROJECT.json` lists runs, mutants, the lines every
definition stands for, hazards and theorems.

## 1. The system

| Component | State | Operations | Modelled in |
|---|---|---|---|
| Policy workflow (`admin.go`, `admin-workflow.go`, `staging.go`, `policy-store.go`) | SQLite tables `policy_draft`, `policy_revision`, `policy_publication`; the link `current` | save, stage, rollback, reject, publish | `PolicyWorkflow` |
| Interlock (`deployment-runtime.go`) | `policy_deployment_lock`, one row, one hour | acquire, expire, release | `PolicyWorkflow`, `DeploymentGate` |
| Deployment protocol (`deployment-runtime.go`) | `policy_deployment_log`, one row per run and target | start, finish, is the latest publication deployed? | `DeploymentGate`; coarse in `PolicyWorkflow` |
| Deployment executor (`fortigate-deployment.go`) | policies and objects on a FortiGate, a snapshot | snapshot, execute, revalidate, activate, roll back | `FortiDeployment` (policies) |
| Policy requests (`policy-requests.go`) | `policy_request` with an optimistic revision, its events | submit, stage, reject, conflict, linked approval and deployment | `PolicyRequests`; staging and sweep also in `PolicyWorkflow` |
| Accounts (`accounts.go`) | `policy_account`, a catalog version, credential files | create, update, delete, apply LDAP preview | roles, version, fence in `PolicyWorkflow`; plan: `Accounts` |
| Setup (`setup.go`) | claim row with heartbeat, first account | claim, heartbeat, take over, publish | plan: `SetupClaim` |
| Sessions, login, registration (`session-manager.go`, `login.go`, `register.go`, `userdata.go`) | session and user files under file locks | login, rotate, destroy, collect, verify, migrate | plan: `Sessions` |
| LDAP synchronisation (`ldap.go`, `ldap-sync-workflow.go`) | one preview | preview, apply, consume | plan: `Accounts` |
| FortiGate administration (`fortigate-admin.go`) | managed rows, credential files, cleanup markers | create, update, rotate, delete, clean up | plan: `Credentials` |
| Policy scan (`fortigate-policy-scan.go`) | lease, snapshots, assignments | scan, commit, assign | plan: `PolicyScan` |
| Readers (`load-data.go`, `historyandcurrentpolicy.go`, `getrules.go`, ...) | bounded caches | read a policy version | plan |
| Plans and differences (`deployment-plan.go`, `policydiff.go`, ...) | none | pure functions | plan |
| Maintenance notices (`maintenance-admin.go`) | notices with revisions | save, delete, active? | plan |
| Service view (`app/controller/Service.js`, `Main.js`, `app/Appstate.js`) | owner, policy and networks of the page; stores of services, rules and users, each with its requests in flight; mask | choose owner, policy, networks, service, relation, search, boxes; every answer | `ServiceBrowser`, `UserLoads` |
| Rule request dialog (`app/controller/Service.js`) | the dialog, its button, its POST | open, fetch objects, send, cancel, answer | `RuleRequestDialog` |
| Own networks, differences, responsibilities (`app/controller/Network.js`, `Diff.js`, `Account.js`) | selection of networks, tree of differences, mail box | open, choose, confirm, cancel, compare, tick; every answer | `PolicyTabs` |
| Light and dark mode (`resources/js/theme.js`) | `localStorage`, one theme per page | choose, hear of it, follow the system | `ThemeSync` |
| Printing, widgets, framed administration pages, legacy Perl (`bin/`), assets | | | not modelled |

How they interact.  Every handler runs in its own goroutine.  Handlers meet in
SQLite, in the file system (the link `current`, exported versions, user and
session files) and on the devices.  Transactions are plain `db.Begin`; writers
wait for each other (one connection per handle, `busy_timeout`,
`policy-store.go:26-30`), and in WAL mode one that has read before another's commit
can no longer write.  A transaction that commits a change is therefore one step.
A publication and a deployment each span many transactions, and the lock row is
what keeps them apart.  A publication also changes requests (the linked one is
approved, overtaken ones are closed) and is fenced by the account catalog's
version.  Whether a publication may start depends on the deployment protocol of
the one before.

The browser client is single threaded: Ext runs one handler to its end.  What
interleaves are the answers to its requests.  They carry owner, policy and
networks as these were when they were sent, and arrive in any order after the
page went on.  The controllers talk through `appstate`: its `changed` event makes
every store take the new parameters and every open tab load again, and one
handler of it may change `appstate` a second time.  A load masks the page, its
answer unmasks it, and nobody counts.  Pages of one browser share `localStorage`
and hear of writes by events.  A rule request dialog sends to the same server
whose `submitPolicyRequest` is modelled in `PolicyRequests`.

What is hard about it:

* several approval handlers, editors and deployments between whose transactions
  anything may happen (`admin.go:540` checks the base before the lock is held);
* a publication whose third or fourth step fails and has to put back link and
  draft (`admin.go:1468-1483`), or whose process dies there;
* a lock with an expiry: the holder may have died, or may only be slow;
* roles that change while an approval is under way;
* lost device answers, and roll-backs that fail themselves;
* text timestamps used as order, and files changed outside the transactions that
  refer to them;
* answers for a selection the page has left: they must neither be shown under
  another one nor make it wait for ever;
* requests queued behind a request, and dialogs filled from data that may be old
  when they are sent, whose answer may be lost;
* handlers that run inside handlers (a change of owner takes back the networks).

`PROJECT.json` lists each of these hazards at its line.

What makes each component correct:

* *workflow*: every publication is one reviewed revision, approved by someone
  independent, published once; what readers see is the latest publication;
  failures leave no trace; requests are published on the base they were
  reviewed against;
* *interlock*: publications and device changes never overlap, and no failure
  holds the lock for ever;
* *protocol*: the next publication starts only when every target of the last one
  runs it;
* *executor*: a target ends with the new policies, with the old ones or with
  traffic denied, never with a mixture that opens traffic;
* *requests*: an optimistic revision admits one decision; a decided request and
  its policy revision agree;
* *accounts, setup, sessions*: some privileged account always exists; one setup
  wins; a revoked session never returns;
* *service view*: what is shown under a selection belongs to it, a button is only
  enabled for what it acts on, the list is asked for as the page says, the newest
  selection is loaded in the end, and the page is unmasked;
* *dialog*: a change is stored once, for the selection it was made for, and only
  if the server's policy admits it;
* *tabs*: the page says that it is restricted exactly when it is, an open tab is
  loaded for the page's owner, a comparison is with an older version;
* *theme*: every switch tells what it does, and in the end all pages agree.

## 2. Plan

1. Done, backend: `PolicyWorkflow`: the workflow, the interlock, four eyes;
   `PolicyRequests`: requests from submission to deployment; `FortiDeployment`:
   the executor, its guards and its compensation; `DeploymentGate`: protocol rows,
   targets, the gate; each with its proofs.  Three of them are shown to implement
   an abstract specification: `ReviewedHistory`, `ReviewedRequests`,
   `GatedReleases`.
2. Done, client: `UserLoads`, the promise of the users store, and
   `ServiceBrowser`, which keeps it; `RuleRequestDialog`, `PolicyTabs`,
   `ThemeSync`; their proofs.
3. Open: a refinement that replaces the `deployed` set of `PolicyWorkflow` by the
   rows of `DeploymentGate`, and the body of a run there by `FortiDeployment`; the
   executor over several targets.
4. Open: `SetupClaim`, `Sessions`, `Accounts` (with LDAP previews),
   `Credentials`, `PolicyScan`: one small module each, with crashes and takeovers.
5. Open: pure algorithms against reference definitions: runtime chain validation,
   policy difference, active maintenance windows, text order of timestamps.

Every module declares its bounds as constants with a named assumption, has one
action per transaction, file operation or event handler, and keeps invariants as conjunctions
of named parts so that the proof module can reuse them.  None of them declares a
RECURSIVE operator.

## 3. Modules

### `ReviewedHistory`

The promise: proposals that are pending, published or rejected, and a history
that only grows by publishing a pending proposal through someone who did not
write it, or a developer.  A publication may close other pending proposals.

### `ReviewedRequests`

The promise about requests, with no page, handler, account, quota or protocol in
sight: a request is only staged and approved on the publication it was written
for, so that every publication closes all other open requests (`Overtake`), and
none comes while an approved request still has something to deploy
(`NothingWaits`).  A request is deployed while its revision is the current one.

### `GatedReleases`

The promise about devices.  A release leads from the one before, which every
target has been reported to run, or from some older one (`ReleaseOnOlderBase`).
Until a target is reported, rules of the plan come and go on it, forwards or
backwards; what is reported stays as it is until the next release.  `straight` is
the memory that every release has led from the one before: as long as it is true,
a release finds exactly its predecessor on the devices and what both have in
common is left in peace.

### `PolicyWorkflow`

| Variable | In the code |
|---|---|
| `role`, `accountsVersion` | `policy_account`, `policy_account_state.version` |
| `draft` | `policy_draft` (document, version) |
| `revision` | `policy_revision`; a version string is its place in the sequence, 0 is the setup's publication |
| `publication` | `policy_publication` in order of `published_at` |
| `current` | target of the symlink `current` |
| `lock` | the row of `policy_deployment_lock`; `stale`: its hour has passed |
| `deployed`, `deployment` | versions whose protocol is complete and successful; the deployment handler |
| `client[u]` | an editor's browser (the draft version it will send) and staging handler |
| `publisher[h]` | local variables of `adminPublish` and `publishPolicyVersionBySetupClaim` |
| `crashes`, `stalls` | bounds of the environment |

The handlers are cut where another process can see a difference: at every
transaction and every change of the link.  `adminPublish` is

    AuthorizePublish -> CheckPublish -> AcquirePublicationLock -> ExportPolicy
      -> SavePublishedDraft -> RemoveCurrentLink -> RenameCurrentLink
      -> FinalizePublication -> ReleaseLock

with `RefusePublish` before the lock and `RestoreCurrentPolicyLink`,
`RestoreStoredPolicyDraft` after a failure of any step named in `IOFaults`.
`FinalizePublication` contains the whole transaction: fence, lock check,
publication, decision of the revision, sweep of obsolete requests.

Abstractions.  A document is a member of `Docs`; what it does on devices is
`Rendering[d]`, and a plan is empty exactly if that of the document and that of
its base are.
`adminRollback` reads the base before it saves the draft; both are one step,
because a publication in between changes the draft's version and so refuses the
save.  Creation, deletion and activation of accounts are role changes that move
the catalog's version.  Listing endpoints change nothing and are left out, as
are revisions whose validation failed, which have no commands and cannot be
approved.  The restoring steps themselves succeed: a failing restore is only
reported by the code.  The setup's publication is the initial state.

### `MCPolicyWorkflow`

Named accounts (administrator, editor, reviewer, developer), renderings, and the
symmetry of the approval handlers, which the specification never tells apart.
No symmetry is used in the run with liveness properties.

### `PolicyRequests`

The same publications and deployments seen from the requests of users.

| Variable | In the code |
|---|---|
| `request` | `policy_request`: status, requester, base, revision number, `revision_version` (`linked`, 0 for none); `recent`: `created_at` lies within 24 hours |
| `trail` | `policy_request_event`: `from_status`, `to_status` in order |
| `policy`, `latest` | `policy_revision` and the last `policy_publication`; a version is its place in `policy` |
| `protocol`, `run` | whether the protocol of `latest` is complete; a deployment in flight |
| `submitter[k]` | local variables of `submitPolicyRequest` |
| `desk[h]` | an administrator's page (`viewing`) or the staging or rejection it started; `seen` is the record it loaded |

    submission:  AdmitSubmission -> StoreSubmitted
    staging:     ListRequests -> LoadForStaging -> BuildCandidate
                   -> PersistStaged or MarkRequestConflict
    rejection:   ListRequests -> LoadForRejection -> RejectRequest
    elsewhere:   PublishRequest, PublishDirect, RejectRevision, StartRun, FinishRun

Each step is a transaction or the reading before one.  The handlers of the
policy workflow and of deployments appear as their transactions only:
`PolicyWorkflow` shows how those are reached.  `PublishDirect` stands for the
staging and the approval of a revision that has no request.  The payload of a
request, whether it can be applied and whether it passes validation are left
open: `BuildCandidate` may always find it unusable.  A crash ends handlers and
keeps pages; the interlock of a deployment that died has expired when the next
one starts.

`Reviewed` is `ReviewedRequests` with `phase` for the status, `revision` for
`revision_version`, `work` for whether that revision has commands
(`HasCommands`), and `drawn` for the length of `policy`; what handlers hold,
protocols and runs are not seen there.

### `MCPolicyRequests`

Accounts with roles, and the symmetry of request identifiers, submissions and
pages, which the specification never tells apart.

### `FortiDeployment`

An approved plan, executed on one FortiGate, again and again until the bound.

| Variable | In the code |
|---|---|
| `base`, `desired` | policies of the approved base and of the plan, `NoPolicy` where one of them has none |
| `installed`, `enabled` | the device's policies and which of them have status `enable` |
| `before` | `deploymentSnapshot.Data`, taken before the first command |
| `pc`, `outcome` | where `executeDeployment` is; status and `rollback_succeeded` of the last protocol |
| `done`, `tried` | commands finished; `mutationOrder` |
| `undo`, `undoError` | steps `rollbackDeployment` has still to make; whether `RollbackErrors` is empty |

A place is a policy identity at its position in the merged order of base and
plan: `finalizePolicyUpsertOrder` keeps the order, a new policy is moved in
front of its successor while disabled, a restored one is moved back before it is
enabled.  A command is a phase and a place, a compensation a group and a place:

    Prepare -> FinalizeDeny -> DropAccept -> FinalizeAccept -> DropDeny
    Recreate -> RestoreDeny -> EnableDeny -> RemoveAccept -> RestoreAccept
      -> EnableAccept -> RemoveDeny

Within a phase prepared policies go bottom-up and finalized ones top-down
(`Precedes`); within a group compensations go back in the order of the last
touch (`UndoPrecedes`).  `CommandFails` is a call that fails with or without its
effect, or a look-up after it that fails; `RunFails` is every failure between
calls: a precondition, a change by somebody else, the final verification, the
deadline.  `BindOutcomes` reads what the attempts have done, `OutcomesUnknown`
gives up before the first compensation.  `UndoFails` is a compensation that
fails, any of them, with or without its effect: the code notes the error and goes
on.  `unguarded` is a history variable: has a compensation failed, in any run,
that later ones rely on, that is, one of the groups before `EnableAccept`?  A crash
leaves the device as it is; the next run meets it in `Snapshotable`.

What a policy does is `Action` and `Match`; `Passing` is the first-match
semantics of the table, with `Below` for what follows the managed block.
`ApprovedUpdate` is what `unsafeInPlaceDenyMatchChange` permits: a DENY that
stays a DENY keeps its match, everything else may change in place.
Address and service objects, changes by other administrators and several
targets are left out: objects are content-addressed and match nothing, a foreign
change makes the run fail, and every phase runs on one target at a time without
looking at the others.

The executor promises that no packet passes which base and plan both stop
(`NoTransientOpening`), and does not keep it.  `OpeningsHaveACause` says exactly
what is left of it: there are two causes for an opening and no other.  One is in the
plan (`Narrowed`): an ACCEPT takes the place of a DENY and matches less.  The
other is in the run (`unguarded`): a compensation fails and the next ones are made
all the same.

### `MCFortiDeployment`

The contents that matter: `a1`, `b1` accept and `d1`, `e1` deny all packets looked
at, `ap` accepts one of them, so that a DENY can be narrowed.

### `DeploymentGate`

Publications and devices, with the protocol between them.

| Variable | In the code |
|---|---|
| `publication` | `policy_publication` in order, each with the base its plan was made against; the first is the setup's |
| `log` | `policy_deployment_log`, one entry per deployment request in the order of `started_at`; `none`: the row was never inserted |
| `lock` | the row of `policy_deployment_lock`; `stale`: its hour has passed |
| `device[t]` | the managed rules on target `t`, a rule being a policy with its contents |
| `publisher[p]`, `deployer[h]` | local variables of `publishPolicyVersionBySetupClaim` and `adminDeploy`; `before` is what the run found |

    publication: CheckBase -> AcquirePublicationLock or RefusePublication
                   -> FinalizePublication or AbandonPublication -> ReleasePublication
    deployment:  SelectTargets -> StartDeploymentLog or RefuseDeployment
                   -> ExecuteCommand* -> FailRun -> Compensate*
                   -> FinishDeploymentLog -> ReleaseDeploymentLock

`started_at` is drawn in `adminDeploy` before the lock is asked for, so
`SelectTargets` already takes the place in `log`, and two deployments may reach
the lock in the other order.  `finishDeploymentLog` and `releaseDeploymentLock`
may fail: the row stays `running`, the lock stays until its hour has passed.
`RefuseDeployment` is any refusal between start time and row: a newer
publication, the lock, an error.  A run executes its commands in any order
and stops anywhere; its compensations may stop anywhere too.  The order that
matters to traffic is `FortiDeployment`'s subject.

`CheckBase` is the comparison of bases in `adminPublish` (`admin.go:540`), in front
of the lock, and the commit does not repeat it (`Finalizable`): two publishers that
compared together publish two revisions of one base.  What a revision says is
chosen at its commit; nothing reads it earlier.  Requests that are overtaken are
closed by then and only lead to `AbandonPublication`; the model does not tell them
from direct revisions and so lets both through.

`Straight` says of a history that each publication was drawn up on the one
before.  Where it is not, the plan of the latest publication is no difference to
what the devices run, and a rule of the publication in between is never removed.
The gate then still means that the latest plan is carried out everywhere, but no
longer that the device holds nothing else (`TrustworthyBaseline`, which
`stale_gate` violates).  `GateIsTruthful` states the first for every history
and the second for straight ones; `CommitsOntoBaseline` and the refinement divide
in the same way.  Left out: plans that fail their verification
(nothing is published then), and targets that are only previewed, which the gate
does not wait for.

`Releases` is `GatedReleases` with `from` and `goal` for what the base and the
contents of the latest publication want installed (`BaseNow`, `DesiredNow`),
`done` for the targets a successful row of that publication names (`Done`), and
`straight` for `Straight`.  The
refinement says more than any single invariant about the gate: that a run touches
only what its plan names, that a failing run undoes no more than that, that no late
row, expired lock or second deployment moves a device that was reported, and, in a
straight history, that devices run the baseline when a commit replaces it.

### `MCDeploymentGate`

The symmetry of targets, publishers and deployments, which the specification
never tells apart.

### `UserLoads`

The users store of the service view (`loadSelectedServiceUsers`) alone.  Its one
variable `users` has the five facts the code keeps on the store: `desired`
(`policyWebDesiredKey`), `request` (`policyWebRequestKey`; the store is loading
exactly while there is one), `queued` (`policyWebQueuedLoad`), `loaded`
(`policyWebLoadedKey`) and `shown`, the request whose records it holds.  A key is
the JSON text of all parameters.  `Want` is a selection (`force` where the code
loads again what is loaded), `Drop` an empty list, `Answer` the load event and the
callback of a request, with what follows from the queue.

### `ServiceBrowser`

| Variable | In the code |
|---|---|
| `app` | `appstate`: owner, policy, whether that is the current one, networks, `init_phase` |
| `base` | `extraParams` of all stores under `NetspocState`, set by `changeBaseParams` |
| `published` | the policy the server has as current |
| `asks` | `set` and `get_policy` requests of a change of owner |
| `view` | pressed button, `extraParams.relation` of the service store, search form, boxes |
| `list`, `lists` | the service store: its newest request, rows, selected row; requests in flight |
| `pane`, `ruleAsks` | the rules grid (`policyWeb...` marks of its records) and the request buttons; requests in flight |
| `users` | the users store, used only through `UserLoads` |
| `masked` | `Ext.getBody()` is masked |

    owner:    SelectOwner -> OwnerStored -> PolicyLoaded -> ListLoaded
                -> RulesLoaded, UsersLoaded
    elsewhere SelectPolicy, ChooseNetworks, SelectService, OpenUsersTab, ToggleBox,
              PickRule, ClickRelation, FillForm, StartSearch, Publish

An action is one event with everything its listeners do, in their order: a change
of owner or policy sets the stores' parameters, takes back the networks, which is
a second change inside the first (`Requests` lists both loads of the list), and
updates the buttons.  Answers are taken from any place of their list, may fail
(the store keeps its records, its load event fires all the same), and unmask the
page.  A gesture needs an unmasked page, except in the search window, which lies
above the mask.  The text of a search is a member of `Terms`, `blank` or
`invalid`; the many fields of the form are one.  A list answers with any set of
`Lists`.

### `RuleRequestDialog`

| Variable | In the code |
|---|---|
| `page`, `rule` | `appstate`, the selected service, the rule selected in the grid |
| `contexts` | `requests/context` requests in flight, asked for by the "add" buttons |
| `dialog[d]` | a window: the rule and change it was opened for, the values offered, whether "Antrag senden" is enabled and an answer awaited |
| `posts[d]` | what the server made of each POST of that window |

    ClickDirect -> (window open)        ClickContext -> ContextLoaded -> (window open)
    Send -> Process -> Answered         Send -> LoseAnswer, before or after Process
    Cancel at any time

`TurnPage` is everything `ServiceBrowser` may do meanwhile, more coarsely: any
page and any rule the server could have answered with.  The server accepts a
change only for its current policy (`submitPolicyRequest` compares the base), and
may refuse it for any other reason.

### `PolicyTabs`

| Variable | In the code |
|---|---|
| `app`, `tab` | `appstate` after its start; the active card |
| `net` | networks grid: whose rows, what is selected, its two buttons, the navigation button's text |
| `resources`, `diff`, `mail` | the grid of resources; the root version of the tree and the answers it shows; the mail box, what the server has stored (`wants`) and what its user ticked (`meant`) |
| `asked`, `calls` | the owner each tab was last loaded for; the bag of requests in flight |
| `others` | the loads of `ServiceBrowser`, which here only mask and unmask |

`ChangeContext` is a change of owner or policy for all tabs: the choice of
networks is taken back first, so that the open tab is loaded twice.  A load whose
answer comes late is an element of `calls` that carries its owner.  Every card is
rendered at the start, on which `onBeforeActivate` relies
(`app/controller/Diff.js:116`): the card layout of Ext 4.2.1
(`htdocs/extjs4/ext-all.js`) has `deferredRender: false`, and it does not know the
`layoutConfig` of `app/view/Viewport.js:40`, the way Ext 3 set it.  So the first
opening of a tab is a load like any other.

### `ThemeSync`

Pages load, are parsed, get the application's button, close; a click writes the
opposite theme or removes the key, and the browser queues a storage event for
every other page with storage.  `Blocked` pages have none.  `SystemTurns` waits
until the pages have heard of the last change: the operating system is slower
than they are.  `Hasty` decides whether a click may outrun the news.

### `MCServiceBrowser`, `MCRuleRequestDialog`, `MCPolicyTabs`, `MCThemeSync`

Named owners, the lists a server may answer with, the networks of each owner, and
a rule that loses a domain name in the second policy.  No symmetry is used: three
of them have liveness properties, and the rows of the list are ordered.

### The proof modules

`PolicyWorkflowProofs`, `PolicyRequestsProofs`, `FortiDeploymentProofs`,
`DeploymentGateProofs`, `ServiceBrowserProofs` (also about `UserLoads`),
`RuleRequestDialogProofs`, `PolicyTabsProofs`, `ThemeSyncProofs`: see section 6.

## 4. Runs

| Run | Bounds | Shows |
|---|---|---|
| `approvals` | 2 handlers, 2 users, 2 revisions with and without a request, commits may fail, 1 crash | exclusion across expiry, one publication per revision, the link, requests pending and published on their base, refinement of `ReviewedHistory` |
| `live` | 1 handler, 2 revisions, all faults, 2 crashes, 1 account change, 1 expiry under a live publisher, fair | four eyes at the moment of the commit; no commit into a running deployment; the lock becomes free, every approval is answered |
| `requests` | 2 requests, 2 submissions (limit 1), 1 page, 2 policy revisions, 1 deployment; four of requests, revisions and deployment together; one of an account change, a crash or an aged request beside two of them (`OneMishap`) | base, decisions, quota and trail of requests; when a request is deployed; decisions of one page are on the row that was seen; refinement of `ReviewedRequests` |
| `execution` | 3 places, 3 contents, 3 packets, 2 runs, 1 crash; every call and every compensation may fail | the two causes of openings and no third; guards, compensation and repetition of a run; the report |
| `gate` | 2 targets, 1 rule, 2 publishers, 2 deployments, 3 publications, 3 requests, 1 crash or expiry under a live publisher | the open gate: the latest plan is carried out everywhere, and nothing else is there in a straight history; no superseded run; refinement of `GatedReleases` |
| `browser` | 2 owners, 2 services, 1 network, 1 text, 2 policies, 2 gestures, 1 failed answer, fair | users, buttons and list belong to the selection; no mask and no queue for ever |
| `dialog` | 2 services, 2 objects (1 domain name), 2 policies, 2 turns of the page, 2 fetches, 2 POSTs, 1 lost answer, fair | stored once, for the selection, and only what is possible |
| `tabs` | 2 owners, 2 networks, 2 policies, 3 gestures, 1 change of owner, 1 failed answer | the restriction shown, the owner loaded for, the version compared with |
| `theme` | 3 pages (1 without storage), 3 writes, 1 change of the system, fair | switches, news, agreement |
| `stale_base` | violated | two publications on one base |
| `narrowed_deny` | violated; 2 places | a DENY replaced by a narrower ACCEPT |
| `stale_gate` | violated; 1 target, 2 publishers, 1 deployment | the gate opens on a device that holds more than the latest publication |

Why the bounds suffice.  The hazards are races of two handlers, of a handler and
a deployment, or of a handler and an editor: two of each reach all of them
(`approvals`).  `live` has one handler and no second: handlers never wait for each
other, they refuse, and a taken lock, a moved draft, a decided revision and a
changed role reach the one handler from deployments, editors, reviewers and
administrators as well (one developer plays them all).  What it needs are two revisions, because the setup's
publication cannot be deployed and the sleeper must publish after one that can.  Two
revisions allow an overtaken approval, one document is enough (what a publication
with an empty plan changes is looked at in `requests` and `gate`), and three draft versions (in `stale_base` and for
the draft's divergence below) allow a save, a foreign save and a publication.  A second crash starts from states the first one
already reaches, except that the lock may be older.  `DraftBound` only stops
stalled publishers from lifting each other's draft version for ever.
`LinkIsLatestPublication` is about histories without a crash; what a crash leaves
behind is `CommitFollowsLink`.  Each
invariant except the liveness properties is also proved without the bounds.
For requests, the races are between a submission or a page and one publication,
between two decisions on a row that a page or a sweep has taken, and between two
submissions; a limit of one is where the quota is decided.  Two administrators with
pages of their own do not fit beside the rest: the one page races with sweeps,
rejected revisions and publications, and `DecisionsAsSeen` proves the property for
any number of pages.  Two policy revisions let one overtake the other.
For the executor, a packet passes because of one ACCEPT and is stopped by one
DENY in front of it; the third place is the other policy that a reordering or a
failure can meet.  The second run starts on what a crash left.  Three packets are one that an
accepting policy and the rest of the table may pass, one that only `ap` does not
match, and one that passes below.  For the gate, two deployments overtake each other, a second target is the one a
partial run leaves out, and with two publishers one finds the lock of a sleeping
one expired; the setup's publication, one to deploy and one that replaces it are
three.  One rule is enough, because rules do not interact there.  A crash and a
sleeping publisher share one bound, `MaxFaults`: a crash would end the sleeper too.
For the client, a race is between one answer and one gesture or a second answer.
The start of the page already has a change of owner, a list, rules and users on
their way; two gestures then make a third and a fourth selection, which is what a
queue of one needs to be overtaken.  An owner, a service and a policy more than
one each let an answer be foreign.  `TurnPage` in `dialog` needs two steps to go
away and come back; two POSTs are the first and the repetition.
Its pages differ in service and policy only; `DialogsActOnSelection` covers owners,
which are compared beside the service, for any set of them.  Three gestures on
the tabs open one, choose in it and confirm.  Three pages are a writer, one that
hears of it, and one that cannot.
`requests`, `execution`, the gate's runs and the four of the client do not check
deadlock: at the bounds, with every request decided, every run made and every
answer in, nothing is left to do.

### What the code does not keep

Three runs show it:

* `stale_base`: README.md:458 says that an operation is aborted when the base
  revision changes between staging and approval.  `adminPublish` compares the
  base before it holds the lock; two direct revisions can both pass, and the
  second drops the first one's change.  Requests do not have the problem: the
  commit closes obsolete ones in its transaction (`RequestPublishedOnItsBase`
  holds).
* `stale_gate`: deployment-runtime.go:949-950 says that
  `requireLatestPublicationDeployed` makes the previous publication "a trustworthy
  device baseline".  After two publications on one base it opens on a device that
  holds rules of the first which neither the second nor its plan knows: the next
  plan will not remove them either.
* `narrowed_deny`: README.md:719-721 says that the match of an active DENY is not
  changed in place.  The code refuses it only while the policy stays a DENY.  In
  the plan [DENY p; ACCEPT p] to [ACCEPT x; ACCEPT x] the DENY becomes an ACCEPT
  first, and until the second policy is narrowed p passes, which neither base
  nor plan allow.

These can be seen by giving TLC another property or other constants:

* *Failed roll-back* (`execution.cfg` with `INVARIANT NoTransientOpening` and
  without the plans of `narrowed_deny`, that is, with `a1` and `d1` as
  `Policies`): if a deleted DENY cannot be created again, the compensation goes on
  and brings back the ACCEPT behind it, and if a new ACCEPT cannot be removed, it
  takes back the DENY in front of that.  `rollbackDeployment` calls itself "an
  all-or-nothing compensation plan" (`fortigate-deployment.go:1161`), which it is
  until the first compensation has been written.
* *Reused draft version* (`approvals.cfg` with one handler, `MaxRevision = 1`,
  `MaxDraftVersion = 3`, `MaxCrash = 0`, `PROPERTY SaveFindsLoadedDraft`): after a
  failed publication the old draft comes back with its old number.  The number is
  given out again, and `storePolicyDraftVersion` accepts an editor who saw
  another draft under it.
* *Obsolete differences* (`tabs.cfg`, `INVARIANT NoObsoleteDiff`): the tree is
  cleared "so no obsolete data is displayed" (`app/controller/Diff.js:101`) when a
  load starts, but late answers of former loads are appended to it.
* *Foreign mail preference* (`tabs.cfg`, `PROPERTY PreferenceIsTheUsers`):
  setting the box from an answer fires its change event, which stores the value
  for the owner the page has by then (`app/controller/Diff.js:65`; `diff.go:181`
  calls it the user's preference).
* *Left-over search* (`browser.cfg`, `INVARIANT NoLeftoverSearch`): a text typed
  into the search form while a relation button is pressed is sent along by the
  next change of owner or policy, because `loadServiceStoreWithParams`
  (`app/controller/Service.js:1155-1158`) merges the form whatever is pressed.
* *Discarded users* (`browser.cfg` with `MaxClicks = 3` and the gestures
  `service`, `users`, `boxes`, `networks`; `INVARIANT DiscardedUsersAreRetried`):
  networks are chosen and taken back while users load, and the users tab is opened
  for the key that counted as loaded; the late answer then empties the store and
  nothing loads it again until the list is loaded
  (`app/controller/Service.js:1264-1265`).
* *Hasty clicks* (`theme.cfg` with `Hasty = TRUE`): pages that are clicked faster
  than events arrive end up apart, since `onStorageChange` takes the event's value
  and not the stored one (`resources/js/theme.js:129-133`).  In a page without
  storage a choice lasts until the system's preference changes.

Not a violation of anything written, but worth knowing: a crash between preparing
and activating a policy leaves a disabled policy on the device, which
`snapshotDeployment` takes for neither content.  Every later run is refused and the
publication gate stays closed until somebody removes it by hand.  The sentence
behind `stale_base` also names the draft.  An approval never looks at it and
overwrites what was saved since (`admin.go:1468`).

Hazards of the backend that no module reaches yet, beyond the list in
`PROJECT.json`: the approver's role is checked before revision and catalog version
are read (`admin.go:499`); the link is replaced in two steps (`admin.go:1471`);
`published_at` is compared as text (`policy-store.go:513`); another administrator
changes a device between revalidation and command (`fortigate-deployment.go:618`);
takeover of a slow setup claim (`setup.go:634`); an LDAP preview applied and
consumed in two transactions (`ldap.go:302`); a policy scan that outlives its lease
(`fortigate-policy-scan.go:486`).

## 5. Fairness

`FairSpec` has weak fairness on the steps of an accepted approval
(`PublishStep`), on an accepted staging, on a running deployment and on the
expiry of the lock: goroutines that started run on, deployments are bounded by
their contexts (`deployment-runtime.go:753-766`), and time passes.  Nothing is
assumed of users, of reviews or of account changes, and a publication may be
refused at any time.

In the client nothing is assumed of the user either.  `FairSpec` of
`ServiceBrowser` says that every kind of request in flight is answered, well or
badly: Ext.Ajax reports a failure when a connection breaks or times out
(`app/proxy/Custom.js`).  That of `RuleRequestDialog` says that the server
processes what it received and that an answer is reported; it may still be lost
first.  That of `ThemeSync` says that the browser delivers events.  Writes and
changes of the system are bounded there, so that "in the end" is the time after
the last.  `PolicyTabs` has no liveness property.

## 6. Proofs

`PolicyWorkflowProofs` proves, for all values of the constants that satisfy
`WorkflowAssumption` and therefore for any number of users, handlers, revisions,
crashes and documents:

* `WorkflowTyped`: `TypeOK`, by way of `Typed`, which adds that handlers past
  their check refer to stored revisions;
* `PublicationExclusive`: `MutualExclusion` as long as no live publisher was
  stalled.  Exclusion is not inductive: `DeploymentHoldsLock` says a running
  deployment owns a fresh row, `Interlocked` that a publisher in its critical
  section owns the row with its own version;
* `PublicationWaitsForDeployment`: no commit during a deployment, even after
  stalls, because the commit looks for its row again and a live deployment's
  row is never stale;
* `RevisionsPublishedOnce`, `RequestsStayOnTheirBase`,
  `PendingRequestsStayCurrent`: from `HistoryStep`, which
  reduces every action to one of four effects on the tables (nothing, a revision
  stored, one rejected, one committed);
* `ApprovalsIndependent`: four eyes, from `ApprovalKept`: while the catalog's
  version is the one a handler read, its approver still passes the check;
* `LinkFollowsPublications`, `CommitsFollowLink`: from `LinkKept`, which ties
  each handler's phase to the link it saved or set;
* `WorkflowIsReviewedHistory`: initial states map to initial states and each of
  the four effects maps to a step of `ReviewedHistory` or a stutter.

`PolicyRequestsProofs` does the same for every number of users, requests, pages,
submissions, publications and deployments, from `RequestsAssumption`.  Its
invariant `Agreed` joins the types, `ActionableOnLatestBase`, `DecisionsAgree`
and `Copies`: a page never has a higher revision number than the row, and with
the same number it has the same row.  `Copies` is why one conditional UPDATE
suffices, and holds because every change of a row increments the number
(`DecisionsGoForward`).  Every action is reduced to one of nine effects on the
tables (`Decision`), and `DecisionsKept` shows that each keeps the invariant.

* `RequestsTyped`, `ActionableRequestsCurrent`, `RequestsDecidedWithRevisions`:
  the parts of `Agreed`;
* `DecisionsAsSeen`: from `Copies` and the actions that end a handler;
* `QuotaAlwaysRespected`: only the INSERT adds to the rows that count
  (`OthersAge`), and it counts them itself;
* `OvertakenWereNotDeployable` and `DeployedOnlyWhenComplete`: from `Deploying`,
  which adds that a run is of a publication and that a complete protocol has
  deployed its request.  The next publication waits for that protocol
  (`PublicationsWait`), so the request it overtakes was deployed, or had nothing
  to deploy;
* `RequestsAreReviewed`: the refinement of `ReviewedRequests`.  `Deploying` gives
  `NothingWaits` and `Deploy`, `Agreed` the base a request is staged on, and
  `Numbered` that a staged request's revision is younger than its base, so that
  approving it goes forward;
* `TrailsArePaths`: `PathOf` says of one trail, status and number what the
  property says; `EventAppended` shows that an event from the current status keeps
  it, and every action appends such events or none (`TrailStep`).

`FortiDeploymentProofs` is about every size and contents of the table, every
base and plan that `ApprovedUpdate` allows, and any number of runs and crashes,
from `DeploymentAssumption`.

* `ExecutorTyped`: `TypeOK`, by way of `Typed`, which adds that device and
  snapshot are place by place mixtures of base and plan, and that a place owes
  only compensations of its kind.  Commands and compensations are first reduced
  to writes of one place (`CommandWrites`, `UndoWrites`);
* `ReportsAreTruthful`: from `Faithful`, which says what a place holds given the
  commands done (`EffectiveAt`), those attempted (`Attributed`: every difference
  to the snapshot is the run's own, also if an answer was lost) and the
  compensations pending (`Compensated`).  A
  failed compensation makes the run `failed`, which promises nothing;
* `OpeningsExplained`: `OpeningsHaveACause`, for every plan and whatever fails.
  The proof is about runs that are not `unguarded`; what packets do is no
  induction hypothesis (`Guarded`), the order of guards is.  `Safe` says that no
  ACCEPT of
  the plan is live before all of its DENYs are, and that a DENY of the base is
  only given up behind them, to its own ACCEPT or once all live ACCEPTs are the
  plan's; `SafeIsClosed` derives from it that the device stops what base and
  plan stop, unless the packet is `Narrowed`.  The snapshot of a run is `Safe` too,
  which is why a run may start
  on what a failed or crashed one left, and why undoing down to its DENYs
  (`Shielded`) is safe.  `AcceptRestoredFirst` is where `mutationOrder` matters:
  an ACCEPT is restored before a DENY that replaced another ACCEPT.  That neither
  cause can be left out is seen in `narrowed_deny` and in the failed roll-back of
  section 4.

`DeploymentGateProofs` is about every set of targets, rules, publishers and
deployments, from `GateAssumption`.

* `GateTyped` and `InterlockSafe`: from `Interlocked`, which adds to the types
  that no two deployments share a row and that a live run owns the fresh lock,
  its `running` row and the latest version (`Attended`).  Sleeping publishers do
  no harm, because the commit looks for the lock again;
* `OpenGateIsTruthful`, `CommitsOnRunningBaseline`: from `Grounded`, with no
  assumption on bases.  The latest plan is carried out wherever some run of it
  succeeded, the same holds of what a live run found, and the two differ in the
  plan's rules only (`Snapshots`), so that a failing
  run goes back to nothing worse than an earlier run reported.  This is why the
  order of `started_at`, which is not the order of execution, cannot open the gate
  too early.  `Straight => Level` adds that devices and snapshots lie between the
  latest publication and its base, so that in a straight history "carried out" is
  "nothing else is there".  A publisher that passed the gate and whose base is still
  the latest may rely on it (`Approvable`); after any other commit the history is
  not straight any more;
* `GateIsGatedReleases`: the refinement, with no assumption either.  Each action
  maps to one step or a stutter: `FinalizePublication` to `Release` or
  `ReleaseOnOlderBase`, a command or
  a compensation to `Move`, `FinishDeploymentLog` to `Report`.  `Grounded` gives
  what the abstract guards ask for: that the latest plan is done when the gate
  opens, that a run which still moves devices is of the latest publication, and
  that none of its moves touches what is reported.

`ServiceBrowserProofs` is about every set of owners, services, networks, texts and
lists, every number of gestures and failures, and answers in every order.

The inductive invariant is `BrowserInv`: the types, `InitPhase` (until the first
owner is known the page is masked and nothing is asked), `BaseKnown` (`base` holds
the application's owner and networks), `SelectionKnown` (a selected service is a
row of the list), the two properties themselves, and the invariant of the users
store.

* `BrowserTyped`: types, and that requests in flight carry owners and services
  that exist, which is what makes users keys keys;
* `DrivesUsersStore`: every step is one of `UserLoads` or leaves its store alone;
  `NoForeignUsersInView` carries that module's promise over;
* `UsersAlwaysFollow`: from `SelectionKnown` and the store's own invariant, which
  `StoreKeeps` carries over every step;
* `ButtonsNeverLie`: the buttons are recomputed by every action that touches what
  they depend on, the list's selection being followed by new rules;
* `ListAlwaysAskedAsShown`: from `BaseKnown`;
* `MaskedPagesWait`: a masked page has a request in flight, because what masks it
  asks first and what takes an answer unmasks it or asks again (`Pending`).  This
  is the safety half of `PageIsUnmasked`: what remains for TLC is that the answers
  lead there.

About the users store alone, for every sequence of its steps and therefore also
where the page drives it: `QueueNeverForgotten` (a request waits only behind
another one, the safety half of `QueuedUsersAreRequested`), `LoadedAreTheirs`
(from the former and `ShownIsLoaded`) and `NoForeignUsersAppear`.

`RuleRequestDialogProofs` is about every set of owners, services, objects and
policies, every number of dialogs, fetches, clicks and lost answers.

* `DialogTyped`: types, and that objects are only asked for to be added;
* `ChangesStoredOnce`: from `Accounted`.  The POSTs of a dialog that are stored, or
  may be yet, are at most one more than the answers lost, and while its button is
  enabled no more than those;
* `DialogsNeverStuck`: the button of an open dialog is enabled or an answer is
  waited for, the other half of `Accounted`;
* `StoredChangesPossible`: from `Prepared`, what was checked against the policy of
  the rule when the window opened still fits it.  The server compares that policy
  with its own before it stores anything;
* `DialogsActOnSelection`: from the types and what opening and sending compare.

`PolicyTabsProofs` proves `IndicatorAlwaysTruthful`, `ActiveTabFollowsOwner` and
`ComparisonStaysOlder` together with the types (`TabsTyped`); the few facts
about bags they need (`AddTyped`, `TakeTyped`) are proved there.  `ThemeSyncProofs` proves
`SwitchesTruthful` for clicks of any haste, and `NewsLead` under `~Hasty`.

Only model-checked: `LockIsReleased`, `PublisherReturns`, `PageIsUnmasked`,
`QueuedUsersAreRequested` and `PagesAgree` (fairness and ENABLED are outside the
prover).  Every safety property and every refinement of a passing run is proved.
The three violated ones are, of course, not: `NoTransientOpening`,
`EveryPublicationOnItsBase` and `TrustworthyBaseline`.

## 7. Not modelled

* Everything marked "plan" in section 1: setup, sessions, registration, LDAP,
  FortiGate administration, the policy scan, maintenance notices and caches keep
  state and deserve modules of their own.
* Pure code: compilation of plans, differences, rule and service queries, device
  routing.  What the modules need of it is a parameter (`Rendering`, `Match`,
  `Lists`, `RuleValues`).
* In the client: printing, tooltips, translations and widgets; the e-mail panels;
  the pages the server renders and the client only frames (their buttons call the
  handlers of `PolicyWorkflow`, `PolicyRequests` and `DeploymentGate`); the
  overview graph, whose only button is commented out
  (`app/view/panel/grid/Services.js:70-74`).
* Configuration, templates, mail texts, assets and the legacy Perl server.
