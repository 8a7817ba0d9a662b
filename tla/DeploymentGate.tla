--------------------------- MODULE DeploymentGate ---------------------------
(***************************************************************************)
(* The gate between publications and devices.  A publication's plan is the *)
(* difference to its base, so that the next one may only be published when *)
(* every device runs the latest: requireLatestPublicationDeployed reads    *)
(* that from the deployment protocol, row by row in the order of           *)
(* started_at, which a run draws before it competes for the lock.          *)
(*                                                                         *)
(* A device holds rules, policies with their contents.  A run installs the *)
(* rules of the plan and removes those of the base that are gone, on all   *)
(* targets or on one; FortiDeployment is the inside of a run.              *)
(***************************************************************************)
EXTENDS Integers, Sequences, FiniteSets

CONSTANTS
  Targets,     \* executable deployment targets
  Rules,
  Publishers,  \* approvals being handled, each of its own revision
  Deployers,   \* deployments being handled
  MaxPublications,
  MaxRuns,     \* bound: deployment requests
  MaxFaults    \* bound: crashes and locks that expire under a live publisher

Docs == [Targets -> SUBSET Rules]
NoRules == [t \in Targets |-> {}]

ASSUME GateAssumption ==
  /\ Publishers \cap Deployers = {}
  /\ "nobody" \notin Publishers \cup Deployers
  /\ {MaxPublications, MaxRuns, MaxFaults} \subseteq Nat

VARIABLES
  publication, \* policy_publication: Seq of [doc, base]; the first is the setup's
  log,         \* policy_deployment_log, by start time: [version, targets, status]
  lock,        \* policy_deployment_lock: its owner, and is it past its hour?
  device,      \* what the targets hold of the rules
  publisher,   \* the approvals' handlers
  deployer,    \* the deployments' handlers
  crashes, stalls

vars == <<publication, log, lock, device, publisher, deployer, crashes, stalls>>

NoOwner == "nobody"
NoLock == [owner |-> NoOwner, stale |-> FALSE]
IdlePublisher == [pc |-> "idle", base |-> 0]
IdleDeployer == [pc |-> "idle", row |-> 0, before |-> NoRules]

Latest == Len(publication)
Desired(v) == publication[v].doc

(* deploymentPlanBase: the setup's publication has no plan, its successors *)
(* are compared with nothing, whatever its document.                       *)
Base(v) == IF publication[v].base \in {0, 1} THEN NoRules ELSE Desired(publication[v].base)

Removed(v, t) == Base(v)[t] \ Desired(v)[t]

(* generateDeploymentPlanWithBase: every rule is a command, and so is every *)
(* one of the base that is gone.                                           *)
CommandTargets(v) ==
  IF v = 1 THEN {} ELSE {t \in Targets : Desired(v)[t] \cup Base(v)[t] # {}}

-----------------------------------------------------------------------------
(* The gate.                                                               *)

Rows(v, t) == {i \in 1..Len(log) : log[i].version = v /\ t \in log[i].targets}

(* Faulty: a deployment on one target counts for all of them.              *)
DeployedAnywhere(v, t) == \E i \in 1..Len(log) : log[i].version = v /\ log[i].status = "succeeded"

(* The last row of a target decides.  A request that was refused leaves no *)
(* row: its place in the order stays "none".                               *)
Deployed(v, t) ==
  \E i \in Rows(v, t) :
    log[i].status = "succeeded" /\ \A j \in Rows(v, t) : log[j].status # "none" => j <= i

LatestPublicationDeployed == \A t \in CommandTargets(Latest) : Deployed(Latest, t)

LockFree == lock = NoLock \/ lock.stale

-----------------------------------------------------------------------------
Init ==
  /\ publication = <<[doc |-> NoRules, base |-> 0]>>
  /\ log = <<>>
  /\ lock = NoLock
  /\ device = NoRules
  /\ publisher = [p \in Publishers |-> IdlePublisher]
  /\ deployer = [h \in Deployers |-> IdleDeployer]
  /\ crashes = 0
  /\ stalls = 0

(* adminPublish: a revision's base is compared with the latest publication *)
(* before the lock is asked for.                                           *)
CheckBase(p) ==
  /\ publisher[p].pc = "idle"
  /\ Latest < MaxPublications
  /\ publisher' = [publisher EXCEPT ![p] = [pc |-> "checked", base |-> Latest]]
  /\ UNCHANGED <<publication, log, lock, device, deployer, crashes, stalls>>

AcquirePublicationLock(p) ==
  /\ publisher[p].pc = "checked"
  /\ Latest < MaxPublications
  /\ LockFree
  /\ LatestPublicationDeployed
  /\ lock' = [owner |-> p, stale |-> FALSE]
  /\ publisher' = [publisher EXCEPT ![p] = [pc |-> "locked", base |-> @.base]]
  /\ UNCHANGED <<publication, log, device, deployer, crashes, stalls>>

RefusePublication(p) ==
  /\ publisher[p].pc = "checked"
  /\ publisher' = [publisher EXCEPT ![p] = IdlePublisher]
  /\ UNCHANGED <<publication, log, lock, device, deployer, crashes, stalls>>

(* finalizePublicationWithSetupClaim: somebody else's fresh row stops it.  *)
(* The base is not compared again.  A request on an older base has been    *)
(* closed by then and its approval gives up; a revision drawn up without a *)
(* request is published.                                                   *)
FinalizableUnlocked(p) == publisher[p].base <= Latest \* Faulty

Finalizable(p) == LockFree \/ lock.owner = p

(* What the revision says matters from here on.                            *)
FinalizePublication(p) ==
  /\ publisher[p].pc = "locked"
  /\ Latest < MaxPublications
  /\ Finalizable(p)
  /\ \E d \in Docs : publication' = Append(publication, [doc |-> d, base |-> publisher[p].base])
  /\ publisher' = [publisher EXCEPT ![p] = [pc |-> "release", base |-> 0]]
  /\ UNCHANGED <<log, lock, device, deployer, crashes, stalls>>

AbandonPublication(p) ==
  /\ publisher[p].pc = "locked"
  /\ publisher' = [publisher EXCEPT ![p] = [pc |-> "release", base |-> 0]]
  /\ UNCHANGED <<publication, log, lock, device, deployer, crashes, stalls>>

(* releaseDeploymentLock: only the own row, and its errors are ignored.    *)
ReleasePublication(p) ==
  /\ publisher[p].pc = "release"
  /\ lock' \in {lock, IF lock.owner = p THEN NoLock ELSE lock}
  /\ publisher' = [publisher EXCEPT ![p] = IdlePublisher]
  /\ UNCHANGED <<publication, log, device, deployer, crashes, stalls>>

-----------------------------------------------------------------------------
(* Deployments.                                                            *)

(* adminDeploy up to the start time: the latest publication, on all        *)
(* targets with commands or on a requested one (runtimeTargets).           *)
SelectTargets(h) ==
  /\ deployer[h].pc = "idle"
  /\ Len(log) < MaxRuns
  /\ \E ts \in {CommandTargets(Latest)} \cup {{t} : t \in CommandTargets(Latest)} :
       /\ ts # {}
       /\ log' = Append(log, [version |-> Latest, targets |-> ts, status |-> "none"])
  /\ deployer' = [deployer EXCEPT ![h] = [pc |-> "selected", row |-> Len(log) + 1, before |-> NoRules]]
  /\ UNCHANGED <<publication, lock, device, publisher, crashes, stalls>>

Run(h) == log[deployer[h].row]

StartDeploymentLog(h) ==
  /\ deployer[h].pc = "selected"
  /\ Run(h).version = Latest
  /\ LockFree
  /\ lock' = [owner |-> h, stale |-> FALSE]
  /\ log' = [log EXCEPT ![deployer[h].row].status = "running"]
  /\ deployer' = [deployer EXCEPT ![h] = [pc |-> "running", row |-> @.row, before |-> device]]
  /\ UNCHANGED <<publication, device, publisher, crashes, stalls>>

RefuseDeployment(h) ==
  /\ deployer[h].pc = "selected"
  /\ deployer' = [deployer EXCEPT ![h] = IdleDeployer]
  /\ UNCHANGED <<publication, log, lock, device, publisher, crashes, stalls>>

(* executeDeployment: a rule is installed or removed, never one that is    *)
(* already as desired.                                                     *)
ExecuteCommand(h, t, r) ==
  LET v == Run(h).version
  IN  /\ deployer[h].pc = "running"
      /\ t \in Run(h).targets
      /\ \/ /\ r \in Desired(v)[t] \ device[t]
            /\ device' = [device EXCEPT ![t] = @ \cup {r}]
         \/ /\ r \in Removed(v, t) \cap device[t]
            /\ device' = [device EXCEPT ![t] = @ \ {r}]
      /\ UNCHANGED <<publication, log, lock, publisher, deployer, crashes, stalls>>

FailRun(h) ==
  /\ deployer[h].pc = "running"
  /\ deployer' = [deployer EXCEPT ![h].pc = "failing"]
  /\ UNCHANGED <<publication, log, lock, device, publisher, crashes, stalls>>

(* rollbackDeployment: what the run changed comes back, or not.            *)
Compensate(h, t, r) ==
  /\ deployer[h].pc = "failing"
  /\ \/ /\ r \in device[t] \ deployer[h].before[t]
        /\ device' = [device EXCEPT ![t] = @ \ {r}]
     \/ /\ r \in deployer[h].before[t] \ device[t]
        /\ device' = [device EXCEPT ![t] = @ \cup {r}]
  /\ UNCHANGED <<publication, log, lock, publisher, deployer, crashes, stalls>>

(* Faulty: rules of the base that are gone are not looked for.             *)
InstalledOnTop(h) == \A t \in Run(h).targets : Desired(Run(h).version)[t] \subseteq device[t]

(* verifyDeploymentFinalState                                              *)
Installed(h) ==
  \A t \in Run(h).targets :
    /\ Desired(Run(h).version)[t] \subseteq device[t]
    /\ Removed(Run(h).version, t) \cap device[t] = {}

(* finishDeploymentLog; when it fails the row stays "running".             *)
FinishDeploymentLog(h) ==
  /\ \/ /\ deployer[h].pc = "running"
        /\ Installed(h)
        /\ log' \in {log, [log EXCEPT ![deployer[h].row].status = "succeeded"]}
     \/ /\ deployer[h].pc = "failing"
        /\ log' \in {log, [log EXCEPT ![deployer[h].row].status = "failed"]}
  /\ deployer' = [deployer EXCEPT ![h] = [pc |-> "release", row |-> @.row, before |-> NoRules]]
  /\ UNCHANGED <<publication, lock, device, publisher, crashes, stalls>>

ReleaseDeploymentLock(h) ==
  /\ deployer[h].pc = "release"
  /\ lock' \in {lock, IF lock.owner = h THEN NoLock ELSE lock}
  /\ deployer' = [deployer EXCEPT ![h] = IdleDeployer]
  /\ UNCHANGED <<publication, log, device, publisher, crashes, stalls>>

-----------------------------------------------------------------------------
(* The environment.                                                        *)

Crash ==
  /\ crashes + stalls < MaxFaults
  /\ crashes' = crashes + 1
  /\ publisher' = [p \in Publishers |-> IdlePublisher]
  /\ deployer' = [h \in Deployers |-> IdleDeployer]
  /\ UNCHANGED <<publication, log, lock, device, stalls>>

LiveRun == \E h \in Deployers : deployer[h].pc \in {"running", "failing", "release"} /\ lock.owner = h
LivePublication == \E p \in Publishers : publisher[p].pc # "idle" /\ lock.owner = p

(* An hour passes.  A run ends within 40 minutes; a publisher may sleep.   *)
ExpireLock ==
  /\ lock # NoLock
  /\ ~lock.stale
  /\ ~LiveRun
  /\ \/ ~LivePublication /\ UNCHANGED stalls
     \/ LivePublication /\ crashes + stalls < MaxFaults /\ stalls' = stalls + 1
  /\ lock' = [lock EXCEPT !.stale = TRUE]
  /\ UNCHANGED <<publication, log, device, publisher, deployer, crashes>>

Next ==
  \/ \E p \in Publishers :
       CheckBase(p) \/ AcquirePublicationLock(p) \/ RefusePublication(p)
         \/ FinalizePublication(p) \/ AbandonPublication(p) \/ ReleasePublication(p)
  \/ \E h \in Deployers :
       SelectTargets(h) \/ StartDeploymentLog(h) \/ RefuseDeployment(h) \/ FailRun(h)
         \/ FinishDeploymentLog(h) \/ ReleaseDeploymentLock(h)
  \/ \E h \in Deployers, t \in Targets, r \in Rules : ExecuteCommand(h, t, r) \/ Compensate(h, t, r)
  \/ Crash
  \/ ExpireLock

Spec == Init /\ [][Next]_vars

-----------------------------------------------------------------------------
PublicationType == [doc : Docs, base : Nat]
RunType == [version : Nat, targets : SUBSET Targets, status : {"none", "running", "succeeded", "failed"}]
PublisherType == [pc : {"idle", "checked", "locked", "release"}, base : Nat]
DeployerType == [pc : {"idle", "selected", "running", "failing", "release"}, row : Nat, before : Docs]

TypeOK ==
  /\ publication \in Seq(PublicationType) /\ publication # <<>>
  /\ \A v \in 1..Latest : publication[v].base < v
  /\ log \in Seq(RunType)
  /\ \A i \in 1..Len(log) : log[i].version \in 1..Latest
  /\ lock \in [owner : Publishers \cup Deployers \cup {NoOwner}, stale : BOOLEAN]
  /\ device \in Docs
  /\ publisher \in [Publishers -> PublisherType]
  /\ \A p \in Publishers : publisher[p].base <= Latest
  /\ deployer \in [Deployers -> DeployerType]
  /\ \A h \in Deployers : deployer[h].pc # "idle" => deployer[h].row \in 1..Len(log)
  /\ {crashes, stalls} \subseteq Nat

(* Every publication was drawn up on the one before it.  adminPublish only *)
(* makes sure of that as long as nobody publishes between its check of the *)
(* base and its lock.                                                      *)
Straight == \A v \in 2..Latest : publication[v].base = v - 1

(* requireLatestPublicationDeployed: when it opens the gate, the latest    *)
(* plan is carried out on every device, whichever runs failed, overtook    *)
(* each other on the way to the lock, reached only some targets, could not *)
(* finish their protocol or died: what the publication wants is there, and *)
(* what it takes from its base is gone.  The device holds nothing else, as *)
(* long as every publication followed its predecessor.                     *)
GateIsTruthful ==
  LatestPublicationDeployed /\ Latest > 1 =>
    /\ \A t \in Targets : Desired(Latest)[t] \subseteq device[t] /\ Removed(Latest, t) \cap device[t] = {}
    /\ Straight => device = Desired(Latest)

(* "makes the immediately previous publication a trustworthy device        *)
(* baseline" (requireLatestPublicationDeployed): what the gate is for.     *)
(* The code does not keep it: two revisions of the same base may follow    *)
(* each other, and the rules of the first one stay on the devices.         *)
TrustworthyBaseline ==
  LatestPublicationDeployed /\ Latest > 1 => device = Desired(Latest)

(* Lock and latest version: a run that changes devices executes the latest *)
(* publication, no publication overtakes it.                               *)
NoSupersededRun ==
  \A h \in Deployers : deployer[h].pc \in {"running", "failing"} => Run(h).version = Latest

(* As long as publications follow each other, each is committed onto       *)
(* devices that run the one it replaces, also if its handler slept past    *)
(* its lock.                                                               *)
CommitsOntoBaseline ==
  [][publication' # publication /\ Latest > 1 /\ Straight' => device = Desired(Latest)]_vars
-----------------------------------------------------------------------------
(* Targets that a run of the latest publication reported as deployed.      *)
Done == {t \in Targets : \E i \in Rows(Latest, t) : log[i].status = "succeeded"}

DesiredNow == Desired(Latest)
BaseNow == Base(Latest)

Releases == INSTANCE GatedReleases WITH
              from <- BaseNow, goal <- DesiredNow, devices <- device, done <- Done, straight <- Straight

(* Refinement: every step is a release onto reported devices, one on an    *)
(* older base, a rule of the plan moved on a target that is still under    *)
(* way, a truthful report, or nothing; whatever is reported stays until    *)
(* the next release.                                                       *)
ImplementsGatedReleases == Releases!Spec
=============================================================================
