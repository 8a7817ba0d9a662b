-------------------------- MODULE FortiDeployment --------------------------
(***************************************************************************)
(* The executor of an approved plan on a FortiGate: snapshot, the five     *)
(* phases of executeDeployment, and the compensation of a failed run       *)
(* (rollbackDeployment).                                                   *)
(*                                                                         *)
(* The policies of one table are 1..Size in the order they are matched in, *)
(* those of the approved base and those of the plan merged: an update      *)
(* keeps its place, a new policy is moved in front of its successor while  *)
(* it is disabled, and a restored one goes back to its place before it is  *)
(* enabled.  A policy's content is a member of Policies, of which only     *)
(* Action and Match matter.  Below are the packets that the unmanaged      *)
(* policies behind the block let through.  Address and service objects are *)
(* content-addressed and match nothing by themselves; they are left out.   *)
(*                                                                         *)
(* Every call that changes the device is a step, with the look-ups around  *)
(* it.  A call may fail before or after it took effect.                    *)
(***************************************************************************)
EXTENDS Integers, FiniteSets

CONSTANTS
  Size,          \* places in the policy table
  Packets,
  Below,         \* packets accepted by what comes after the managed block
  Policies,      \* contents of a policy
  NoPolicy,      \* "no such policy"
  Action, Match, \* of a content
  MaxRuns,       \* bound: deployments of the plan
  MaxCrash       \* bound: server crashes

Places == 1..Size
Tables == [Places -> Policies \cup {NoPolicy}]

ASSUME DeploymentAssumption ==
  /\ Size \in Nat
  /\ Below \subseteq Packets
  /\ NoPolicy \notin Policies
  /\ Action \in [Policies -> {"accept", "deny"}]
  /\ Match \in [Policies -> SUBSET Packets]
  /\ {MaxRuns, MaxCrash} \subseteq Nat

VARIABLES
  base,      \* the approved base: what the previous plan has installed
  desired,   \* the policies of the approved plan
  installed, \* the device's policies
  enabled,   \* places whose policy has status "enable"
  before,    \* the snapshot of the run
  pc,        \* the run: idle, executing, failing or undoing
  outcome,   \* of the last run
  done,      \* commands the run has finished
  tried,     \* commands that attempted a mutation
  undo,      \* compensations still to be made
  undoError, \* has one failed?
  unguarded, \* history: has one failed, in any run, that later ones rely on?
  runs, crashes

plan == <<base, desired>>
device == <<installed, enabled>>
vars == <<base, desired, installed, enabled, before, pc, outcome, done, tried,
          undo, undoError, unguarded, runs, crashes>>

IsAccept(c) == c # NoPolicy /\ Action[c] = "accept"
IsDeny(c) == c # NoPolicy /\ Action[c] = "deny"

Configured(table) == {n \in Places : table[n] # NoPolicy}

-----------------------------------------------------------------------------
(* What a table does to packets: the first enabled policy that matches.    *)

Denied(table, on, p, n) == \E m \in on : m < n /\ IsDeny(table[m]) /\ p \in Match[table[m]]

Passing(table, on) ==
  {p \in Packets :
     \/ \E n \in on : IsAccept(table[n]) /\ p \in Match[table[n]] /\ ~Denied(table, on, p, n)
     \/ p \in Below /\ ~Denied(table, on, p, Size + 1)}

-----------------------------------------------------------------------------
(* The plan.                                                               *)

(* unsafeInPlaceDenyMatchChange: a DENY keeps its match while it is one.   *)
(* It may become an ACCEPT in place, also one that matches less.           *)
ApprovedUpdate(old, new) == IsDeny(old) /\ IsDeny(new) => Match[new] = Match[old]

Obsolete(n) == desired[n] = NoPolicy /\ base[n] # NoPolicy
Created(n) == desired[n] # NoPolicy /\ before[n] = NoPolicy

(* The phases of executeDeployment: new policies are created disabled,     *)
(* DENYs finalized, obsolete ACCEPTs deleted, ACCEPTs finalized, obsolete  *)
(* DENYs deleted.                                                          *)
Prepare == 1
FinalizeDeny == 2
DropAccept == 3
FinalizeAccept == 4
DropDeny == 5

Commands ==
  {<<Prepare, n>> : n \in {m \in Places : Created(m)}}
    \cup {<<FinalizeDeny, n>> : n \in {m \in Places : IsDeny(desired[m])}}
    \cup {<<DropAccept, n>> : n \in {m \in Places : Obsolete(m) /\ IsAccept(base[m])}}
    \cup {<<FinalizeAccept, n>> : n \in {m \in Places : IsAccept(desired[m])}}
    \cup {<<DropDeny, n>> : n \in {m \in Places : Obsolete(m) /\ IsDeny(base[m])}}

(* New policies are prepared bottom-up, all are finalized top-down.  What  *)
(* is deleted is sorted by name, which says nothing about its place.       *)
Precedes(c, d) ==
  \/ c[1] < d[1]
  \/ c[1] = d[1] /\ c[1] = Prepare /\ c[2] > d[2]
  \/ c[1] = d[1] /\ c[1] \in {FinalizeDeny, FinalizeAccept} /\ c[2] < d[2]

Ready(c) == c \in Commands \ done /\ \A d \in Commands : Precedes(d, c) => d \in done

-----------------------------------------------------------------------------
Init ==
  /\ base \in Tables
  /\ desired \in {t \in Tables : \A n \in Places : ApprovedUpdate(base[n], t[n])}
  /\ installed = base
  /\ enabled = Configured(base)
  /\ before = base
  /\ pc = "idle"
  /\ outcome = "none"
  /\ done = {}
  /\ tried = {}
  /\ undo = {}
  /\ undoError = FALSE
  /\ unguarded = FALSE
  /\ runs = 0
  /\ crashes = 0

(* snapshotDeployment accepts what is already as desired or as the         *)
(* approved base left it, and what has to be created.                      *)
Snapshotable ==
  \A n \in Configured(installed) :
    /\ n \in enabled
    /\ installed[n] = desired[n] \/ installed[n] = base[n]

(* adminDeploy up to the first mutation.  A refused run changes nothing.   *)
StartRun ==
  /\ pc = "idle"
  /\ runs < MaxRuns
  /\ Snapshotable
  /\ before' = installed
  /\ pc' = "executing"
  /\ outcome' = "running"
  /\ done' = {}
  /\ tried' = {}
  /\ undoError' = FALSE
  /\ runs' = runs + 1
  /\ UNCHANGED <<plan, device, undo, unguarded, crashes>>

RefuseRun ==
  /\ pc = "idle"
  /\ runs < MaxRuns
  /\ outcome' = "failed"
  /\ runs' = runs + 1
  /\ UNCHANGED <<plan, device, before, pc, done, tried, undo, undoError, unguarded, crashes>>

-----------------------------------------------------------------------------
(* Executing a command.                                                    *)

(* Faulty: a prepared policy counts as done although it is disabled.       *)
AlreadyInstalled(c) ==
  LET n == c[2]
  IN  \/ c[1] \in {FinalizeDeny, FinalizeAccept} /\ installed[n] = desired[n]
      \/ c[1] \in {DropAccept, DropDeny} /\ installed[n] = NoPolicy

(* revalidateFortiGateSnapshot: nothing is left to do                      *)
AlreadyDesired(c) ==
  LET n == c[2]
  IN  \/ c[1] \in {FinalizeDeny, FinalizeAccept} /\ installed[n] = desired[n] /\ n \in enabled
      \/ c[1] \in {DropAccept, DropDeny} /\ installed[n] = NoPolicy

Apply(c) ==
  LET n == c[2]
  IN  CASE c[1] = Prepare -> /\ installed' = [installed EXCEPT ![n] = desired[n]]
                             /\ enabled' = enabled \ {n}
        [] c[1] \in {FinalizeDeny, FinalizeAccept} ->
             /\ installed' = [installed EXCEPT ![n] = desired[n]]
             /\ enabled' = enabled \cup {n}
        [] OTHER -> /\ installed' = [installed EXCEPT ![n] = NoPolicy]
                    /\ enabled' = enabled \ {n}

(* executeFortiGateCommand, activatePreparedFortiGatePolicy                *)
ExecuteCommand(c) ==
  /\ pc = "executing"
  /\ Ready(c)
  /\ done' = done \cup {c}
  /\ \/ AlreadyDesired(c) /\ UNCHANGED <<device, tried>>
     \/ ~AlreadyDesired(c) /\ Apply(c) /\ tried' = tried \cup {c}
  /\ UNCHANGED <<plan, before, pc, outcome, undo, undoError, unguarded, runs, crashes>>

(* The call, or a look-up after it, fails; it may have had its effect.     *)
CommandFails(c) ==
  /\ pc = "executing"
  /\ Ready(c)
  /\ ~AlreadyDesired(c)
  /\ Apply(c) \/ UNCHANGED device
  /\ tried' = tried \cup {c}
  /\ pc' = "failing"
  /\ UNCHANGED <<plan, before, outcome, done, undo, undoError, unguarded, runs, crashes>>

(* A precondition or the final verification fails, or time is up.          *)
RunFails ==
  /\ pc = "executing"
  /\ pc' = "failing"
  /\ UNCHANGED <<plan, device, before, outcome, done, tried, undo, undoError, unguarded, runs, crashes>>

(* verifyDeploymentFinalState                                              *)
Succeed ==
  /\ pc = "executing"
  /\ done = Commands
  /\ pc' = "idle"
  /\ outcome' = "succeeded"
  /\ UNCHANGED <<plan, device, before, done, tried, undo, undoError, unguarded, runs, crashes>>

-----------------------------------------------------------------------------
(* Compensation.  Deleted policies are created again, disabled; then       *)
(* changed DENYs are restored and deleted ones enabled, new ACCEPTs        *)
(* removed, changed ACCEPTs restored and deleted ones enabled; new DENYs   *)
(* are removed last.                                                       *)
Recreate == 1
RestoreDeny == 2
EnableDeny == 3
RemoveAccept == 4
RestoreAccept == 5
EnableAccept == 6
RemoveDeny == 7

Touched(n) == \E c \in tried : c[2] = n
Changed(n) == installed[n] # before[n] \/ (before[n] # NoPolicy /\ n \notin enabled)

(* prepareRollbackState has told which attempts had an effect.             *)
Compensations ==
  LET Mutated == {n \in Places : Touched(n) /\ Changed(n)}
      Deleted == {n \in Mutated : desired[n] = NoPolicy}
      New == {n \in Mutated : Created(n)}
      Updated == Mutated \ (Deleted \cup New)
  IN  {<<Recreate, n>> : n \in Deleted}
        \cup {<<RestoreDeny, n>> : n \in {m \in Updated : IsDeny(before[m])}}
        \cup {<<EnableDeny, n>> : n \in {m \in Deleted : IsDeny(before[m])}}
        \cup {<<RemoveAccept, n>> : n \in {m \in New : IsAccept(desired[m])}}
        \cup {<<RestoreAccept, n>> : n \in {m \in Updated : IsAccept(before[m])}}
        \cup {<<EnableAccept, n>> : n \in {m \in Deleted : IsAccept(before[m])}}
        \cup {<<RemoveDeny, n>> : n \in {m \in New : IsDeny(desired[m])}}

(* mutationOrder: when a policy was last touched                           *)
TouchedLater(m, n) ==
  \E c \in tried : c[2] = m /\ \A d \in tried : d[2] = n => Precedes(d, c)

(* Faulty: within a group, in any order.                                   *)
UndoPrecedesByGroup(s, t) == s[1] < t[1]

UndoPrecedes(s, t) ==
  \/ s[1] < t[1]
  \/ s[1] = t[1] /\ TouchedLater(s[2], t[2])

Due(s) == s \in undo /\ \A t \in undo : ~UndoPrecedes(t, s)

(* The first half of rollbackDeployment reads all touched policies; unless *)
(* every outcome is known nothing is written.                              *)
BindOutcomes ==
  /\ pc = "failing"
  /\ pc' = "undoing"
  /\ undo' = Compensations
  /\ UNCHANGED <<plan, device, before, outcome, done, tried, undoError, unguarded, runs, crashes>>

OutcomesUnknown ==
  /\ pc = "failing"
  /\ tried # {}
  /\ pc' = "idle"
  /\ outcome' = "failed"
  /\ UNCHANGED <<plan, device, before, done, tried, undo, undoError, unguarded, runs, crashes>>

(* Faulty: what is removed stays listed as enabled.                        *)
CompensateContent(s) ==
  LET n == s[2]
  IN  CASE s[1] \in {Recreate, RestoreDeny, RestoreAccept} ->
             installed' = [installed EXCEPT ![n] = before[n]] /\ UNCHANGED enabled
        [] s[1] \in {EnableDeny, EnableAccept} ->
             enabled' = enabled \cup {n} /\ UNCHANGED installed
        [] OTHER -> installed' = [installed EXCEPT ![n] = NoPolicy] /\ UNCHANGED enabled

Compensate(s) ==
  LET n == s[2]
  IN  CASE s[1] = Recreate -> /\ installed' = [installed EXCEPT ![n] = before[n]]
                              /\ enabled' = enabled \ {n}
        [] s[1] \in {RestoreDeny, RestoreAccept} ->
             /\ installed' = [installed EXCEPT ![n] = before[n]]
             /\ enabled' = enabled \cup {n}
        [] s[1] \in {EnableDeny, EnableAccept} ->
             enabled' = enabled \cup {n} /\ UNCHANGED installed
        [] OTHER -> /\ installed' = [installed EXCEPT ![n] = NoPolicy]
                    /\ enabled' = enabled \ {n}

(* rollbackFortiGateCommand, activateRestoredPolicy                        *)
UndoStep(s) ==
  /\ pc = "undoing"
  /\ Due(s)
  /\ Compensate(s)
  /\ undo' = undo \ {s}
  /\ UNCHANGED <<plan, before, pc, outcome, done, tried, undoError, unguarded, runs, crashes>>

(* An error is noted and the next compensation is made; what could not be  *)
(* created again is not enabled.                                           *)
UndoFails(s) ==
  /\ pc = "undoing"
  /\ Due(s)
  /\ Compensate(s) \/ UNCHANGED device
  /\ undo' = {t \in undo : t # s /\ ~(s[1] = Recreate /\ t[2] = s[2])}
  /\ undoError' = TRUE
  /\ unguarded' = (unguarded \/ s[1] < EnableAccept)
  /\ UNCHANGED <<plan, before, pc, outcome, done, tried, runs, crashes>>

FinishUndo ==
  /\ pc = "undoing"
  /\ undo = {}
  /\ pc' = "idle"
  /\ outcome' = IF undoError \/ tried = {} THEN "failed" ELSE "rolled back"
  /\ UNCHANGED <<plan, device, before, done, tried, undo, undoError, unguarded, runs, crashes>>

-----------------------------------------------------------------------------
(* The server dies; the protocol row stays "running".                      *)
Crash ==
  /\ pc # "idle"
  /\ crashes < MaxCrash
  /\ crashes' = crashes + 1
  /\ pc' = "idle"
  /\ undo' = {}
  /\ UNCHANGED <<plan, device, before, outcome, done, tried, undoError, unguarded, runs>>

Next ==
  \/ StartRun \/ RefuseRun
  \/ \E c \in Commands : ExecuteCommand(c) \/ CommandFails(c)
  \/ RunFails \/ Succeed
  \/ BindOutcomes \/ OutcomesUnknown
  \/ \E s \in undo : UndoStep(s) \/ UndoFails(s)
  \/ FinishUndo
  \/ Crash

Spec == Init /\ [][Next]_vars

-----------------------------------------------------------------------------
(* The tables hold policies, the run's variables commands and              *)
(* compensations of places.                                                *)
TypeOK ==
  /\ {base, desired, installed, before} \subseteq Tables
  /\ enabled \subseteq Configured(installed)
  /\ pc \in {"idle", "executing", "failing", "undoing"}
  /\ outcome \in {"none", "running", "succeeded", "rolled back", "failed"}
  /\ done \subseteq (1..5) \X Places
  /\ tried \subseteq (1..5) \X Places
  /\ undo \subseteq (1..7) \X Places
  /\ undoError \in BOOLEAN
  /\ unguarded \in BOOLEAN
  /\ runs \in Nat
  /\ crashes \in Nat

(* "DENYs become effective before any new/changed ACCEPT can broaden       *)
(* access" (executeDeployment) and new DENYs guard a compensation to its   *)
(* end (rollbackDeployment): the device never lets a packet through that   *)
(* both the approved base and the approved plan stop.  The code does not   *)
(* keep this as it stands.                                                 *)
Foreseen == Passing(base, Configured(base)) \cup Passing(desired, Configured(desired))

NoTransientOpening == Passing(installed, enabled) \subseteq Foreseen

(* A packet that a DENY stops and that the ACCEPT replacing it in its      *)
(* place does not match: nothing takes the place of the DENY before later  *)
(* ACCEPTs are narrowed or deleted.                                        *)
Narrowed(p) ==
  \E n \in Places : IsDeny(base[n]) /\ IsAccept(desired[n]) /\ p \in Match[base[n]] \ Match[desired[n]]

(* There are two causes for an opening and no other: an ACCEPT that        *)
(* narrows the DENY it replaces, and a failed compensation other than the  *)
(* enabling of an old ACCEPT and the removal of a new DENY, after which    *)
(* rollbackDeployment goes on to make those.  Whatever else fails or       *)
(* crashes, in any order, and however often the run is repeated, no packet *)
(* passes that base and plan both stop.                                    *)
OpeningsHaveACause ==
  unguarded \/ \A p \in Passing(installed, enabled) : p \in Foreseen \/ Narrowed(p)

(* What a run reports is what it leaves on the device: the plan after its  *)
(* last command, the snapshot after a compensation without errors, also if *)
(* answers were lost on the way (adminDeploy, rollback_succeeded).         *)
ReportIsTruthful ==
  /\ pc = "executing" /\ done = Commands
       => installed = desired /\ enabled = Configured(desired)
  /\ pc = "idle" /\ outcome = "succeeded" => installed = desired /\ enabled = Configured(desired)
  /\ pc = "idle" /\ outcome = "rolled back"
       => installed = before /\ enabled = Configured(before)
=============================================================================
