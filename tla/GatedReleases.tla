---------------------------- MODULE GatedReleases ----------------------------
(***************************************************************************)
(* What the administration keeps about devices and publications, with no   *)
(* protocol, lock, crash or handler in sight: a release leads from the one *)
(* before, which every target has been reported to run, or from some older *)
(* one; until a target is reported as deployed, rules of the old and the   *)
(* new release come and go on it; and what is reported stays as it is      *)
(* until the next release.  While every release leads from the one before, *)
(* it finds exactly that one on the devices, and what both have in common  *)
(* is never touched.  DeploymentGate implements it.                        *)
(*                                                                         *)
(* Sources: "makes the immediately previous publication a trustworthy      *)
(* device baseline" (deployment-runtime.go:950), the base of a plan        *)
(* (staging.go:21), the comparison of bases in front of the lock           *)
(* (admin.go:540), the final verification that a successful run has passed *)
(* (fortigate-deployment.go).                                              *)
(***************************************************************************)
CONSTANTS Targets, Rules

VARIABLES from,    \* rules of the release that the latest one leads from
          goal,    \* rules of the latest release
          devices, \* what the targets hold
          done,    \* targets reported as deployed
          straight \* has every release led from the one before?

grVars == <<from, goal, devices, done, straight>>

Docs == [Targets -> SUBSET Rules]

Empty == [t \in Targets |-> {}]

Init ==
  /\ from = Empty
  /\ goal = Empty
  /\ devices = Empty
  /\ done = {}
  /\ straight = TRUE

(* A revision of the latest release is published once every target with    *)
(* rules has been reported to run that one.                                *)
Release ==
  /\ \A t \in Targets : from[t] \cup goal[t] # {} => t \in done
  /\ straight => devices = goal
  /\ from' = goal
  /\ goal' \in Docs
  /\ done' = {}
  /\ UNCHANGED <<devices, straight>>

(* So is one of an older release, also before the latest is reported.      *)
ReleaseOnOlderBase ==
  /\ from' \in Docs
  /\ goal' \in Docs
  /\ done' = {}
  /\ straight' = FALSE
  /\ UNCHANGED devices

(* A deployment brings a rule or takes it away, forwards or, when it       *)
(* fails, backwards: only a rule of the plan, only on a target that has    *)
(* not been reported, and none that old and new rules have in common.      *)
Move(t, r) ==
  /\ t \notin done
  /\ r \in from[t] \cup goal[t]
  /\ straight => r \notin from[t] \cap goal[t]
  /\ \E held \in {devices[t] \cup {r}, devices[t] \ {r}} : devices' = [devices EXCEPT ![t] = held]
  /\ UNCHANGED <<from, goal, done, straight>>

(* A target runs the release: it has its rules and none that are gone.     *)
Runs(t) ==
  /\ goal[t] \subseteq devices[t]
  /\ (from[t] \ goal[t]) \cap devices[t] = {}
  /\ straight => devices[t] = goal[t]

(* A run is recorded as successful for its targets.                        *)
Report ==
  /\ done \subseteq done'
  /\ done' \subseteq {t \in Targets : Runs(t)}
  /\ UNCHANGED <<from, goal, devices, straight>>

Next ==
  \/ Release
  \/ ReleaseOnOlderBase
  \/ Report
  \/ \E t \in Targets, r \in Rules : Move(t, r)

Spec == Init /\ [][Next]_grVars
=============================================================================
