------------------------ MODULE FortiDeploymentProofs ------------------------
(***************************************************************************)
(* Theorems about FortiDeployment, for every size and contents of the      *)
(* table, every base and plan, and any number of runs and crashes.         *)
(*                                                                         *)
(* Typed adds to TypeOK that device and snapshot are mixtures of base and  *)
(* plan and that every compensation fits its place.  Faithful says what a  *)
(* place holds, given which commands are done (EffectiveAt), attempted     *)
(* (Attributed) and which compensations are pending (Compensated).         *)
(* Guarded adds the order of guards: no ACCEPT before the DENYs of the     *)
(* plan, no DENY given up but behind them (Safe).                          *)
(***************************************************************************)
EXTENDS FortiDeployment, TLAPS

-----------------------------------------------------------------------------
(* What a run knows of a place: it creates, deletes or updates its policy. *)
Gone(n) == before[n] # NoPolicy /\ desired[n] = NoPolicy
Kept(n) == before[n] # NoPolicy /\ desired[n] # NoPolicy

(* A table is a mixture of base and plan.                                  *)
Mixed(table) == \A n \in Places : table[n] \in {NoPolicy, base[n], desired[n]}

(* The device is a mixture of snapshot and plan.                           *)
Between == \A n \in Places : installed[n] \in {NoPolicy, before[n], desired[n]}

(* The compensations of a place are those of its kind.                     *)
Owed ==
  \A n \in Places :
    /\ <<Recreate, n>> \in undo => Gone(n)
    /\ <<RestoreDeny, n>> \in undo => Kept(n) /\ IsDeny(before[n])
    /\ <<EnableDeny, n>> \in undo => Gone(n) /\ IsDeny(before[n])
    /\ <<RemoveAccept, n>> \in undo => Created(n) /\ IsAccept(desired[n])
    /\ <<RestoreAccept, n>> \in undo => Kept(n) /\ IsAccept(before[n])
    /\ <<EnableAccept, n>> \in undo => Gone(n) /\ IsAccept(before[n])
    /\ <<RemoveDeny, n>> \in undo => Created(n) /\ IsDeny(desired[n])

(* What waits to be enabled is there once it need not be created again.    *)
Standing ==
  \A n \in Places :
    <<Recreate, n>> \notin undo /\ (<<EnableDeny, n>> \in undo \/ <<EnableAccept, n>> \in undo)
      => installed[n] = before[n]

Typed ==
  /\ TypeOK
  /\ Mixed(installed)
  /\ Mixed(before)
  /\ pc # "idle" => Between
  /\ pc = "undoing" => Owed /\ Standing

-----------------------------------------------------------------------------
(* Every difference between the device and the snapshot is the run's own   *)
(* and lies between the snapshot and the plan.                             *)
Attributed ==
  \A n \in Places :
    /\ Created(n) => installed[n] \in {NoPolicy, desired[n]}
    /\ Gone(n) => installed[n] = NoPolicy \/ (installed[n] = before[n] /\ n \in enabled)
    /\ Kept(n) => installed[n] \in {before[n], desired[n]} /\ n \in enabled
    /\ Changed(n) => Touched(n)

(* What a finished command has left, and what a pending one finds.         *)
EffectiveAt(n) ==
  /\ <<FinalizeDeny, n>> \in done \/ <<FinalizeAccept, n>> \in done
       => installed[n] = desired[n] /\ n \in enabled
  /\ <<DropAccept, n>> \in done \/ <<DropDeny, n>> \in done => installed[n] = NoPolicy
  /\ Created(n) /\ <<Prepare, n>> \notin done => installed[n] = NoPolicy

Effective == \A n \in Places : EffectiveAt(n)

(* What a pending compensation finds, and what a finished one has left.    *)
Compensated(n) ==
  /\ Created(n) /\ IsAccept(desired[n]) =>
       installed[n] = IF <<RemoveAccept, n>> \in undo THEN desired[n] ELSE NoPolicy
  /\ Created(n) /\ IsDeny(desired[n]) =>
       \/ installed[n] = IF <<RemoveDeny, n>> \in undo THEN desired[n] ELSE NoPolicy
       \/ undoError /\ installed[n] = desired[n]
  /\ Gone(n) /\ <<Recreate, n>> \in undo =>
       /\ installed[n] = NoPolicy
       /\ IF IsDeny(before[n]) THEN <<EnableDeny, n>> \in undo ELSE <<EnableAccept, n>> \in undo
  /\ Gone(n) /\ <<Recreate, n>> \notin undo =>
       /\ installed[n] = before[n]
       /\ IsDeny(before[n]) => (n \in enabled <=> <<EnableDeny, n>> \notin undo)
       /\ IsAccept(before[n]) /\ <<EnableAccept, n>> \notin undo => n \in enabled \/ undoError
       /\ <<EnableAccept, n>> \in undo => n \notin enabled
  /\ Kept(n) =>
       /\ n \in enabled
       /\ installed[n] = IF <<RestoreDeny, n>> \in undo \/ <<RestoreAccept, n>> \in undo
                         THEN desired[n] ELSE before[n]
  /\ before[n] = NoPolicy /\ desired[n] = NoPolicy => installed[n] = NoPolicy

(* Nothing that matters to the compensations behind it has failed.         *)
Orderly == ~undoError \/ ~unguarded

Faithful ==
  /\ Typed
  /\ pc # "idle" => outcome = "running" /\ tried \subseteq Commands
  /\ pc \in {"executing", "failing"} => Attributed /\ ~undoError
  /\ pc = "executing" => done \subseteq Commands /\ Effective
  /\ pc = "undoing" /\ Orderly =>
       \A n \in Places : Compensated(n) /\ (<<RestoreAccept, n>> \in undo => Touched(n))
  /\ pc = "idle" /\ outcome = "succeeded" => installed = desired /\ enabled = Configured(desired)
  /\ pc = "idle" /\ outcome = "rolled back"
       => installed = before /\ enabled = Configured(before)

-----------------------------------------------------------------------------
(* A live DENY at m stops what t stops at m.                               *)
Guards(table, on, t, m) == m \in on /\ IsDeny(table[m]) /\ Match[table[m]] = Match[t[m]]

(* Every DENY of the plan is in effect.                                    *)
Guarding(table, on) ==
  \A n \in Places : IsDeny(desired[n]) => Guards(table, on, desired, n)

(* No ACCEPT of the plan before all of its DENYs; a DENY of the base is    *)
(* only given up behind the plan's DENYs, to its own ACCEPT or after all   *)
(* ACCEPTs are the plan's.                                                 *)
Safe(table, on) ==
  /\ \A n \in on : IsAccept(table[n]) /\ table[n] # base[n] => Guarding(table, on)
  /\ \A m \in Places :
       IsDeny(base[m]) /\ ~Guards(table, on, base, m) =>
         /\ Guarding(table, on)
         /\ \/ IsAccept(desired[m])
            \/ /\ desired[m] = NoPolicy
               /\ \A n \in on : IsAccept(table[n]) => table[n] = desired[n]

(* What unsafeInPlaceDenyMatchChange approves.                             *)
Approved ==
  /\ {base, desired} \subseteq Tables
  /\ \A n \in Places : ApprovedUpdate(base[n], desired[n])

Guarded ==
  /\ Approved
  /\ Faithful
  /\ ~unguarded => Safe(installed, enabled) /\ (pc # "idle" => Safe(before, Configured(before)))

-----------------------------------------------------------------------------
(* Writing to the device.                                                  *)

(* Place n holds c from now on, enabled or disabled.                       *)
Wrote(n, c, on) ==
  /\ installed' = [installed EXCEPT ![n] = c]
  /\ enabled' = IF on THEN enabled \cup {n} ELSE enabled \ {n}

CommandWrites(c, n) ==
  \/ c = <<Prepare, n>> /\ Created(n) /\ Wrote(n, desired[n], FALSE)
  \/ c = <<FinalizeDeny, n>> /\ IsDeny(desired[n]) /\ Wrote(n, desired[n], TRUE)
  \/ c = <<DropAccept, n>> /\ Obsolete(n) /\ IsAccept(base[n]) /\ Wrote(n, NoPolicy, FALSE)
  \/ c = <<FinalizeAccept, n>> /\ IsAccept(desired[n]) /\ Wrote(n, desired[n], TRUE)
  \/ c = <<DropDeny, n>> /\ Obsolete(n) /\ IsDeny(base[n]) /\ Wrote(n, NoPolicy, FALSE)

UndoWrites(s, n) ==
  \/ s = <<Recreate, n>> /\ Gone(n) /\ Wrote(n, before[n], FALSE)
  \/ s = <<RestoreDeny, n>> /\ Kept(n) /\ IsDeny(before[n]) /\ Wrote(n, before[n], TRUE)
  \/ s = <<EnableDeny, n>> /\ Gone(n) /\ IsDeny(before[n]) /\ Wrote(n, before[n], TRUE)
  \/ s = <<RemoveAccept, n>> /\ Created(n) /\ IsAccept(desired[n]) /\ Wrote(n, NoPolicy, FALSE)
  \/ s = <<RestoreAccept, n>> /\ Kept(n) /\ IsAccept(before[n]) /\ Wrote(n, before[n], TRUE)
  \/ s = <<EnableAccept, n>> /\ Gone(n) /\ IsAccept(before[n]) /\ Wrote(n, before[n], TRUE)
  \/ s = <<RemoveDeny, n>> /\ Created(n) /\ IsDeny(desired[n]) /\ Wrote(n, NoPolicy, FALSE)

LEMMA WriteEffect ==
  ASSUME TypeOK, NEW n \in Places, NEW c \in Policies \cup {NoPolicy}, NEW on \in BOOLEAN,
         on => c # NoPolicy, Wrote(n, c, on)
  PROVE  /\ installed' \in Tables
         /\ enabled' \subseteq Configured(installed')
         /\ installed'[n] = c
         /\ n \in enabled' <=> on
         /\ \A m \in Places \ {n} : installed'[m] = installed[m] /\ (m \in enabled' <=> m \in enabled)
BY DEF TypeOK, Tables, Configured, Wrote

(* Every command is one of five on a place.                                *)
LEMMA CommandKinds ==
  ASSUME NEW c \in Commands
  PROVE  \E n \in Places :
           \/ c = <<Prepare, n>> /\ Created(n)
           \/ c = <<FinalizeDeny, n>> /\ IsDeny(desired[n])
           \/ c = <<DropAccept, n>> /\ Obsolete(n) /\ IsAccept(base[n])
           \/ c = <<FinalizeAccept, n>> /\ IsAccept(desired[n])
           \/ c = <<DropDeny, n>> /\ Obsolete(n) /\ IsDeny(base[n])
BY DEF Commands

LEMMA CommandsTyped == Commands \subseteq (1..5) \X Places
BY CommandKinds DEF Prepare, FinalizeDeny, DropAccept, FinalizeAccept, DropDeny

LEMMA ApplyWrites ==
  ASSUME NEW c \in Commands, Apply(c)
  PROVE  \E n \in Places : CommandWrites(c, n)
<1>1. PICK n \in Places :
        \/ c = <<Prepare, n>> /\ Created(n)
        \/ c = <<FinalizeDeny, n>> /\ IsDeny(desired[n])
        \/ c = <<DropAccept, n>> /\ Obsolete(n) /\ IsAccept(base[n])
        \/ c = <<FinalizeAccept, n>> /\ IsAccept(desired[n])
        \/ c = <<DropDeny, n>> /\ Obsolete(n) /\ IsDeny(base[n])
  BY CommandKinds
<1>2. CASE c = <<Prepare, n>> /\ Created(n)
  BY <1>2 DEF Apply, CommandWrites, Wrote, Prepare, FinalizeDeny, FinalizeAccept
<1>3. CASE c = <<FinalizeDeny, n>> /\ IsDeny(desired[n])
  BY <1>3 DEF Apply, CommandWrites, Wrote, Prepare, FinalizeDeny, FinalizeAccept
<1>4. CASE c = <<DropAccept, n>> /\ Obsolete(n) /\ IsAccept(base[n])
  BY <1>4 DEF Apply, CommandWrites, Wrote, Prepare, FinalizeDeny, FinalizeAccept, DropAccept
<1>5. CASE c = <<FinalizeAccept, n>> /\ IsAccept(desired[n])
  BY <1>5 DEF Apply, CommandWrites, Wrote, Prepare, FinalizeDeny, FinalizeAccept
<1>6. CASE c = <<DropDeny, n>> /\ Obsolete(n) /\ IsDeny(base[n])
  BY <1>6 DEF Apply, CommandWrites, Wrote, Prepare, FinalizeDeny, FinalizeAccept, DropDeny
<1> QED
  BY <1>1, <1>2, <1>3, <1>4, <1>5, <1>6

LEMMA UndoKinds ==
  ASSUME TypeOK, Owed, NEW s \in undo
  PROVE  \E n \in Places :
           \/ s = <<Recreate, n>> /\ Gone(n)
           \/ s = <<RestoreDeny, n>> /\ Kept(n) /\ IsDeny(before[n])
           \/ s = <<EnableDeny, n>> /\ Gone(n) /\ IsDeny(before[n])
           \/ s = <<RemoveAccept, n>> /\ Created(n) /\ IsAccept(desired[n])
           \/ s = <<RestoreAccept, n>> /\ Kept(n) /\ IsAccept(before[n])
           \/ s = <<EnableAccept, n>> /\ Gone(n) /\ IsAccept(before[n])
           \/ s = <<RemoveDeny, n>> /\ Created(n) /\ IsDeny(desired[n])
<1>0. s \in (1..7) \X Places
  BY DEF TypeOK
<1>1. PICK g \in 1..7, n \in Places : s = <<g, n>>
  BY <1>0
<1>2. g \in {1, 2, 3, 4, 5, 6, 7}
  BY <1>1
<1> QED
  BY <1>1, <1>2 DEF Owed, Recreate, RestoreDeny, EnableDeny, RemoveAccept, RestoreAccept, EnableAccept, RemoveDeny

LEMMA CompensateWrites ==
  ASSUME TypeOK, Owed, Standing, NEW s \in undo, Due(s), Compensate(s)
  PROVE  \E n \in Places : UndoWrites(s, n)
<1> USE DEF Recreate, RestoreDeny, EnableDeny, RemoveAccept, RestoreAccept, EnableAccept, RemoveDeny
<1>1. PICK n \in Places :
        \/ s = <<Recreate, n>> /\ Gone(n)
        \/ s = <<RestoreDeny, n>> /\ Kept(n) /\ IsDeny(before[n])
        \/ s = <<EnableDeny, n>> /\ Gone(n) /\ IsDeny(before[n])
        \/ s = <<RemoveAccept, n>> /\ Created(n) /\ IsAccept(desired[n])
        \/ s = <<RestoreAccept, n>> /\ Kept(n) /\ IsAccept(before[n])
        \/ s = <<EnableAccept, n>> /\ Gone(n) /\ IsAccept(before[n])
        \/ s = <<RemoveDeny, n>> /\ Created(n) /\ IsDeny(desired[n])
  BY UndoKinds
<1>2. CASE s = <<Recreate, n>> /\ Gone(n)
  BY <1>2 DEF Compensate, UndoWrites, Wrote
<1>3. CASE s = <<RestoreDeny, n>> /\ Kept(n) /\ IsDeny(before[n])
  BY <1>3 DEF Compensate, UndoWrites, Wrote
<1>4. CASE s[1] \in {EnableDeny, EnableAccept} /\ s[2] = n
  <2>1. <<Recreate, n>> \notin undo
    BY <1>4 DEF Due, UndoPrecedes
  <2>a. \/ s = <<EnableDeny, n>> /\ Gone(n) /\ IsDeny(before[n])
        \/ s = <<EnableAccept, n>> /\ Gone(n) /\ IsAccept(before[n])
    BY <1>1, <1>4
  <2>2. installed[n] = before[n]
    BY <2>1, <2>a DEF Standing
  <2>3. [installed EXCEPT ![n] = before[n]] = installed
    BY <2>2 DEF TypeOK, Tables
  <2>4. Wrote(n, before[n], TRUE)
    BY <1>4, <2>3 DEF Compensate, Wrote
  <2> QED
    BY <2>a, <2>4 DEF UndoWrites
<1>5. CASE s = <<RemoveAccept, n>> /\ Created(n) /\ IsAccept(desired[n])
  BY <1>5 DEF Compensate, UndoWrites, Wrote
<1>6. CASE s = <<RestoreAccept, n>> /\ Kept(n) /\ IsAccept(before[n])
  BY <1>6 DEF Compensate, UndoWrites, Wrote
<1>7. CASE s = <<RemoveDeny, n>> /\ Created(n) /\ IsDeny(desired[n])
  BY <1>7 DEF Compensate, UndoWrites, Wrote
<1> QED
  BY <1>1, <1>2, <1>3, <1>4, <1>5, <1>6, <1>7

-----------------------------------------------------------------------------
(* Types.                                                                  *)

LEMMA DeviceTyped ==
  ASSUME Typed, Between, NEW n \in Places, NEW c \in {NoPolicy, desired[n], before[n]},
         NEW on \in BOOLEAN, on => c # NoPolicy, Wrote(n, c, on), UNCHANGED <<plan, before>>
  PROVE  /\ installed' \in Tables
         /\ enabled' \subseteq Configured(installed')
         /\ Mixed(installed)' /\ Mixed(before)' /\ Between'
<1>1. TypeOK /\ Mixed(installed) /\ Mixed(before)
  BY DEF Typed
<1>2. c \in Policies \cup {NoPolicy}
  BY <1>1 DEF TypeOK, Tables
<1>3. /\ installed' \in Tables
      /\ enabled' \subseteq Configured(installed')
      /\ installed'[n] = c
      /\ \A m \in Places \ {n} : installed'[m] = installed[m]
  BY <1>1, <1>2, WriteEffect
<1>4. Mixed(before)'
  BY <1>1 DEF Mixed, plan
<1>5. c \in {NoPolicy, base[n], desired[n]}
  BY <1>1 DEF Mixed
<1>6. Mixed(installed)'
  BY <1>1, <1>3, <1>5 DEF Mixed, plan
<1>7. Between'
  BY <1>3 DEF Between, plan
<1> QED
  BY <1>3, <1>4, <1>6, <1>7

LEMMA CommandTyped ==
  ASSUME Typed, Between, NEW c \in Commands, Apply(c), UNCHANGED <<plan, before>>
  PROVE  /\ installed' \in Tables
         /\ enabled' \subseteq Configured(installed')
         /\ Mixed(installed)' /\ Mixed(before)' /\ Between'
<1>1. PICK n \in Places : CommandWrites(c, n)
  BY ApplyWrites
<1>2. CASE Wrote(n, desired[n], FALSE)
  BY <1>2, DeviceTyped
<1>3. CASE desired[n] # NoPolicy /\ Wrote(n, desired[n], TRUE)
  BY <1>3, DeviceTyped
<1>4. CASE Wrote(n, NoPolicy, FALSE)
  BY <1>4, DeviceTyped
<1> QED
  BY <1>1, <1>2, <1>3, <1>4 DEF CommandWrites, IsAccept, IsDeny

LEMMA UndoTyped ==
  ASSUME Typed, Between, NEW n \in Places, NEW s, UndoWrites(s, n), UNCHANGED <<plan, before>>
  PROVE  /\ installed' \in Tables
         /\ enabled' \subseteq Configured(installed')
         /\ Mixed(installed)' /\ Mixed(before)' /\ Between'
<1>2. CASE Wrote(n, before[n], FALSE)
  BY <1>2, DeviceTyped
<1>3. CASE before[n] # NoPolicy /\ Wrote(n, before[n], TRUE)
  BY <1>3, DeviceTyped
<1>4. CASE Wrote(n, NoPolicy, FALSE)
  BY <1>4, DeviceTyped
<1> QED
  BY <1>2, <1>3, <1>4 DEF UndoWrites, Gone, Kept

LEMMA OwedKept ==
  ASSUME Owed, undo' \subseteq undo, UNCHANGED <<plan, before>>
  PROVE  Owed'
BY DEF Owed, Gone, Kept, Created, IsAccept, IsDeny, plan

(* The place of a compensation.                                            *)
LEMMA UndoPlace ==
  ASSUME NEW n, NEW s, UndoWrites(s, n)
  PROVE  s[2] = n
<1>1. CASE s \in {<<Recreate, n>>, <<RestoreDeny, n>>, <<EnableDeny, n>>, <<RemoveAccept, n>>,
                  <<RestoreAccept, n>>, <<EnableAccept, n>>, <<RemoveDeny, n>>}
  BY <1>1
<1> QED
  BY <1>1, Zenon DEF UndoWrites

LEMMA StandingKept ==
  ASSUME TypeOK, Owed, Standing, NEW n \in Places, NEW s \in undo, UndoWrites(s, n),
         undo' \subseteq undo, \A t \in undo : t[2] # n => t \in undo', UNCHANGED <<plan, before>>
  PROVE  Standing'
<1> USE DEF Recreate, RestoreDeny, EnableDeny, RemoveAccept, RestoreAccept, EnableAccept, RemoveDeny
<1> SUFFICES ASSUME NEW m \in Places, <<Recreate, m>> \notin undo',
                    <<EnableDeny, m>> \in undo' \/ <<EnableAccept, m>> \in undo'
             PROVE  installed'[m] = before[m]
  BY DEF Standing
<1>1. CASE m # n
  <2>1. installed'[m] = installed[m]
    BY <1>1 DEF UndoWrites, Wrote, TypeOK, Tables
  <2>2. <<Recreate, m>> \notin undo
    BY <1>1
  <2> QED
    BY <2>1, <2>2 DEF Standing
<1>2. CASE m = n
  <2>1. Gone(n)
    BY <1>2 DEF Owed
  <2>2. Wrote(n, before[n], TRUE) \/ Wrote(n, before[n], FALSE)
    BY <2>1 DEF UndoWrites, Gone, Created
  <2>3. installed' = [installed EXCEPT ![n] = before[n]]
    BY <2>2 DEF Wrote
  <2> QED
    BY <1>2, <2>3 DEF TypeOK, Tables
<1> QED
  BY <1>1, <1>2

LEMMA StandingDropped ==
  ASSUME Standing, NEW s \in undo, UNCHANGED <<plan, before, installed>>,
         undo' = {t \in undo : t # s /\ ~(s[1] = Recreate /\ t[2] = s[2])}
  PROVE  Standing'
<1> USE DEF Recreate, EnableDeny, EnableAccept
<1> SUFFICES ASSUME NEW m \in Places, <<Recreate, m>> \notin undo',
                    <<EnableDeny, m>> \in undo' \/ <<EnableAccept, m>> \in undo'
             PROVE  installed'[m] = before[m]
  BY DEF Standing
<1>1. <<Recreate, m>> \notin undo
  OBVIOUS
<1> QED
  BY <1>1 DEF Standing

LEMMA CompensationsOwed ==
  ASSUME TypeOK, Between, undo' = Compensations, UNCHANGED <<plan, before>>
  PROVE  Owed' /\ Standing' /\ undo' \subseteq (1..7) \X Places
<1> USE DEF Recreate, RestoreDeny, EnableDeny, RemoveAccept, RestoreAccept, EnableAccept, RemoveDeny
<1> DEFINE Mutated == {n \in Places : Touched(n) /\ Changed(n)}
<1>1. \A n \in Places :
        /\ <<1, n>> \in undo' => n \in Mutated /\ desired[n] = NoPolicy
        /\ <<2, n>> \in undo' => n \in Mutated /\ desired[n] # NoPolicy /\ ~Created(n) /\ IsDeny(before[n])
        /\ <<3, n>> \in undo' => n \in Mutated /\ desired[n] = NoPolicy /\ IsDeny(before[n])
        /\ <<4, n>> \in undo' => Created(n) /\ IsAccept(desired[n])
        /\ <<5, n>> \in undo' => n \in Mutated /\ desired[n] # NoPolicy /\ ~Created(n) /\ IsAccept(before[n])
        /\ <<6, n>> \in undo' => n \in Mutated /\ desired[n] = NoPolicy /\ IsAccept(before[n])
        /\ <<7, n>> \in undo' => Created(n) /\ IsDeny(desired[n])
        /\ <<3, n>> \in undo' \/ <<6, n>> \in undo' => <<1, n>> \in undo'
  BY DEF Compensations
<1>2. \A n \in Places : n \in Mutated => (desired[n] # NoPolicy /\ ~Created(n) => Kept(n))
                                     /\ (desired[n] = NoPolicy => Gone(n))
  BY DEF Created, Kept, Gone, Changed, Between
<1>3. Owed'
  BY <1>1, <1>2 DEF Owed, plan, Gone, Kept, Created, IsAccept, IsDeny
<1>4. Standing'
  BY <1>1 DEF Standing
<1>5. undo' \subseteq (1..7) \X Places
  BY DEF Compensations
<1> QED
  BY <1>3, <1>4, <1>5

LEMMA InitTyped ==
  ASSUME Init
  PROVE  Typed
<1> USE DeploymentAssumption DEF Init
<1>1. {base, desired, installed, before} \subseteq Tables
  OBVIOUS
<1>2. enabled \subseteq Configured(installed)
  OBVIOUS
<1>3. TypeOK
  BY <1>1, <1>2 DEF TypeOK
<1> QED
  BY <1>3 DEF Typed, Mixed

LEMMA NextTyped ==
  ASSUME Typed, [Next]_vars
  PROVE  Typed'
<1> USE DEF Typed
<1>0. runs \in Nat /\ crashes \in Nat /\ undo \subseteq (1..7) \X Places
  BY DEF TypeOK
<1>1. CASE StartRun
  <2>0. /\ UNCHANGED <<base, desired, installed, enabled, undo, unguarded, crashes>>
        /\ before' = installed /\ pc' = "executing" /\ outcome' = "running"
        /\ done' = {} /\ tried' = {} /\ undoError' = FALSE /\ runs' = runs + 1
    BY <1>1 DEF StartRun, plan, device
  <2>a. runs' \in Nat
    BY <2>0, <1>0
  <2>b. enabled' \subseteq Configured(installed')
    BY <2>0 DEF TypeOK, Configured
  <2>1. TypeOK'
    BY <2>0, <2>a, <2>b DEF TypeOK
  <2> QED
    BY <1>1, <2>1 DEF StartRun, Mixed, Between, plan, device
<1>2. CASE RefuseRun
  <2>0. /\ UNCHANGED <<base, desired, installed, enabled, before, pc, done, tried, undo, undoError, unguarded, crashes>>
        /\ outcome' = "failed" /\ runs' = runs + 1
    BY <1>2 DEF RefuseRun, plan, device
  <2>a. runs' \in Nat
    BY <2>0, <1>0
  <2>b. enabled' \subseteq Configured(installed')
    BY <2>0 DEF TypeOK, Configured
  <2>1. TypeOK'
    BY <2>0, <2>a, <2>b DEF TypeOK
  <2> QED
    BY <1>2, <2>1 DEF RefuseRun, Mixed, plan, device
<1>3. ASSUME NEW c \in Commands, ExecuteCommand(c) PROVE Typed'
  <2>1. Between /\ UNCHANGED <<plan, before, pc, outcome, undo, undoError, unguarded, runs, crashes>>
    BY <1>3 DEF ExecuteCommand
  <2>2. /\ installed' \in Tables /\ enabled' \subseteq Configured(installed')
        /\ Mixed(installed)' /\ Mixed(before)' /\ Between'
    <3>1. CASE UNCHANGED device
      BY <2>1, <3>1 DEF TypeOK, Mixed, Between, plan, device, Configured
    <3>2. CASE Apply(c)
      BY <2>1, <3>2, CommandTyped
    <3> QED
      BY <1>3, <3>1, <3>2 DEF ExecuteCommand
  <2>3. done' \subseteq (1..5) \X Places /\ tried' \subseteq (1..5) \X Places
    BY <1>3, CommandsTyped DEF ExecuteCommand, TypeOK
  <2>4. TypeOK'
    BY <2>1, <2>2, <2>3 DEF TypeOK, plan
  <2>5. pc' # "undoing"
    BY <1>3, <2>1 DEF ExecuteCommand
  <2> QED
    BY <2>2, <2>4, <2>5
<1>4. ASSUME NEW c \in Commands, CommandFails(c) PROVE Typed'
  <2>1. /\ Between /\ UNCHANGED <<plan, before, outcome, done, undo, undoError, unguarded, runs, crashes>>
        /\ pc' = "failing"
    BY <1>4 DEF CommandFails
  <2>2. /\ installed' \in Tables /\ enabled' \subseteq Configured(installed')
        /\ Mixed(installed)' /\ Mixed(before)' /\ Between'
    <3>1. CASE UNCHANGED device
      BY <2>1, <3>1 DEF TypeOK, Mixed, Between, plan, device, Configured
    <3>2. CASE Apply(c)
      BY <2>1, <3>2, CommandTyped
    <3> QED
      BY <1>4, <3>1, <3>2 DEF CommandFails
  <2>3. tried' \subseteq (1..5) \X Places
    BY <1>4, CommandsTyped DEF CommandFails, TypeOK
  <2>4. TypeOK'
    BY <2>1, <2>2, <2>3 DEF TypeOK, plan
  <2> QED
    BY <2>1, <2>2, <2>4
<1>5. CASE RunFails \/ Succeed \/ OutcomesUnknown \/ FinishUndo \/ Crash
  <2>1. /\ UNCHANGED <<plan, device, before, done, tried, undoError, unguarded, runs>>
        /\ undo' = undo \/ undo' = {}
        /\ crashes' = crashes \/ crashes' = crashes + 1
        /\ pc' \in {"idle", "failing"} /\ (pc' = "failing" => pc = "executing")
        /\ outcome' \in {outcome, "succeeded", "failed", "rolled back"}
    BY <1>5 DEF RunFails, Succeed, OutcomesUnknown, FinishUndo, Crash
  <2>d. crashes' = crashes \/ crashes' = crashes + 1
    BY <2>1
  <2>a. crashes' \in Nat
    BY <2>d, <1>0
  <2>c. undo' \subseteq (1..7) \X Places
    BY <2>1, <1>0
  <2>b. enabled' \subseteq Configured(installed')
    BY <2>1 DEF TypeOK, Configured, device
  <2>2. TypeOK'
    BY <2>1, <2>a, <2>b, <2>c DEF TypeOK, plan, device
  <2> QED
    BY <2>1, <2>2 DEF Mixed, Between, plan, device
<1>6. CASE BindOutcomes
  <2>1. /\ UNCHANGED <<plan, device, before, outcome, done, tried, undoError, unguarded, runs, crashes>>
        /\ pc' = "undoing" /\ Between /\ undo' = Compensations
    BY <1>6 DEF BindOutcomes
  <2>2. Owed' /\ Standing' /\ undo' \subseteq (1..7) \X Places
    BY <2>1, CompensationsOwed
  <2>3. TypeOK'
    BY <2>1, <2>2 DEF TypeOK, plan, device, Configured
  <2> QED
    BY <2>1, <2>2, <2>3 DEF Mixed, Between, plan, device
<1>7. ASSUME NEW s \in undo, UndoStep(s) PROVE Typed'
  <2>1. /\ UNCHANGED <<plan, before, pc, outcome, done, tried, undoError, unguarded, runs, crashes>>
        /\ Between /\ Owed /\ Standing /\ Due(s) /\ Compensate(s) /\ undo' = undo \ {s}
    BY <1>7 DEF UndoStep
  <2>2. PICK n \in Places : UndoWrites(s, n)
    BY <2>1, CompensateWrites
  <2>3. /\ installed' \in Tables /\ enabled' \subseteq Configured(installed')
        /\ Mixed(installed)' /\ Mixed(before)' /\ Between'
    BY <2>1, <2>2, UndoTyped
  <2>a. \A t \in undo : t[2] # n => t \in undo'
    BY <2>1, <2>2, UndoPlace
  <2>4. Owed' /\ Standing'
    BY <2>1, <2>2, <2>a, OwedKept, StandingKept
  <2>5. TypeOK'
    BY <2>1, <2>3 DEF TypeOK, plan
  <2> QED
    BY <2>3, <2>4, <2>5
<1>8. ASSUME NEW s \in undo, UndoFails(s) PROVE Typed'
  <2>1. /\ UNCHANGED <<plan, before, pc, outcome, done, tried, runs, crashes>>
        /\ Between /\ Owed /\ Standing /\ Due(s) /\ undoError'
        /\ unguarded' = (unguarded \/ s[1] < EnableAccept)
        /\ undo' = {t \in undo : t # s /\ ~(s[1] = Recreate /\ t[2] = s[2])}
        /\ Compensate(s) \/ UNCHANGED device
    BY <1>8 DEF UndoFails
  <2>2. undo' \subseteq undo /\ Owed'
    BY <2>1, OwedKept
  <2>3. CASE UNCHANGED device
    <3>1. Standing'
      BY <2>1, <2>3, StandingDropped DEF device
    <3>2. TypeOK'
      BY <2>1, <2>2, <2>3, <1>8 DEF UndoFails, TypeOK, plan, device, Configured
    <3> QED
      BY <2>1, <2>2, <2>3, <3>1, <3>2 DEF Mixed, Between, plan, device
  <2>4. CASE Compensate(s)
    <3>1. PICK n \in Places : UndoWrites(s, n)
      BY <2>1, <2>4, CompensateWrites
    <3>2. /\ installed' \in Tables /\ enabled' \subseteq Configured(installed')
          /\ Mixed(installed)' /\ Mixed(before)' /\ Between'
      BY <2>1, <3>1, UndoTyped
    <3>3. Standing'
      <4>1. \A t \in undo : t[2] # n => t \in undo'
        BY <2>1, <3>1, UndoPlace
      <4> QED
        BY <2>1, <2>2, <3>1, <4>1, StandingKept
    <3>4. TypeOK'
      BY <2>1, <2>2, <3>2, <1>8 DEF UndoFails, TypeOK, plan
    <3> QED
      BY <2>2, <3>2, <3>3, <3>4
  <2> QED
    BY <2>1, <2>3, <2>4
<1>9. CASE UNCHANGED vars
  <2>1. TypeOK'
    BY <1>9 DEF vars, TypeOK, plan, device, Configured
  <2> QED
    BY <1>9, <2>1 DEF vars, Mixed, Between, Owed, Standing, Gone, Kept, Created, IsAccept, IsDeny, plan, device
<1> QED
  BY <1>1, <1>2, <1>3, <1>4, <1>5, <1>6, <1>7, <1>8, <1>9 DEF Next

(* The tables, the run and the compensations keep their types, for every   *)
(* table, every set of failing compensations and any number of crashes.    *)
THEOREM ExecutorTyped == Spec => []TypeOK
<1>1. Init => Typed
  BY InitTyped
<1>2. Typed /\ [Next]_vars => Typed'
  BY NextTyped
<1>3. Typed => TypeOK
  BY DEF Typed
<1> QED
  BY <1>1, <1>2, <1>3, PTL DEF Spec

-----------------------------------------------------------------------------
(* The report.                                                             *)

LEMMA AcceptOrDeny ==
  ASSUME NEW c \in Policies \cup {NoPolicy}
  PROVE  /\ c # NoPolicy => IsAccept(c) \/ IsDeny(c)
         /\ ~(IsAccept(c) /\ IsDeny(c))
<1>1. c # NoPolicy => Action[c] \in {"accept", "deny"}
  BY DeploymentAssumption
<1> QED
  BY <1>1 DEF IsAccept, IsDeny

LEMMA CommandsAt ==
  ASSUME NEW n \in Places
  PROVE  /\ <<Prepare, n>> \in Commands <=> Created(n)
         /\ <<FinalizeDeny, n>> \in Commands <=> IsDeny(desired[n])
         /\ <<DropAccept, n>> \in Commands <=> Obsolete(n) /\ IsAccept(base[n])
         /\ <<FinalizeAccept, n>> \in Commands <=> IsAccept(desired[n])
         /\ <<DropDeny, n>> \in Commands <=> Obsolete(n) /\ IsDeny(base[n])
BY DEF Commands, Prepare, FinalizeDeny, DropAccept, FinalizeAccept, DropDeny

LEMMA CommandsFixed ==
  ASSUME UNCHANGED <<plan, before>>
  PROVE  Commands' = Commands
BY DEF Commands, Created, Obsolete, IsAccept, IsDeny, plan

LEMMA StartAttributed ==
  ASSUME Typed, StartRun
  PROVE  Attributed' /\ Effective'
<1>1. /\ UNCHANGED <<base, desired, installed, enabled>>
      /\ before' = installed /\ done' = {}
      /\ \A n \in Places : installed[n] # NoPolicy => n \in enabled
  BY DEF StartRun, plan, device, Snapshotable, Configured
<1>2. Attributed'
  BY <1>1 DEF Attributed, Created, Gone, Kept, Changed
<1>3. Effective'
  BY <1>1 DEF Effective, EffectiveAt, Created
<1> QED
  BY <1>2, <1>3

LEMMA CommandAttributed ==
  ASSUME Typed, Attributed, NEW c \in Commands, Apply(c), tried' = tried \cup {c},
         UNCHANGED <<plan, before>>
  PROVE  Attributed'
<1>1. PICK n \in Places : CommandWrites(c, n)
  BY ApplyWrites
<1>2. c[2] = n
  <2>1. CASE c \in {<<Prepare, n>>, <<FinalizeDeny, n>>, <<DropAccept, n>>,
                    <<FinalizeAccept, n>>, <<DropDeny, n>>}
    BY <2>1
  <2> QED
    BY <1>1, <2>1, Zenon DEF CommandWrites
<1>3. \A m \in Places : (Touched(m) => Touched(m)') /\ Touched(n)'
  BY <1>2 DEF Touched
<1>4. UNCHANGED <<base, desired, before>>
  BY DEF plan
<1>5. ASSUME NEW m \in Places, m # n
      PROVE  installed'[m] = installed[m] /\ (m \in enabled' <=> m \in enabled)
  <2>1. PICK d, on : Wrote(n, d, on)
    BY <1>1 DEF CommandWrites
  <2> QED
    BY <1>5, <2>1 DEF Wrote, Typed, TypeOK, Tables
<1>6. /\ Created(n) => installed'[n] \in {NoPolicy, desired[n]}
      /\ Gone(n) => installed'[n] = NoPolicy
      /\ Kept(n) => installed'[n] = desired[n] /\ n \in enabled'
  BY <1>1 DEF CommandWrites, Created, Gone, Kept, Obsolete, IsAccept, IsDeny, Wrote, Typed, TypeOK, Tables
<1> QED
  BY <1>3, <1>4, <1>5, <1>6 DEF Attributed, Created, Gone, Kept, Changed

LEMMA CommandEffective ==
  ASSUME Typed, Effective, done \subseteq Commands, NEW c \in Commands, Ready(c),
         \/ Apply(c)
         \/ AlreadyDesired(c) /\ UNCHANGED device,
         done' = done \cup {c}, UNCHANGED <<plan, before>>
  PROVE  Effective'
<1> USE DEF Prepare, FinalizeDeny, DropAccept, FinalizeAccept, DropDeny
<1>1. PICK n \in Places, k \in 1..5 : c = <<k, n>>
  BY CommandsTyped
<1>2. UNCHANGED <<base, desired, before>>
  BY DEF plan
<1>3. ASSUME NEW m \in Places, m # n
      PROVE  /\ installed'[m] = installed[m] /\ (m \in enabled' <=> m \in enabled)
             /\ \A i \in {1, 2, 3, 4, 5} : <<i, m>> \in done' <=> <<i, m>> \in done
  <2>1. CASE Apply(c)
    <3>1. PICK d, on : Wrote(n, d, on)
      <4>1. PICK i \in Places : CommandWrites(c, i)
        BY <2>1, ApplyWrites
      <4>2. i = n
        BY <1>1, <4>1 DEF CommandWrites
      <4> QED
        BY <4>1, <4>2 DEF CommandWrites
    <3> QED
      BY <1>1, <1>3, <3>1 DEF Wrote, Typed, TypeOK, Tables
  <2>2. CASE UNCHANGED device
    BY <1>1, <1>3, <2>2 DEF device
  <2> QED
    BY <2>1, <2>2
<1> SUFFICES EffectiveAt(n)'
  <2>1. ASSUME NEW m \in Places, m # n
        PROVE  EffectiveAt(m)'
    <3>1. EffectiveAt(m)
      BY DEF Effective
    <3> QED
      BY <1>2, <1>3, <2>1, <3>1 DEF EffectiveAt, Created
  <2> QED
    BY <2>1 DEF Effective
<1>4. ASSUME k \in {FinalizeDeny, FinalizeAccept}, Created(n)
      PROVE  <<Prepare, n>> \in done
  <2>1. <<Prepare, n>> \in Commands
    BY <1>4, CommandsAt
  <2>2. Precedes(<<Prepare, n>>, c)
    BY <1>1, <1>4 DEF Precedes
  <2> QED
    BY <2>1, <2>2 DEF Ready
<1>5. CASE Apply(c)
  <2>1. CommandWrites(c, n)
    BY <1>1, <1>5, ApplyWrites DEF CommandWrites
  <2>2. CASE c = <<Prepare, n>> /\ Created(n) /\ Wrote(n, desired[n], FALSE)
    <3>1. installed'[n] = desired[n] /\ desired[n] # NoPolicy
      BY <2>2 DEF Wrote, Created, Typed, TypeOK, Tables
    <3>2. c \notin done /\ installed[n] = NoPolicy
      BY <2>2 DEF Ready, Effective, EffectiveAt
    <3>3. <<FinalizeDeny, n>> \notin done /\ <<FinalizeAccept, n>> \notin done
      BY <3>1, <3>2 DEF Effective, EffectiveAt
    <3>4. <<DropAccept, n>> \notin done /\ <<DropDeny, n>> \notin done
      BY <3>1, CommandsAt DEF Obsolete
    <3> QED
      BY <1>2, <2>2, <3>3, <3>4 DEF EffectiveAt, Created
  <2>3. CASE k \in {FinalizeDeny, FinalizeAccept} /\ desired[n] # NoPolicy /\ Wrote(n, desired[n], TRUE)
    <3>1. installed'[n] = desired[n] /\ n \in enabled'
      BY <2>3 DEF Wrote, Typed, TypeOK, Tables
    <3>2. <<DropAccept, n>> \notin done /\ <<DropDeny, n>> \notin done
      BY <2>3, CommandsAt DEF Obsolete
    <3> QED
      BY <1>1, <1>2, <1>4, <2>3, <3>1, <3>2 DEF EffectiveAt, Created
  <2>4. CASE k \in {DropAccept, DropDeny} /\ Obsolete(n) /\ Wrote(n, NoPolicy, FALSE)
    <3>1. installed'[n] = NoPolicy /\ ~Created(n)
      BY <2>4 DEF Wrote, Obsolete, Created, Typed, TypeOK, Tables
    <3>2. <<FinalizeDeny, n>> \notin done /\ <<FinalizeAccept, n>> \notin done
      BY <2>4, CommandsAt DEF Obsolete, IsDeny, IsAccept
    <3> QED
      BY <1>1, <1>2, <2>4, <3>1, <3>2 DEF EffectiveAt, Created
  <2> QED
    BY <1>1, <2>1, <2>2, <2>3, <2>4 DEF CommandWrites, IsAccept, IsDeny
<1>6. CASE AlreadyDesired(c) /\ UNCHANGED device
  <2>1. CASE k \in {FinalizeDeny, FinalizeAccept} /\ installed[n] = desired[n] /\ n \in enabled
    <3>1. <<DropAccept, n>> \notin done /\ <<DropDeny, n>> \notin done
      BY <1>1, <2>1, CommandsAt DEF Obsolete, IsDeny, IsAccept
    <3> QED
      BY <1>1, <1>2, <1>4, <1>6, <2>1, <3>1 DEF EffectiveAt, Created, device
  <2>2. CASE k \in {DropAccept, DropDeny} /\ installed[n] = NoPolicy
    <3>1. Obsolete(n) /\ ~Created(n)
      BY <1>1, <2>2, CommandsAt DEF Obsolete, Created
    <3>2. <<FinalizeDeny, n>> \notin done /\ <<FinalizeAccept, n>> \notin done
      BY <3>1, CommandsAt DEF Obsolete, IsDeny, IsAccept
    <3> QED
      BY <1>1, <1>2, <1>6, <2>2, <3>1, <3>2 DEF EffectiveAt, Created, device
  <2> QED
    BY <1>1, <1>6, <2>1, <2>2 DEF AlreadyDesired
<1> QED
  BY <1>5, <1>6

(* When every command is finished the device holds the plan.               *)
LEMMA PlanInstalled ==
  ASSUME Typed, Attributed, Between, Effective, done = Commands
  PROVE  installed = desired /\ enabled = Configured(desired)
<1>1. {base, desired, installed, before} \subseteq Tables /\ enabled \subseteq Configured(installed)
  BY DEF Typed, TypeOK
<1>2. ASSUME NEW n \in Places
      PROVE  installed[n] = desired[n] /\ (desired[n] # NoPolicy => n \in enabled)
  <2>1. CASE IsDeny(desired[n])
    BY <2>1, CommandsAt DEF Effective, EffectiveAt
  <2>2. CASE IsAccept(desired[n])
    BY <2>2, CommandsAt DEF Effective, EffectiveAt
  <2>3. CASE desired[n] = NoPolicy /\ base[n] # NoPolicy
    <3>1. IsAccept(base[n]) \/ IsDeny(base[n])
      BY <1>1, <2>3, AcceptOrDeny DEF Tables
    <3> QED
      BY <2>3, <3>1, CommandsAt DEF Effective, EffectiveAt, Obsolete
  <2>4. CASE desired[n] = NoPolicy /\ base[n] = NoPolicy
    BY <2>4 DEF Typed, Mixed
  <2>5. desired[n] \in Policies \cup {NoPolicy}
    BY <1>1 DEF Tables
  <2> QED
    BY <2>1, <2>2, <2>3, <2>4, <2>5, AcceptOrDeny
<1>3. installed = desired
  BY <1>1, <1>2 DEF Tables
<1> QED
  BY <1>1, <1>2, <1>3 DEF Configured

(* When every compensation is made the device holds the snapshot.          *)
LEMMA SnapshotRestored ==
  ASSUME Typed, undo = {}, ~undoError, \A n \in Places : Compensated(n)
  PROVE  installed = before /\ enabled = Configured(before)
<1>1. {base, desired, installed, before} \subseteq Tables /\ enabled \subseteq Configured(installed)
  BY DEF Typed, TypeOK
<1>2. ASSUME NEW n \in Places
      PROVE  installed[n] = before[n] /\ (before[n] # NoPolicy => n \in enabled)
  <2>1. before[n] \in Policies \cup {NoPolicy} /\ desired[n] \in Policies \cup {NoPolicy}
    BY <1>1 DEF Tables
  <2>2. /\ before[n] # NoPolicy => IsAccept(before[n]) \/ IsDeny(before[n])
        /\ desired[n] # NoPolicy => IsAccept(desired[n]) \/ IsDeny(desired[n])
    BY <2>1, AcceptOrDeny
  <2>3. Compensated(n) /\ \A g \in 1..7 : <<g, n>> \notin undo
    OBVIOUS
  <2>4. CASE Created(n)
    BY <2>2, <2>4 DEF Compensated, Created
  <2>5. CASE Gone(n)
    BY <2>2, <2>5 DEF Compensated, Gone
  <2>6. CASE Kept(n)
    BY <2>6 DEF Compensated
  <2>7. CASE before[n] = NoPolicy /\ desired[n] = NoPolicy
    BY <2>7 DEF Compensated
  <2> QED
    BY <2>4, <2>5, <2>6, <2>7 DEF Created, Gone, Kept
<1>3. installed = before
  BY <1>1, <1>2 DEF Tables
<1> QED
  BY <1>1, <1>2, <1>3 DEF Configured

(* rollbackDeployment owes exactly what the run has changed.               *)
LEMMA CompensationsBound ==
  ASSUME Typed, Between, Attributed, ~undoError, undo' = Compensations,
         UNCHANGED <<plan, device, before, tried, undoError>>
  PROVE  \A n \in Places : /\ Compensated(n)'
                           /\ <<RestoreAccept, n>> \in undo' => Touched(n)'
<1> USE DEF Recreate, RestoreDeny, EnableDeny, RemoveAccept, RestoreAccept, EnableAccept, RemoveDeny
<1> SUFFICES ASSUME NEW n \in Places
             PROVE  /\ Compensated(n)'
                    /\ <<RestoreAccept, n>> \in undo' => Touched(n)'
  OBVIOUS
<1>1. UNCHANGED <<base, desired, before, installed, enabled, undoError, tried>>
  BY DEF plan, device
<1>2. Changed(n) => Touched(n)
  BY DEF Attributed
<1>3. /\ <<1, n>> \in undo' <=> Changed(n) /\ desired[n] = NoPolicy
      /\ <<2, n>> \in undo' <=> Changed(n) /\ desired[n] # NoPolicy /\ ~Created(n) /\ IsDeny(before[n])
      /\ <<3, n>> \in undo' <=> Changed(n) /\ desired[n] = NoPolicy /\ IsDeny(before[n])
      /\ <<4, n>> \in undo' <=> Changed(n) /\ Created(n) /\ IsAccept(desired[n])
      /\ <<5, n>> \in undo' <=> Changed(n) /\ desired[n] # NoPolicy /\ ~Created(n) /\ IsAccept(before[n])
      /\ <<6, n>> \in undo' <=> Changed(n) /\ desired[n] = NoPolicy /\ IsAccept(before[n])
      /\ <<7, n>> \in undo' <=> Changed(n) /\ Created(n) /\ IsDeny(desired[n])
  BY <1>2 DEF Compensations
<1>4. <<5, n>> \in undo' => Touched(n)'
  BY <1>1, <1>2, <1>3 DEF Touched
<1>5. before[n] \in Policies \cup {NoPolicy} /\ desired[n] \in Policies \cup {NoPolicy}
  BY DEF Typed, TypeOK, Tables
<1>6. /\ before[n] # NoPolicy => IsAccept(before[n]) \/ IsDeny(before[n])
      /\ desired[n] # NoPolicy => IsAccept(desired[n]) \/ IsDeny(desired[n])
      /\ ~(IsAccept(before[n]) /\ IsDeny(before[n]))
  BY <1>5, AcceptOrDeny
<1>7. CASE Created(n)
  <2>1. Changed(n) <=> installed[n] # NoPolicy
    BY <1>7 DEF Created, Changed
  <2>2. installed[n] \in {NoPolicy, desired[n]}
    BY <1>7 DEF Attributed
  <2> QED
    BY <1>1, <1>3, <1>4, <1>7, <2>1, <2>2 DEF Compensated, Created, Gone, Kept
<1>8. CASE Gone(n)
  <2>1. Changed(n) <=> installed[n] = NoPolicy
    BY <1>8 DEF Attributed, Gone, Changed
  <2>2. installed[n] = NoPolicy \/ (installed[n] = before[n] /\ n \in enabled)
    BY <1>8 DEF Attributed
  <2> QED
    BY <1>1, <1>3, <1>4, <1>6, <1>8, <2>1, <2>2 DEF Compensated, Created, Gone, Kept
<1>9. CASE Kept(n)
  <2>1. n \in enabled /\ installed[n] \in {before[n], desired[n]}
    BY <1>9 DEF Attributed
  <2>2. Changed(n) <=> installed[n] # before[n]
    BY <2>1 DEF Changed
  <2> QED
    BY <1>1, <1>3, <1>4, <1>6, <1>9, <2>1, <2>2 DEF Compensated, Created, Gone, Kept
<1>10. CASE before[n] = NoPolicy /\ desired[n] = NoPolicy
  BY <1>1, <1>3, <1>4, <1>10 DEF Compensated, Created, Gone, Kept, Between
<1> QED
  BY <1>4, <1>7, <1>8, <1>9, <1>10 DEF Created, Gone, Kept

LEMMA CompensatedStep ==
  ASSUME Typed, Owed, Standing, \A m \in Places : Compensated(m),
         NEW n \in Places, NEW s \in undo, Due(s), UndoWrites(s, n), undo' = undo \ {s},
         undoError => undoError', undoError \in BOOLEAN, undoError' \in BOOLEAN,
         UNCHANGED <<plan, before>>
  PROVE  \A m \in Places : Compensated(m)'
<1> USE DEF Recreate, RestoreDeny, EnableDeny, RemoveAccept, RestoreAccept, EnableAccept, RemoveDeny
<1>1. UNCHANGED <<base, desired, before>>
  BY DEF plan
<1>2. s[2] = n
  BY UndoPlace
<1>3. ASSUME NEW m \in Places, m # n
      PROVE  Compensated(m)'
  <2>1. installed'[m] = installed[m] /\ (m \in enabled' <=> m \in enabled)
    <3>1. PICK d, on : Wrote(n, d, on)
      BY DEF UndoWrites
    <3> QED
      BY <1>3, <3>1 DEF Wrote, Typed, TypeOK, Tables
  <2>2. \A g \in {1, 2, 3, 4, 5, 6, 7} : <<g, m>> \in undo' <=> <<g, m>> \in undo
    BY <1>2, <1>3
  <2>3. Compensated(m)
    OBVIOUS
  <2> QED
    BY <1>1, <2>1, <2>2, <2>3 DEF Compensated, Created, Gone, Kept
<1>4. Compensated(n)'
  <2>1. Compensated(n)
    OBVIOUS
  <2>2. \A g \in {1, 2, 3, 4, 5, 6, 7} : <<g, n>> \in undo' <=> <<g, n>> \in undo /\ <<g, n>> # s
    OBVIOUS
  <2>3. ~(IsAccept(before[n]) /\ IsDeny(before[n]))
    BY AcceptOrDeny DEF Typed, TypeOK, Tables
  <2>a. ~(IsAccept(desired[n]) /\ IsDeny(desired[n]))
    BY AcceptOrDeny DEF Typed, TypeOK, Tables
  <2>b. before[n] # NoPolicy => IsAccept(before[n]) \/ IsDeny(before[n])
    BY AcceptOrDeny DEF Typed, TypeOK, Tables
  <2>4. CASE s = <<1, n>> /\ Gone(n) /\ Wrote(n, before[n], FALSE)
    <3>1. installed'[n] = before[n] /\ n \notin enabled'
      BY <2>4 DEF Wrote, Typed, TypeOK, Tables
    <3> QED
      BY <1>1, <2>1, <2>2, <2>3, <2>b, <2>4, <3>1 DEF Compensated, Created, Gone, Kept
  <2>5. CASE s \in {<<2, n>>, <<5, n>>} /\ Kept(n) /\ Wrote(n, before[n], TRUE)
    <3>1. installed'[n] = before[n] /\ n \in enabled'
      BY <2>5 DEF Wrote, Typed, TypeOK, Tables
    <3>2. <<2, n>> \notin undo' /\ <<5, n>> \notin undo'
      BY <2>2, <2>3, <2>5 DEF Owed
    <3> QED
      BY <1>1, <2>1, <2>5, <3>1, <3>2 DEF Compensated, Created, Gone, Kept
  <2>6. CASE s \in {<<3, n>>, <<6, n>>} /\ Gone(n) /\ Wrote(n, before[n], TRUE)
    <3>1. installed'[n] = before[n] /\ n \in enabled'
      BY <2>6 DEF Wrote, Typed, TypeOK, Tables
    <3>2. <<3, n>> \notin undo' /\ <<6, n>> \notin undo'
      BY <2>2, <2>3, <2>6 DEF Owed
    <3>3. <<1, n>> \notin undo
      BY <2>6 DEF Due, UndoPrecedes
    <3> QED
      BY <1>1, <2>1, <2>2, <2>6, <3>1, <3>2, <3>3 DEF Compensated, Created, Gone, Kept
  <2>7. CASE s \in {<<4, n>>, <<7, n>>} /\ Created(n) /\ Wrote(n, NoPolicy, FALSE)
    <3>1. installed'[n] = NoPolicy
      BY <2>7 DEF Wrote, Typed, TypeOK, Tables
    <3>2. <<4, n>> \notin undo' /\ <<7, n>> \notin undo'
      BY <2>2, <2>a, <2>7 DEF Owed
    <3> QED
      BY <1>1, <2>7, <3>1, <3>2 DEF Compensated, Created, Gone, Kept
  <2> QED
    BY <2>4, <2>5, <2>6, <2>7 DEF UndoWrites
<1> QED
  BY <1>3, <1>4

(* A failure of one of the last two groups leaves its place as it is.      *)
LEMMA CompensatedFault ==
  ASSUME Typed, Owed, \A m \in Places : Compensated(m), NEW s \in undo,
         s[1] \in {EnableAccept, RemoveDeny}, Due(s), undo' = undo \ {s}, undoError' = TRUE,
         UNCHANGED <<plan, before, device>>
  PROVE  \A m \in Places : Compensated(m)'
<1> USE DEF Recreate, RestoreDeny, EnableDeny, RemoveAccept, RestoreAccept, EnableAccept, RemoveDeny
<1> SUFFICES ASSUME NEW m \in Places
             PROVE  Compensated(m)'
  OBVIOUS
<1>1. UNCHANGED <<base, desired, before, installed, enabled>>
  BY DEF plan, device
<1>2. \A g \in {1, 2, 3, 4, 5, 6, 7} : <<g, m>> \in undo' <=> <<g, m>> \in undo /\ <<g, m>> # s
  OBVIOUS
<1>3. Compensated(m)
  OBVIOUS
<1>4. \A g \in {1, 2, 3, 4, 5} : <<g, m>> # s
  OBVIOUS
<1>5. s = <<6, m>> => <<1, m>> \notin undo
  BY DEF Due, UndoPrecedes
<1>6. undoError'
  OBVIOUS
<1>7. CASE Created(m)
  BY <1>1, <1>2, <1>3, <1>4, <1>6, <1>7 DEF Compensated, Created, Gone, Kept
<1>8. CASE Gone(m)
  BY <1>1, <1>2, <1>3, <1>4, <1>5, <1>6, <1>8 DEF Compensated, Created, Gone, Kept
<1>9. CASE ~Created(m) /\ ~Gone(m)
  BY <1>1, <1>2, <1>3, <1>4, <1>9 DEF Compensated, Created, Gone, Kept
<1> QED
  BY <1>7, <1>8, <1>9

LEMMA InitFaithful ==
  ASSUME Init
  PROVE  Faithful
BY InitTyped DEF Init, Faithful

LEMMA NextFaithful ==
  ASSUME Faithful, [Next]_vars
  PROVE  Faithful'
<1>0. Typed /\ Typed'
  BY NextTyped DEF Faithful
<1>t. undoError \in BOOLEAN /\ undoError' \in BOOLEAN
  BY <1>0 DEF Typed, TypeOK
<1>1. CASE StartRun
  <2>1. Attributed' /\ Effective'
    BY <1>0, <1>1, StartAttributed
  <2>2. pc' = "executing" /\ outcome' = "running" /\ done' = {} /\ tried' = {} /\ ~undoError'
    BY <1>1 DEF StartRun
  <2> QED
    BY <1>0, <2>1, <2>2 DEF Faithful
<1>2. CASE RefuseRun
  <2>1. pc' = "idle" /\ outcome' = "failed"
    BY <1>2 DEF RefuseRun
  <2> QED
    BY <1>0, <2>1 DEF Faithful
<1>3. ASSUME NEW c \in Commands, ExecuteCommand(c) PROVE Faithful'
  <2>1. /\ UNCHANGED <<plan, before, pc, outcome, undo, undoError>>
        /\ pc = "executing" /\ Ready(c) /\ done' = done \cup {c}
        /\ \/ AlreadyDesired(c) /\ UNCHANGED <<device, tried>>
           \/ Apply(c) /\ tried' = tried \cup {c}
    BY <1>3 DEF ExecuteCommand
  <2>2. /\ outcome = "running" /\ tried \subseteq Commands /\ done \subseteq Commands
        /\ Attributed /\ Effective /\ ~undoError
    BY <2>1 DEF Faithful
  <2>3. Attributed'
    <3>1. CASE UNCHANGED <<device, tried>>
      BY <2>1, <2>2, <3>1 DEF Attributed, Created, Gone, Kept, Changed, Touched, plan, device
    <3>2. CASE Apply(c) /\ tried' = tried \cup {c}
      BY <1>0, <2>1, <2>2, <3>2, CommandAttributed
    <3> QED
      BY <2>1, <3>1, <3>2
  <2>4. Effective'
    BY <1>0, <2>1, <2>2, CommandEffective
  <2>5. tried' \subseteq Commands' /\ done' \subseteq Commands'
    BY <2>1, <2>2, CommandsFixed
  <2> QED
    BY <1>0, <2>1, <2>2, <2>3, <2>4, <2>5 DEF Faithful
<1>4. ASSUME NEW c \in Commands, CommandFails(c) PROVE Faithful'
  <2>1. /\ UNCHANGED <<plan, before, outcome, done, undo, undoError>>
        /\ pc = "executing" /\ pc' = "failing" /\ tried' = tried \cup {c}
        /\ Apply(c) \/ UNCHANGED device
    BY <1>4 DEF CommandFails
  <2>2. outcome = "running" /\ tried \subseteq Commands /\ Attributed /\ ~undoError
    BY <2>1 DEF Faithful
  <2>3. Attributed'
    <3>1. CASE UNCHANGED device
      BY <2>1, <2>2, <3>1 DEF Attributed, Created, Gone, Kept, Changed, Touched, plan, device
    <3>2. CASE Apply(c)
      BY <1>0, <2>1, <2>2, <3>2, CommandAttributed
    <3> QED
      BY <2>1, <3>1, <3>2
  <2>4. tried' \subseteq Commands'
    BY <2>1, <2>2, CommandsFixed
  <2> QED
    BY <1>0, <2>1, <2>2, <2>3, <2>4 DEF Faithful
<1>5. CASE RunFails
  <2>1. /\ UNCHANGED <<plan, device, before, outcome, tried, undoError>>
        /\ pc = "executing" /\ pc' = "failing"
    BY <1>5 DEF RunFails
  <2>2. outcome = "running" /\ tried \subseteq Commands /\ Attributed /\ ~undoError
    BY <2>1 DEF Faithful
  <2>3. Attributed' /\ tried' \subseteq Commands'
    BY <2>1, <2>2, CommandsFixed DEF Attributed, Created, Gone, Kept, Changed, Touched, plan, device
  <2> QED
    BY <1>0, <2>1, <2>2, <2>3 DEF Faithful
<1>6. CASE Succeed
  <2>1. /\ UNCHANGED <<plan, device>>
        /\ pc = "executing" /\ done = Commands /\ pc' = "idle" /\ outcome' = "succeeded"
    BY <1>6 DEF Succeed
  <2>2. installed = desired /\ enabled = Configured(desired)
    BY <1>0, <2>1, PlanInstalled DEF Faithful, Typed
  <2>3. installed' = desired' /\ enabled' = Configured(desired')
    BY <2>1, <2>2 DEF plan, device
  <2> QED
    BY <1>0, <2>1, <2>3 DEF Faithful, Configured
<1>7. CASE OutcomesUnknown
  BY <1>0, <1>7 DEF OutcomesUnknown, Faithful
<1>8. CASE BindOutcomes
  <2>1. /\ UNCHANGED <<plan, device, before, outcome, tried, undoError>>
        /\ pc = "failing" /\ pc' = "undoing" /\ undo' = Compensations
    BY <1>8 DEF BindOutcomes
  <2>2. outcome = "running" /\ tried \subseteq Commands /\ Attributed /\ ~undoError
    BY <2>1 DEF Faithful
  <2>3. \A n \in Places : Compensated(n)' /\ (<<RestoreAccept, n>> \in undo' => Touched(n)')
    BY <1>0, <2>1, <2>2, CompensationsBound DEF Typed
  <2>4. tried' \subseteq Commands'
    BY <2>1, <2>2, CommandsFixed
  <2> QED
    BY <1>0, <2>1, <2>2, <2>3, <2>4 DEF Faithful
<1>9. ASSUME NEW s \in undo, UndoStep(s) PROVE Faithful'
  <2>1. /\ UNCHANGED <<plan, before, pc, outcome, tried, undoError, unguarded>>
        /\ pc = "undoing" /\ Due(s) /\ Compensate(s) /\ undo' = undo \ {s}
    BY <1>9 DEF UndoStep
  <2>2. outcome = "running" /\ tried' \subseteq Commands' /\ Owed /\ Standing
    BY <1>0, <2>1, CommandsFixed DEF Faithful, Typed
  <2>3. PICK n \in Places : UndoWrites(s, n)
    BY <1>0, <2>1, <2>2, CompensateWrites DEF Typed
  <2>4. ASSUME Orderly'
        PROVE  \A m \in Places : Compensated(m)' /\ (<<RestoreAccept, m>> \in undo' => Touched(m)')
    <3>1. Orderly
      BY <2>1, <2>4 DEF Orderly
    <3>2. \A m \in Places : Compensated(m) /\ (<<RestoreAccept, m>> \in undo => Touched(m))
      BY <2>1, <3>1 DEF Faithful
    <3>3. \A m \in Places : Compensated(m)'
      BY <1>0, <1>t, <2>1, <2>2, <2>3, <3>2, CompensatedStep
    <3> QED
      BY <2>1, <3>2, <3>3 DEF Touched
  <2> QED
    BY <1>0, <2>1, <2>2, <2>4 DEF Faithful
<1>10. ASSUME NEW s \in undo, UndoFails(s) PROVE Faithful'
  <2>1. /\ UNCHANGED <<plan, before, pc, outcome, tried>>
        /\ pc = "undoing" /\ Due(s) /\ undoError' = TRUE
        /\ unguarded' = (unguarded \/ s[1] < EnableAccept)
        /\ undo' = {t \in undo : t # s /\ ~(s[1] = Recreate /\ t[2] = s[2])}
        /\ Compensate(s) \/ UNCHANGED device
    BY <1>10 DEF UndoFails
  <2>2. outcome = "running" /\ tried' \subseteq Commands' /\ Owed /\ Standing
    BY <1>0, <2>1, CommandsFixed DEF Faithful, Typed
  <2>3. ASSUME Orderly'
        PROVE  \A m \in Places : Compensated(m)' /\ (<<RestoreAccept, m>> \in undo' => Touched(m)')
    <3>1. ~unguarded /\ ~(s[1] < EnableAccept)
      <4>1. undoError' /\ ~unguarded'
        BY <2>1, <2>3 DEF Orderly
      <4> QED
        BY <2>1, <4>1
    <3>2. \A m \in Places : Compensated(m) /\ (<<RestoreAccept, m>> \in undo => Touched(m))
      BY <2>1, <3>1 DEF Faithful, Orderly
    <3>3. s[1] \in {EnableAccept, RemoveDeny}
      <4>1. s[1] \in 1..7
        BY <1>0 DEF Typed, TypeOK
      <4> QED
        BY <3>1, <4>1 DEF EnableAccept, RemoveDeny
    <3>4. undo' = undo \ {s}
      BY <2>1, <3>3 DEF EnableAccept, RemoveDeny, Recreate
    <3>5. \A m \in Places : Compensated(m)'
      <4>1. CASE UNCHANGED device
        BY <1>0, <2>1, <2>2, <3>2, <3>3, <3>4, <4>1, CompensatedFault
      <4>2. CASE Compensate(s)
        <5>1. PICK n \in Places : UndoWrites(s, n)
          BY <1>0, <2>1, <2>2, <4>2, CompensateWrites DEF Typed
        <5> QED
          BY <1>0, <1>t, <2>1, <2>2, <3>2, <3>4, <5>1, CompensatedStep
      <4> QED
        BY <2>1, <4>1, <4>2
    <3> QED
      BY <2>1, <3>2, <3>4, <3>5 DEF Touched
  <2> QED
    BY <1>0, <2>1, <2>2, <2>3 DEF Faithful
<1>11. CASE FinishUndo
  <2>1. /\ UNCHANGED <<plan, device, before>> /\ pc = "undoing" /\ undo = {} /\ pc' = "idle"
        /\ outcome' = IF undoError \/ tried = {} THEN "failed" ELSE "rolled back"
    BY <1>11 DEF FinishUndo
  <2>2. ~undoError => installed = before /\ enabled = Configured(before)
    BY <1>0, <2>1, SnapshotRestored DEF Faithful, Orderly
  <2>3. ~undoError => installed' = before' /\ enabled' = Configured(before')
    BY <2>1, <2>2 DEF device
  <2> QED
    BY <1>0, <2>1, <2>3 DEF Faithful, Configured
<1>12. CASE Crash
  <2>1. pc # "idle" /\ pc' = "idle" /\ UNCHANGED outcome
    BY <1>12 DEF Crash
  <2> QED
    BY <1>0, <2>1 DEF Faithful
<1>13. CASE UNCHANGED vars
  <2>1. UNCHANGED <<plan, device, before, pc, outcome, done, tried, undo, undoError, unguarded>>
    BY <1>13 DEF vars, plan, device
  <2>2. Commands' = Commands
    BY <2>1, CommandsFixed
  <2> QED
    BY <1>0, <2>1, <2>2 DEF Faithful, Attributed, Effective, EffectiveAt, Compensated, Orderly,
      Created, Gone, Kept, Changed, Touched, Configured, plan, device
<1> QED
  BY <1>1, <1>2, <1>3, <1>4, <1>5, <1>6, <1>7, <1>8, <1>9, <1>10, <1>11, <1>12, <1>13 DEF Next

(* A run reports what it leaves on the device, for every table, whichever  *)
(* calls and compensations fail and however often the server crashes.      *)
THEOREM ReportsAreTruthful == Spec => []ReportIsTruthful
<1>1. Init => Faithful
  BY InitFaithful
<1>2. Faithful /\ [Next]_vars => Faithful'
  BY NextFaithful
<1>3. Faithful => ReportIsTruthful
  BY PlanInstalled DEF Faithful, Typed, ReportIsTruthful
<1> QED
  BY <1>1, <1>2, <1>3, PTL DEF Spec

-----------------------------------------------------------------------------
(* The guards.                                                             *)

(* What a safe device lets through, base or plan let through, unless an    *)
(* ACCEPT narrows the DENY that stops it.                                  *)
LEMMA SafeIsClosed ==
  ASSUME NEW table \in Tables, Mixed(table), NEW on \in SUBSET Configured(table), Safe(table, on),
         NEW p \in Passing(table, on), ~Narrowed(p)
  PROVE  p \in Foreseen
<1> SUFFICES ASSUME p \notin Passing(base, Configured(base))
             PROVE  p \in Passing(desired, Configured(desired))
  BY DEF Foreseen
<1>0. p \in Packets
  BY DEF Passing
<1> DEFINE Stops(t, m) == IsDeny(t[m]) /\ p \in Match[t[m]]
<1>1. ASSUME NEW m \in Places
      PROVE  /\ IsDeny(base[m]) \/ IsAccept(base[m]) => m \in Configured(base)
             /\ IsDeny(desired[m]) \/ IsAccept(desired[m]) => m \in Configured(desired)
  BY DEF Configured, IsDeny, IsAccept
(* A DENY of the plan that is in effect stops p in the table too.          *)
<1>2. ASSUME Guarding(table, on), NEW m \in Places, Stops(desired, m)
      PROVE  m \in on /\ Stops(table, m)
  BY <1>2 DEF Guarding, Guards
<1>3. ASSUME NEW m \in Places, Stops(base, m), ~(m \in on /\ Stops(table, m))
      PROVE  /\ Guarding(table, on)
             /\ \/ IsAccept(desired[m]) /\ p \in Match[desired[m]]
                \/ \A n \in on : IsAccept(table[n]) => table[n] = desired[n]
  <2>1. ~Guards(table, on, base, m)
    BY <1>3 DEF Guards
  <2>2. IsAccept(desired[m]) => p \in Match[desired[m]]
    BY <1>3 DEF Narrowed
  <2> QED
    BY <1>3, <2>1, <2>2 DEF Safe
<1>4. CASE \E n \in on : IsAccept(table[n]) /\ p \in Match[table[n]] /\ ~Denied(table, on, p, n)
  <2>1. PICK n \in on : IsAccept(table[n]) /\ p \in Match[table[n]] /\ ~Denied(table, on, p, n)
    BY <1>4
  <2>2. n \in Places /\ n \in Int
    BY DEF Configured, Places
  <2>3. \A m \in on : m < n => ~Stops(table, m)
    BY <2>1 DEF Denied
  <2>4. ASSUME NEW k \in Places, k <= n, IsAccept(desired[k]), p \in Match[desired[k]],
               Guarding(table, on)
        PROVE  p \in Passing(desired, Configured(desired))
    <3>1. ASSUME NEW m \in Places, m < k
          PROVE  ~Stops(desired, m)
      <4>1. m < n
        BY <2>2, <2>4, <3>1 DEF Places
      <4> QED
        BY <1>2, <2>3, <2>4, <4>1
    <3>2. ~Denied(desired, Configured(desired), p, k)
      BY <3>1 DEF Denied, Configured
    <3> QED
      BY <1>0, <1>1, <2>4, <3>2 DEF Passing
  <2>5. CASE table[n] # base[n]
    <3>1. table[n] = desired[n] /\ Guarding(table, on)
      BY <2>1, <2>2, <2>5 DEF Mixed, Safe, IsAccept
    <3> QED
      BY <2>1, <2>2, <2>4, <3>1 DEF Places
  <2>6. CASE table[n] = base[n]
    <3>1. Denied(base, Configured(base), p, n)
      BY <1>0, <1>1, <2>1, <2>2, <2>6 DEF Passing
    <3>2. PICK m \in Configured(base) : m < n /\ Stops(base, m)
      BY <3>1 DEF Denied
    <3>3. m \in Places /\ ~(m \in on /\ Stops(table, m))
      BY <2>3, <3>2 DEF Configured
    <3>4. CASE IsAccept(desired[m]) /\ p \in Match[desired[m]]
      <4>1. m <= n
        BY <2>2, <3>2, <3>3 DEF Places
      <4> QED
        BY <1>3, <2>4, <3>2, <3>3, <3>4, <4>1
    <3>5. CASE \A i \in on : IsAccept(table[i]) => table[i] = desired[i]
      <4>1. table[n] = desired[n] /\ Guarding(table, on)
        BY <1>3, <2>1, <3>2, <3>3, <3>5
      <4> QED
        BY <2>1, <2>2, <2>4, <4>1 DEF Places
    <3> QED
      BY <1>3, <3>2, <3>3, <3>4, <3>5
  <2> QED
    BY <2>5, <2>6
<1>5. CASE p \in Below /\ ~Denied(table, on, p, Size + 1)
  <2>1. \A m \in on : ~Stops(table, m)
    <3>1. \A m \in on : m \in Places /\ m < Size + 1
      BY DeploymentAssumption DEF Configured, Places
    <3> QED
      BY <1>5, <3>1 DEF Denied
  <2>2. PICK m \in Places : Stops(base, m)
    <3>1. Denied(base, Configured(base), p, Size + 1)
      BY <1>0, <1>5 DEF Passing
    <3> QED
      BY <3>1 DEF Denied, Configured
  <2>3. Guarding(table, on)
    BY <1>3, <2>1, <2>2
  <2>4. ~Denied(desired, Configured(desired), p, Size + 1)
    BY <1>2, <2>1, <2>3 DEF Denied, Configured
  <2> QED
    BY <1>0, <1>5, <2>4 DEF Passing
<1> QED
  BY <1>4, <1>5 DEF Passing

-----------------------------------------------------------------------------
(* Executing keeps the device safe.                                        *)

(* All DENYs of the plan are in effect before an ACCEPT is touched.        *)
LEMMA GuardingReached ==
  ASSUME Effective, NEW c \in Commands, Ready(c), c[1] \in {DropAccept, FinalizeAccept, DropDeny}
  PROVE  Guarding(installed, enabled)
<1> SUFFICES ASSUME NEW m \in Places, IsDeny(desired[m])
             PROVE  Guards(installed, enabled, desired, m)
  BY DEF Guarding
<1>1. <<FinalizeDeny, m>> \in Commands
  BY CommandsAt
<1>2. Precedes(<<FinalizeDeny, m>>, c)
  BY DEF Precedes, FinalizeDeny, DropAccept, FinalizeAccept, DropDeny
<1>3. <<FinalizeDeny, m>> \in done
  BY <1>1, <1>2 DEF Ready
<1> QED
  BY <1>3 DEF Effective, EffectiveAt, Guards

(* All live ACCEPTs are the plan's before a DENY is dropped.               *)
LEMMA AcceptsReached ==
  ASSUME Typed, Effective, Guarding(installed, enabled), NEW c \in Commands, Ready(c), c[1] = DropDeny,
         NEW m \in enabled, IsAccept(installed[m])
  PROVE  installed[m] = desired[m]
<1>1. m \in Places /\ installed[m] \in {base[m], desired[m]}
  BY DEF Typed, TypeOK, Configured, Mixed, IsAccept
<1>2. CASE IsAccept(desired[m])
  <2>1. <<FinalizeAccept, m>> \in Commands
    BY <1>1, <1>2, CommandsAt
  <2>2. Precedes(<<FinalizeAccept, m>>, c)
    BY DEF Precedes, FinalizeAccept, DropDeny
  <2>3. <<FinalizeAccept, m>> \in done
    BY <2>1, <2>2 DEF Ready
  <2> QED
    BY <1>1, <2>3 DEF Effective, EffectiveAt
<1>3. CASE IsDeny(desired[m])
  BY <1>1, <1>3, AcceptOrDeny DEF Guarding, Guards, IsAccept, IsDeny
<1>4. CASE desired[m] = NoPolicy /\ installed[m] = base[m]
  <2>1. <<DropAccept, m>> \in Commands
    BY <1>1, <1>4, CommandsAt DEF Obsolete, IsAccept
  <2>2. Precedes(<<DropAccept, m>>, c)
    BY DEF Precedes, DropAccept, DropDeny
  <2>3. <<DropAccept, m>> \in done
    BY <2>1, <2>2 DEF Ready
  <2> QED
    BY <1>1, <2>3 DEF Effective, EffectiveAt, IsAccept
<1>5. desired[m] \in Policies \cup {NoPolicy}
  BY <1>1 DEF Typed, TypeOK, Tables
<1> QED
  BY <1>1, <1>2, <1>3, <1>4, <1>5, AcceptOrDeny

(* A write that is guarded itself and disturbs no guard.                   *)
LEMMA SafeWrite ==
  ASSUME TypeOK, NEW n \in Places, NEW c \in Policies \cup {NoPolicy}, NEW on \in BOOLEAN,
         on => c # NoPolicy, Wrote(n, c, on), Safe(installed, enabled),
         Guarding(installed, enabled) => Guarding(installed', enabled'),
         on /\ IsAccept(c) => c = desired[n] /\ Guarding(installed, enabled),
         IsDeny(base[n]) /\ ~Guards(installed', enabled', base, n) =>
           \/ ~Guards(installed, enabled, base, n)
           \/ IsAccept(desired[n]) /\ Guarding(installed, enabled)
           \/ /\ desired[n] = NoPolicy
              /\ Guarding(installed, enabled)
              /\ \A k \in enabled : IsAccept(installed[k]) => installed[k] = desired[k]
  PROVE  Safe(installed', enabled')
<1>1. /\ installed'[n] = c
      /\ n \in enabled' <=> on
      /\ \A m \in Places \ {n} : installed'[m] = installed[m] /\ (m \in enabled' <=> m \in enabled)
      /\ enabled' \subseteq Places
  BY WriteEffect DEF Configured
<1>2. ASSUME NEW m \in enabled', IsAccept(installed'[m]), installed'[m] # base[m]
      PROVE  Guarding(installed', enabled')
  <2>1. CASE m = n
    BY <1>1, <1>2, <2>1
  <2>2. CASE m # n
    BY <1>1, <1>2, <2>2 DEF Safe
  <2> QED
    BY <2>1, <2>2
<1>3. ASSUME \A k \in enabled : IsAccept(installed[k]) => installed[k] = desired[k]
      PROVE  \A k \in enabled' : IsAccept(installed'[k]) => installed'[k] = desired[k]
  BY <1>1, <1>3
<1>4. ASSUME NEW m \in Places, IsDeny(base[m]), ~Guards(installed', enabled', base, m)
      PROVE  /\ Guarding(installed', enabled')
             /\ \/ IsAccept(desired[m])
                \/ /\ desired[m] = NoPolicy
                   /\ \A k \in enabled' : IsAccept(installed'[k]) => installed'[k] = desired[k]
  <2>1. CASE ~Guards(installed, enabled, base, m)
    BY <1>3, <1>4, <2>1 DEF Safe
  <2>2. CASE Guards(installed, enabled, base, m)
    <3>1. m = n
      BY <1>1, <1>4, <2>2 DEF Guards
    <3> QED
      BY <1>3, <1>4, <2>2, <3>1
  <2> QED
    BY <2>1, <2>2
<1> QED
  BY <1>2, <1>4 DEF Safe

LEMMA CommandSafe ==
  ASSUME Approved, Typed, Effective, NEW c \in Commands, Ready(c), Apply(c), Safe(installed, enabled)
  PROVE  Safe(installed', enabled')
<1>0. TypeOK /\ base \in Tables /\ desired \in Tables
  BY DEF Typed, TypeOK
<1>1. PICK n \in Places : CommandWrites(c, n)
  BY ApplyWrites
<1>2. /\ base[n] \in Policies \cup {NoPolicy} /\ desired[n] \in Policies \cup {NoPolicy}
      /\ ~(IsAccept(base[n]) /\ IsDeny(base[n])) /\ ~(IsAccept(desired[n]) /\ IsDeny(desired[n]))
  BY <1>0, AcceptOrDeny DEF Tables
<1>3. CASE c = <<Prepare, n>> /\ Created(n) /\ Wrote(n, desired[n], FALSE)
  <2>1. installed[n] = NoPolicy
    BY <1>3 DEF Effective, EffectiveAt, Ready
  <2>2. n \notin enabled
    BY <1>0, <2>1 DEF TypeOK, Configured
  <2>3. \A m \in Places \ {n} : installed'[m] = installed[m] /\ (m \in enabled' <=> m \in enabled)
    BY <1>0, <1>2, <1>3, WriteEffect
  <2>4. Guarding(installed, enabled) => Guarding(installed', enabled')
    BY <2>2, <2>3 DEF Guarding, Guards
  <2>5. ~Guards(installed, enabled, base, n)
    BY <2>2 DEF Guards
  <2> QED
    BY <1>0, <1>2, <1>3, <2>4, <2>5, SafeWrite
<1>4. CASE c = <<FinalizeDeny, n>> /\ IsDeny(desired[n]) /\ Wrote(n, desired[n], TRUE)
  <2>1. desired[n] # NoPolicy
    BY <1>4 DEF IsDeny
  <2>2. /\ installed'[n] = desired[n] /\ n \in enabled'
        /\ \A m \in Places \ {n} : installed'[m] = installed[m] /\ (m \in enabled' <=> m \in enabled)
    BY <1>0, <1>2, <1>4, <2>1, WriteEffect
  <2>3. Guarding(installed, enabled) => Guarding(installed', enabled')
    BY <1>4, <2>2 DEF Guarding, Guards
  <2>4. IsDeny(base[n]) => Match[desired[n]] = Match[base[n]]
    BY <1>4 DEF Approved, ApprovedUpdate
  <2>5. IsDeny(base[n]) => Guards(installed', enabled', base, n)
    BY <1>4, <2>2, <2>4 DEF Guards
  <2> QED
    BY <1>0, <1>2, <1>4, <2>1, <2>3, <2>5, SafeWrite
<1>5. CASE c = <<DropAccept, n>> /\ Obsolete(n) /\ IsAccept(base[n]) /\ Wrote(n, NoPolicy, FALSE)
  <2>1. \A m \in Places \ {n} : installed'[m] = installed[m] /\ (m \in enabled' <=> m \in enabled)
    BY <1>0, <1>5, WriteEffect
  <2>2. Guarding(installed, enabled) => Guarding(installed', enabled')
    BY <1>5, <2>1 DEF Guarding, Guards, Obsolete, IsDeny
  <2> QED
    BY <1>0, <1>2, <1>5, <2>2, SafeWrite
<1>6. CASE c = <<FinalizeAccept, n>> /\ IsAccept(desired[n]) /\ Wrote(n, desired[n], TRUE)
  <2>1. desired[n] # NoPolicy
    BY <1>6 DEF IsAccept
  <2>2. Guarding(installed, enabled)
    BY <1>6, GuardingReached
  <2>3. \A m \in Places \ {n} : installed'[m] = installed[m] /\ (m \in enabled' <=> m \in enabled)
    BY <1>0, <1>2, <1>6, <2>1, WriteEffect
  <2>4. Guarding(installed', enabled')
    BY <1>2, <1>6, <2>2, <2>3 DEF Guarding, Guards
  <2> QED
    BY <1>0, <1>2, <1>6, <2>1, <2>2, <2>4, SafeWrite
<1>7. CASE c = <<DropDeny, n>> /\ Obsolete(n) /\ IsDeny(base[n]) /\ Wrote(n, NoPolicy, FALSE)
  <2>1. Guarding(installed, enabled)
    BY <1>7, GuardingReached
  <2>2. \A k \in enabled : IsAccept(installed[k]) => installed[k] = desired[k]
    BY <1>7, <2>1, AcceptsReached
  <2>3. \A m \in Places \ {n} : installed'[m] = installed[m] /\ (m \in enabled' <=> m \in enabled)
    BY <1>0, <1>7, WriteEffect
  <2>4. Guarding(installed', enabled')
    BY <1>7, <2>1, <2>3 DEF Guarding, Guards, Obsolete, IsDeny
  <2> QED
    BY <1>0, <1>2, <1>7, <2>1, <2>2, <2>4, SafeWrite DEF Obsolete
<1> QED
  BY <1>1, <1>3, <1>4, <1>5, <1>6, <1>7 DEF CommandWrites

-----------------------------------------------------------------------------
(* Compensating keeps the device safe.                                     *)

(* The groups up to the restored and enabled DENYs only add guards.        *)
LEMMA DenyRestored ==
  ASSUME Approved, Typed, NEW n \in Places, Compensated(n), NEW s \in undo, UndoWrites(s, n),
         s[1] \in {Recreate, RestoreDeny, EnableDeny}, Safe(installed, enabled)
  PROVE  Safe(installed', enabled')
<1>0. TypeOK /\ base \in Tables /\ desired \in Tables /\ before \in Tables
  BY DEF Typed, TypeOK
<1>1. /\ base[n] \in Policies \cup {NoPolicy} /\ desired[n] \in Policies \cup {NoPolicy}
      /\ before[n] \in Policies \cup {NoPolicy}
      /\ before[n] \in {NoPolicy, base[n], desired[n]}
  BY <1>0 DEF Tables, Typed, Mixed
<1>2. ~(IsAccept(before[n]) /\ IsDeny(before[n]))
  BY <1>1, AcceptOrDeny
<1>3. CASE s = <<Recreate, n>> /\ Gone(n) /\ Wrote(n, before[n], FALSE)
  <2>1. installed[n] = NoPolicy
    BY <1>3 DEF Compensated
  <2>2. n \notin enabled
    BY <1>0, <2>1 DEF TypeOK, Configured
  <2>3. \A m \in Places \ {n} : installed'[m] = installed[m] /\ (m \in enabled' <=> m \in enabled)
    BY <1>0, <1>1, <1>3, WriteEffect
  <2>4. Guarding(installed, enabled) => Guarding(installed', enabled')
    BY <2>2, <2>3 DEF Guarding, Guards
  <2>5. ~Guards(installed, enabled, base, n)
    BY <2>2 DEF Guards
  <2> QED
    BY <1>0, <1>1, <1>3, <2>4, <2>5, SafeWrite
<1>4. CASE IsDeny(before[n]) /\ Wrote(n, before[n], TRUE)
  <2>1. before[n] # NoPolicy
    BY <1>4 DEF IsDeny
  <2>2. /\ installed'[n] = before[n] /\ n \in enabled'
        /\ \A m \in Places \ {n} : installed'[m] = installed[m] /\ (m \in enabled' <=> m \in enabled)
    BY <1>0, <1>1, <1>4, <2>1, WriteEffect
  <2>3. IsDeny(base[n]) /\ IsDeny(desired[n]) => Match[desired[n]] = Match[base[n]]
    BY DEF Approved, ApprovedUpdate
  <2>4. IsDeny(desired[n]) => Match[before[n]] = Match[desired[n]]
    BY <1>1, <1>4, <2>1, <2>3
  <2>5. IsDeny(base[n]) => Match[before[n]] = Match[base[n]]
    BY <1>1, <1>4, <2>1, <2>3
  <2>6. Guarding(installed, enabled) => Guarding(installed', enabled')
    BY <1>4, <2>2, <2>4 DEF Guarding, Guards
  <2>7. IsDeny(base[n]) => Guards(installed', enabled', base, n)
    BY <1>4, <2>2, <2>5 DEF Guards
  <2> QED
    BY <1>0, <1>1, <1>2, <1>4, <2>1, <2>6, <2>7, SafeWrite
<1>5. s \notin {<<RemoveAccept, n>>, <<RestoreAccept, n>>, <<EnableAccept, n>>, <<RemoveDeny, n>>}
  BY DEF Recreate, RestoreDeny, EnableDeny, RemoveAccept, RestoreAccept, EnableAccept, RemoveDeny
<1>6. \/ s = <<Recreate, n>> /\ Gone(n) /\ Wrote(n, before[n], FALSE)
      \/ IsDeny(before[n]) /\ Wrote(n, before[n], TRUE)
  BY <1>5, Zenon DEF UndoWrites
<1> QED
  BY <1>3, <1>4, <1>6

(* The DENYs of the snapshot are in effect.                                *)
Shielded(table, on) == \A k \in Places : IsDeny(before[k]) => table[k] = before[k] /\ k \in on

(* A device with the DENYs of a safe snapshot is safe if it guards the     *)
(* ACCEPTs that the snapshot has not.                                      *)
LEMMA ShieldedIsSafe ==
  ASSUME Approved, Mixed(before), Safe(before, Configured(before)), NEW table, NEW on \in SUBSET Places,
         Shielded(table, on),
         \A k \in Places : table[k] \in {NoPolicy, before[k], desired[k]},
         \A k \in on : IsAccept(table[k]) /\ table[k] # before[k] /\ table[k] # base[k]
                         => Guarding(table, on)
  PROVE  Safe(table, on)
<1>1. Guarding(before, Configured(before)) => Guarding(table, on)
  BY DEF Guarding, Guards, Shielded
<1>2. ASSUME NEW k \in on, IsAccept(table[k]), table[k] # base[k]
      PROVE  Guarding(table, on)
  <2>1. table[k] = before[k] => k \in Configured(before)
    BY <1>2 DEF Configured, IsAccept
  <2> QED
    BY <1>1, <1>2, <2>1 DEF Safe
<1>3. ASSUME NEW m \in Places, IsDeny(base[m]), ~Guards(table, on, base, m)
      PROVE  /\ Guarding(table, on)
             /\ \/ IsAccept(desired[m])
                \/ /\ desired[m] = NoPolicy
                   /\ \A k \in on : IsAccept(table[k]) => table[k] = desired[k]
  <2>1. ~Guards(before, Configured(before), base, m)
    BY <1>3 DEF Guards, Shielded
  <2>2. /\ Guarding(before, Configured(before))
        /\ \/ IsAccept(desired[m])
           \/ /\ desired[m] = NoPolicy
              /\ \A k \in Configured(before) : IsAccept(before[k]) => before[k] = desired[k]
    BY <1>3, <2>1 DEF Safe
  <2>3. ASSUME \A k \in Configured(before) : IsAccept(before[k]) => before[k] = desired[k],
               NEW k \in on, IsAccept(table[k])
        PROVE  table[k] = desired[k]
    <3>1. table[k] = before[k] => k \in Configured(before)
      BY <2>3 DEF Configured, IsAccept
    <3> QED
      BY <2>3, <3>1 DEF IsAccept
  <2> QED
    BY <1>1, <2>2, <2>3
<1> QED
  BY <1>2, <1>3 DEF Safe

(* From the new ACCEPTs on the DENYs of the snapshot are back, and stay.   *)
LEMMA AcceptsShielded ==
  ASSUME Typed, Owed, \A m \in Places : Compensated(m), NEW n \in Places, NEW s \in undo,
         UndoWrites(s, n), Due(s), s[1] \in {RemoveAccept, RestoreAccept, EnableAccept, RemoveDeny}
  PROVE  Shielded(installed', enabled') /\ Shielded(installed, enabled)
<1> USE DEF Recreate, RestoreDeny, EnableDeny, RemoveAccept, RestoreAccept, EnableAccept, RemoveDeny
<1>0. TypeOK /\ desired \in Tables /\ before \in Tables
  BY DEF Typed, TypeOK
<1>1. /\ before[n] \in Policies \cup {NoPolicy} /\ desired[n] \in Policies \cup {NoPolicy}
      /\ ~(IsAccept(before[n]) /\ IsDeny(before[n]))
  BY <1>0, AcceptOrDeny DEF Tables
<1>2. Shielded(installed, enabled)
  <2> SUFFICES ASSUME NEW k \in Places, IsDeny(before[k])
               PROVE  installed[k] = before[k] /\ k \in enabled
    BY DEF Shielded
  <2>1. <<1, k>> \notin undo /\ <<2, k>> \notin undo /\ <<3, k>> \notin undo
    BY DEF Due, UndoPrecedes
  <2>2. before[k] \in Policies \cup {NoPolicy} /\ ~IsAccept(before[k]) /\ before[k] # NoPolicy
    BY <1>0, AcceptOrDeny DEF Tables, IsDeny
  <2>3. <<5, k>> \notin undo
    BY <2>2 DEF Owed
  <2>4. Compensated(k)
    OBVIOUS
  <2> QED
    BY <2>1, <2>2, <2>3, <2>4 DEF Compensated, Gone, Kept
<1>3. s \notin {<<1, n>>, <<2, n>>, <<3, n>>}
  OBVIOUS
<1>4. \/ Created(n) /\ Wrote(n, NoPolicy, FALSE)
      \/ IsAccept(before[n]) /\ Wrote(n, before[n], TRUE)
  BY <1>3, Zenon DEF UndoWrites
<1>5. ~IsDeny(before[n])
  BY <1>1, <1>4 DEF Created, IsDeny
<1>6. \A m \in Places \ {n} : installed'[m] = installed[m] /\ (m \in enabled' <=> m \in enabled)
  BY <1>0, <1>1, <1>4, WriteEffect DEF IsAccept
<1> QED
  BY <1>2, <1>5, <1>6 DEF Shielded

(* An ACCEPT that the snapshot has not is still to be undone.              *)
LEMMA AcceptOwed ==
  ASSUME Typed, \A m \in Places : Compensated(m), Between, NEW k \in enabled, IsAccept(installed[k]),
         installed[k] # before[k]
  PROVE  /\ k \in Places
         /\ IsAccept(desired[k])
         /\ \/ Created(k) /\ <<RemoveAccept, k>> \in undo
            \/ Kept(k) /\ <<RestoreDeny, k>> \in undo
            \/ Kept(k) /\ <<RestoreAccept, k>> \in undo
<1>1. k \in Places
  BY DEF Typed, TypeOK, Configured
<1>2. installed[k] = desired[k] /\ IsAccept(desired[k]) /\ desired[k] # NoPolicy
  BY <1>1 DEF Between, IsAccept
<1>3. Compensated(k)
  BY <1>1
<1> QED
  BY <1>1, <1>2, <1>3 DEF Compensated, Created, Kept

(* mutationOrder: an ACCEPT that stays one was touched after a policy that *)
(* becomes a DENY, and is restored before it.                              *)
LEMMA AcceptRestoredFirst ==
  ASSUME tried \subseteq Commands, NEW k \in Places, Touched(k), Kept(k), IsAccept(desired[k]),
         desired[k] \in Policies, NEW n \in Places, Kept(n), IsDeny(desired[n]), desired[n] \in Policies
  PROVE  UndoPrecedes(<<RestoreAccept, k>>, <<RestoreAccept, n>>)
<1>1. PICK c \in tried : c[2] = k
  BY DEF Touched
<1>2. ~IsDeny(desired[k]) /\ ~IsAccept(desired[n])
  BY AcceptOrDeny
<1>3. \A d \in Commands : d[2] = k => d = <<FinalizeAccept, k>>
  BY <1>2, CommandKinds DEF Created, Kept, Obsolete
<1>4. \A d \in Commands : d[2] = n => d = <<FinalizeDeny, n>>
  BY <1>2, CommandKinds DEF Created, Kept, Obsolete
<1>5. Precedes(<<FinalizeDeny, n>>, <<FinalizeAccept, k>>)
  BY DEF Precedes, FinalizeDeny, FinalizeAccept
<1>6. TouchedLater(k, n)
  BY <1>1, <1>3, <1>4, <1>5 DEF TouchedLater
<1> QED
  BY <1>6 DEF UndoPrecedes

LEMMA AcceptUndone ==
  ASSUME Approved, Typed, Typed', Owed, Between, Between', \A m \in Places : Compensated(m),
         \A m \in Places : <<RestoreAccept, m>> \in undo => Touched(m), tried \subseteq Commands,
         NEW n \in Places, NEW s \in undo, UndoWrites(s, n), Due(s),
         s[1] \in {RemoveAccept, RestoreAccept, EnableAccept, RemoveDeny},
         Safe(installed, enabled), Safe(before, Configured(before)), UNCHANGED <<plan, before>>
  PROVE  Safe(installed', enabled')
<1> USE DEF Recreate, RestoreDeny, EnableDeny, RemoveAccept, RestoreAccept, EnableAccept, RemoveDeny
<1>0. TypeOK /\ desired \in Tables /\ before \in Tables /\ Mixed(before)
  BY DEF Typed, TypeOK
<1>1. /\ before[n] \in Policies \cup {NoPolicy} /\ desired[n] \in Policies \cup {NoPolicy}
      /\ ~(IsAccept(desired[n]) /\ IsDeny(desired[n]))
  BY <1>0, AcceptOrDeny DEF Tables
<1>2. Shielded(installed', enabled')
  BY AcceptsShielded
<1>3. enabled' \subseteq Places /\ \A k \in Places : installed'[k] \in {NoPolicy, before[k], desired[k]}
  BY DEF Typed, TypeOK, Configured, Between, plan
<1>4. s \notin {<<1, n>>, <<2, n>>, <<3, n>>}
  OBVIOUS
<1>5. \/ s = <<4, n>> /\ Created(n) /\ IsAccept(desired[n]) /\ Wrote(n, NoPolicy, FALSE)
      \/ s = <<5, n>> /\ Kept(n) /\ IsAccept(before[n]) /\ Wrote(n, before[n], TRUE)
      \/ s = <<6, n>> /\ Gone(n) /\ IsAccept(before[n]) /\ Wrote(n, before[n], TRUE)
      \/ s = <<7, n>> /\ Created(n) /\ IsDeny(desired[n]) /\ Wrote(n, NoPolicy, FALSE)
  BY <1>4, Zenon DEF UndoWrites
<1>6. /\ installed'[n] \in {NoPolicy, before[n]}
      /\ installed'[n] = NoPolicy => n \notin enabled'
      /\ \A m \in Places \ {n} : installed'[m] = installed[m] /\ (m \in enabled' <=> m \in enabled)
  <2>1. CASE Wrote(n, NoPolicy, FALSE)
    BY <1>0, <2>1, WriteEffect
  <2>2. CASE before[n] # NoPolicy /\ Wrote(n, before[n], TRUE)
    BY <1>0, <1>1, <2>2, WriteEffect
  <2> QED
    BY <1>5, <2>1, <2>2 DEF IsAccept
<1>7. ~IsDeny(desired[n]) /\ Guarding(installed, enabled) => Guarding(installed', enabled')
  BY <1>6 DEF Guarding, Guards
<1>8. ASSUME NEW k \in enabled', IsAccept(installed'[k]), installed'[k] # before[k], installed'[k] # base[k]
      PROVE  Guarding(installed', enabled')
  <2>1. k \in Places /\ k # n /\ k \in enabled /\ installed'[k] = installed[k]
    BY <1>3, <1>6, <1>8
  <2>2. Guarding(installed, enabled)
    BY <1>8, <2>1 DEF Safe
  <2>3. /\ IsAccept(desired[k])
        /\ \/ Created(k) /\ <<4, k>> \in undo
           \/ Kept(k) /\ <<2, k>> \in undo
           \/ Kept(k) /\ <<5, k>> \in undo
    BY <1>8, <2>1, AcceptOwed
  <2>4. \A t \in undo : ~UndoPrecedes(t, s)
    BY DEF Due
  <2>5. CASE s[1] \in {5, 7}
    <3>1. <<4, k>> \notin undo /\ <<2, k>> \notin undo
      BY <2>5 DEF Due, UndoPrecedes
    <3>2. Kept(k) /\ <<5, k>> \in undo
      BY <2>3, <3>1
    <3>3. s[1] = 5
      BY <2>4, <2>5, <3>2 DEF UndoPrecedes
    <3>a. s # <<4, n>> /\ s # <<6, n>> /\ s # <<7, n>>
      BY <3>3
    <3>4. s = <<5, n>> /\ Kept(n)
      BY <1>5, <3>a, Zenon
    <3>5. desired[n] \in Policies /\ desired[k] \in Policies
      BY <1>0, <2>1, <3>2, <3>4 DEF Tables, Kept
    <3>6. ~IsDeny(desired[n])
      BY <2>1, <2>3, <2>4, <3>2, <3>4, <3>5, AcceptRestoredFirst
    <3> QED
      BY <1>7, <2>2, <3>6
  <2>6. CASE s[1] \in {4, 6}
    <3>a. s # <<5, n>> /\ s # <<7, n>>
      BY <2>6
    <3>b. IsAccept(desired[n]) \/ Gone(n)
      BY <1>5, <3>a, Zenon
    <3>1. ~IsDeny(desired[n])
      BY <1>1, <3>b DEF Gone, IsDeny
    <3> QED
      BY <1>7, <2>2, <3>1
  <2> QED
    BY <2>5, <2>6
<1> QED
  BY <1>0, <1>2, <1>3, <1>8, ShieldedIsSafe

LEMMA CompensateSafe ==
  ASSUME Approved, Typed, Typed', Owed, Standing, Between, Between', \A m \in Places : Compensated(m),
         \A m \in Places : <<RestoreAccept, m>> \in undo => Touched(m), tried \subseteq Commands,
         NEW s \in undo, Due(s), Compensate(s),
         Safe(installed, enabled), Safe(before, Configured(before)), UNCHANGED <<plan, before>>
  PROVE  Safe(installed', enabled')
<1>0. TypeOK
  BY DEF Typed
<1>1. PICK n \in Places : UndoWrites(s, n)
  BY <1>0, CompensateWrites
<1>2. \/ s[1] \in {Recreate, RestoreDeny, EnableDeny}
      \/ s[1] \in {RemoveAccept, RestoreAccept, EnableAccept, RemoveDeny}
  <2>1. s[1] \in 1..7
    BY <1>0 DEF TypeOK
  <2>2. s[1] \in {1, 2, 3, 4, 5, 6, 7}
    BY <2>1
  <2> QED
    BY <2>2 DEF Recreate, RestoreDeny, EnableDeny, RemoveAccept, RestoreAccept, EnableAccept, RemoveDeny
<1>3. CASE s[1] \in {Recreate, RestoreDeny, EnableDeny}
  BY <1>1, <1>3, DenyRestored
<1>4. CASE s[1] \in {RemoveAccept, RestoreAccept, EnableAccept, RemoveDeny}
  BY <1>1, <1>4, AcceptUndone
<1> QED
  BY <1>2, <1>3, <1>4

LEMMA SafeFixed ==
  ASSUME UNCHANGED plan
  PROVE  /\ Safe(installed', enabled') <=> Safe(installed, enabled)'
         /\ UNCHANGED before => (Safe(before, Configured(before)) => Safe(before, Configured(before))')
         /\ UNCHANGED device => (Safe(installed, enabled) => Safe(installed, enabled)')
         /\ Approved => Approved'
<1>1. Safe(installed', enabled') <=> Safe(installed, enabled)'
  BY DEF Safe, Guarding, Guards, IsAccept, IsDeny, plan
<1>2. UNCHANGED before => (Safe(before, Configured(before)) => Safe(before, Configured(before))')
  BY DEF Safe, Guarding, Guards, IsAccept, IsDeny, Configured, plan
<1>3. UNCHANGED device => (Safe(installed, enabled) => Safe(installed, enabled)')
  BY DEF Safe, Guarding, Guards, IsAccept, IsDeny, plan, device
<1>4. Approved => Approved'
  BY DEF Approved, ApprovedUpdate, IsAccept, IsDeny, Tables, plan
<1> QED
  BY <1>1, <1>2, <1>3, <1>4

(* Nothing in a base with all of its policies enabled can be unsafe.       *)
LEMMA InitGuarded ==
  ASSUME Init
  PROVE  Guarded
<1>1. Faithful
  BY InitFaithful
<1>2. Approved
  BY DEF Init, Approved
<1>3. installed = base /\ enabled = Configured(base) /\ pc = "idle"
  BY DEF Init
<1>4. Safe(installed, enabled)
  BY <1>3 DEF Safe, Guards, Configured, IsDeny
<1> QED
  BY <1>1, <1>2, <1>3, <1>4 DEF Guarded

LEMMA NextGuarded ==
  ASSUME Guarded, [Next]_vars
  PROVE  Guarded'
<1>a. Faithful /\ Faithful' /\ Typed /\ Typed' /\ Approved
  BY NextFaithful DEF Guarded, Faithful
<1>1. UNCHANGED plan
  BY DEF Next, StartRun, RefuseRun, ExecuteCommand, CommandFails, RunFails, Succeed, BindOutcomes,
    OutcomesUnknown, UndoStep, UndoFails, FinishUndo, Crash, vars, plan
<1>2. Approved'
  BY <1>a, <1>1, SafeFixed
<1> SUFFICES ASSUME ~unguarded'
             PROVE  /\ Safe(installed, enabled)'
                    /\ (pc # "idle" => Safe(before, Configured(before)))'
  BY <1>a, <1>2 DEF Guarded
<1>b. ~unguarded
  <2>1. unguarded \in BOOLEAN
    BY <1>a DEF Typed, TypeOK
  <2> QED
    BY <2>1 DEF Next, StartRun, RefuseRun, ExecuteCommand, CommandFails, RunFails, Succeed,
      BindOutcomes, OutcomesUnknown, UndoStep, UndoFails, FinishUndo, Crash, vars
<1>0. Faithful /\ Faithful' /\ Typed /\ Typed' /\ Approved /\ Safe(installed, enabled)
  BY <1>a, <1>b DEF Guarded
(* The snapshot.                                                           *)
<1>3. pc' # "idle" => Safe(before, Configured(before))'
  <2>1. CASE StartRun
    <3>1. Configured(installed) = enabled
      BY <1>0, <2>1 DEF StartRun, Snapshotable, Typed, TypeOK
    <3>2. before' = installed
      BY <2>1 DEF StartRun
    <3>3. Safe(before', Configured(before'))
      BY <1>0, <3>1, <3>2
    <3> QED
      BY <1>1, <3>3 DEF Safe, Guarding, Guards, Configured, IsAccept, IsDeny, plan
  <2>2. CASE UNCHANGED before /\ (pc' # "idle" => pc # "idle")
    BY <1>b, <1>1, <2>2, SafeFixed DEF Guarded
  <2>3. StartRun \/ (UNCHANGED before /\ (pc' # "idle" => pc # "idle"))
    BY DEF Next, RefuseRun, ExecuteCommand, CommandFails, RunFails, Succeed, BindOutcomes,
      OutcomesUnknown, UndoStep, UndoFails, FinishUndo, Crash, vars
  <2> QED
    BY <2>1, <2>2, <2>3
(* The device.                                                             *)
<1>4. Safe(installed, enabled)'
  <2>1. CASE UNCHANGED device
    BY <1>0, <1>1, <2>1, SafeFixed
  <2>2. ASSUME NEW c \in Commands, ExecuteCommand(c) \/ CommandFails(c), ~UNCHANGED device
        PROVE  Safe(installed, enabled)'
    <3>1. pc = "executing" /\ Ready(c) /\ Apply(c)
      BY <2>2 DEF ExecuteCommand, CommandFails
    <3>2. Safe(installed', enabled')
      BY <1>0, <3>1, CommandSafe DEF Faithful
    <3> QED
      BY <1>1, <3>2, SafeFixed
  <2>3. ASSUME NEW s \in undo, UndoStep(s) \/ UndoFails(s), ~UNCHANGED device
        PROVE  Safe(installed, enabled)'
    <3>1. pc = "undoing" /\ pc' = "undoing" /\ Due(s) /\ Compensate(s) /\ UNCHANGED before
      BY <2>3 DEF UndoStep, UndoFails
    <3>2. Owed /\ Standing /\ Between /\ Between'
      BY <1>0, <3>1 DEF Typed
    <3>3. /\ \A m \in Places : Compensated(m)
          /\ \A m \in Places : <<RestoreAccept, m>> \in undo => Touched(m)
          /\ tried \subseteq Commands
      BY <1>0, <1>b, <3>1 DEF Faithful, Orderly
    <3>4. Safe(before, Configured(before))
      BY <1>b, <3>1 DEF Guarded
    <3>5. Safe(installed', enabled')
      BY <1>0, <1>1, <3>1, <3>2, <3>3, <3>4, CompensateSafe
    <3> QED
      BY <1>1, <3>5, SafeFixed
  <2>4. \/ UNCHANGED device
        \/ \E c \in Commands : ExecuteCommand(c) \/ CommandFails(c)
        \/ \E s \in undo : UndoStep(s) \/ UndoFails(s)
    BY DEF Next, StartRun, RefuseRun, RunFails, Succeed, BindOutcomes, OutcomesUnknown, FinishUndo,
      Crash, vars, device
  <2> QED
    BY <2>1, <2>2, <2>3, <2>4
<1> QED
  BY <1>3, <1>4

(* DENYs before ACCEPTs, and DENYs to the end of a compensation: for every *)
(* table and plan, in every state of every run, failed, crashed or         *)
(* repeated, whichever compensations fail, a packet passes that base and   *)
(* plan both stop only where an ACCEPT narrows the DENY it replaces, or    *)
(* after a compensation failed that later ones rely on.                    *)
THEOREM OpeningsExplained == Spec => []OpeningsHaveACause
<1>1. Init => Guarded
  BY InitGuarded
<1>2. Guarded /\ [Next]_vars => Guarded'
  BY NextGuarded
<1>3. Guarded => OpeningsHaveACause
  <2> SUFFICES ASSUME Guarded, ~unguarded, NEW p \in Passing(installed, enabled), ~Narrowed(p)
               PROVE  p \in Foreseen
    BY DEF OpeningsHaveACause
  <2>1. Safe(installed, enabled) /\ Mixed(installed)
    BY DEF Guarded, Faithful, Typed
  <2>2. installed \in Tables /\ enabled \subseteq Configured(installed)
    BY DEF Guarded, Faithful, Typed, TypeOK
  <2> QED
    BY <2>1, <2>2, SafeIsClosed
<1> QED
  BY <1>1, <1>2, <1>3, PTL DEF Spec
=============================================================================
