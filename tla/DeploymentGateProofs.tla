------------------------ MODULE DeploymentGateProofs ------------------------
(***************************************************************************)
(* Theorems about DeploymentGate, for every set of targets, rules and      *)
(* handlers, and any number of publications, runs, crashes and expired     *)
(* locks.                                                                  *)
(*                                                                         *)
(* The invariant of the gate (Grounded) says that the latest plan is       *)
(* carried out wherever a run succeeded (Done), that the same holds of     *)
(* what a live run goes back to when it fails (before), and that the two   *)
(* differ in the plan's rules only.  So a failed or repeated run can never *)
(* take back what an earlier one reported, and a publisher that once       *)
(* passed the gate may rely on it (Confirmed) until somebody else          *)
(* publishes.  While every publication follows its predecessor (Straight), *)
(* devices and snapshots are also between the latest one and its base      *)
(* (Between), so that "carried out" means "nothing else is there".         *)
(***************************************************************************)
EXTENDS DeploymentGate, TLAPS

Between(d, base, goal) ==
  \A t \in Targets : base[t] \cap goal[t] \subseteq d[t] /\ d[t] \subseteq base[t] \cup goal[t]

(* The plan from base to goal is carried out on some targets.              *)
Installs(d, base, goal, ts) ==
  \A t \in ts : goal[t] \subseteq d[t] /\ (base[t] \ goal[t]) \cap d[t] = {}

(* The plan accounts for every difference.                                 *)
Within(d, e, base, goal) ==
  \A t \in Targets : d[t] \ e[t] \subseteq base[t] \cup goal[t] /\ e[t] \ d[t] \subseteq base[t] \cup goal[t]

Confirmed == CommandTargets(Latest) \subseteq Done

Setup == publication[1] = [doc |-> NoRules, base |-> 0]

Live(h) == deployer[h].pc \in {"running", "failing"}

Attended(h) ==
  /\ deployer[h].pc = "selected" => Run(h).status = "none"
  /\ Live(h) => /\ lock.owner = h /\ ~lock.stale
                /\ Run(h).status = "running"
                /\ Run(h).version = Latest

OwnRows ==
  \A g, h \in Deployers :
    g # h /\ deployer[g].pc # "idle" /\ deployer[h].pc # "idle" => deployer[g].row # deployer[h].row

(* The interlock.                                                          *)
Interlocked == TypeOK /\ OwnRows /\ \A h \in Deployers : Attended(h)

Snapshots ==
  \A h \in Deployers :
    Live(h) => /\ Installs(deployer[h].before, BaseNow, DesiredNow, Done)
               /\ Within(deployer[h].before, device, BaseNow, DesiredNow)

Level ==
  /\ Between(device, BaseNow, DesiredNow)
  /\ \A h \in Deployers : Live(h) => Between(deployer[h].before, BaseNow, DesiredNow)

Approvable == \A p \in Publishers : publisher[p].pc = "locked" /\ publisher[p].base = Latest => Confirmed

Grounded ==
  /\ Setup
  /\ Installs(device, BaseNow, DesiredNow, Done)
  /\ Snapshots
  /\ Approvable
  /\ Straight => Level

-----------------------------------------------------------------------------
(***************************************************************************)
(* Types.                                                                  *)
(***************************************************************************)

LEMMA Typed ==
  ASSUME TypeOK
  PROVE  /\ Latest \in Nat \ {0} /\ Len(log) \in Nat
         /\ \A v \in 1..Latest : publication[v] \in PublicationType /\ publication[v].base < v
         /\ \A i \in 1..Len(log) : log[i] \in RunType /\ log[i].version \in 1..Latest
         /\ \A p \in Publishers : publisher[p] \in PublisherType
         /\ \A h \in Deployers : deployer[h] \in DeployerType
<1>1. publication \in Seq(PublicationType) /\ log \in Seq(RunType) /\ publication # <<>>
  BY DEF TypeOK
<1>2. Len(publication) \in Nat /\ Len(publication) # 0 /\ Len(log) \in Nat
  BY <1>1
<1>3. \A v \in 1..Latest : publication[v] \in PublicationType
  BY <1>1, <1>2 DEF Latest
<1>4. \A i \in 1..Len(log) : log[i] \in RunType
  BY <1>1, <1>2
<1> QED
  BY <1>2, <1>3, <1>4 DEF TypeOK, Latest

LEMMA DocsTyped ==
  ASSUME TypeOK, NEW v \in 1..Latest
  PROVE  Desired(v) \in Docs /\ Base(v) \in Docs /\ NoRules \in Docs
<1>1. NoRules \in Docs
  BY DEF NoRules, Docs
<1>2. \A w \in 1..Latest : Desired(w) \in Docs
  BY Typed DEF Desired, PublicationType
<1>3. publication[v].base \in Nat /\ publication[v].base < v /\ v \in Nat /\ Latest \in Nat
  BY Typed DEF PublicationType
<1>4. publication[v].base \in {0, 1} \/ publication[v].base \in 1..Latest
  BY <1>3
<1> QED
  BY <1>1, <1>2, <1>4 DEF Base

(* A run's row gets a status.                                              *)
Marks(i, s) == log' = [log EXCEPT ![i] = [log[i] EXCEPT !.status = s]]
KeepsRow(j) == log'[j].version = log[j].version /\ log'[j].targets = log[j].targets

LEMMA RowMarked ==
  ASSUME TypeOK, NEW i \in 1..Len(log), NEW s \in {"none", "running", "succeeded", "failed"},
         Marks(i, s)
  PROVE  /\ log' \in Seq(RunType) /\ Len(log') = Len(log)
         /\ log'[i].status = s
         /\ \A j \in 1..Len(log) : KeepsRow(j) /\ (j # i => log'[j] = log[j])
<1>1. log \in Seq(RunType) /\ Len(log) \in Nat /\ log \in [1..Len(log) -> RunType]
  BY DEF TypeOK
<1>2. log' = [log EXCEPT ![i] = [log[i] EXCEPT !.status = s]]
  BY DEF Marks
<1>3. [log[i] EXCEPT !.status = s] \in RunType
  BY <1>1 DEF RunType
<1>4. log' \in [1..Len(log) -> RunType]
  BY <1>1, <1>2, <1>3
<1>5. log' \in Seq(RunType) /\ Len(log') = Len(log)
  BY <1>1, <1>4
<1>6. log'[i] = [log[i] EXCEPT !.status = s] /\ \A j \in 1..Len(log) : j # i => log'[j] = log[j]
  BY <1>1, <1>2
<1>7. log[i] \in RunType
  BY <1>1
<1>8. log'[i].status = s /\ log'[i].version = log[i].version /\ log'[i].targets = log[i].targets
  BY <1>6, <1>7 DEF RunType
<1> QED
  BY <1>5, <1>6, <1>8 DEF KeepsRow

(* A new row is added behind the others.                                   *)
LEMMA RowAdded ==
  ASSUME TypeOK, NEW row \in RunType, log' = Append(log, row)
  PROVE  /\ log' \in Seq(RunType) /\ Len(log') = Len(log) + 1
         /\ log'[Len(log) + 1] = row
         /\ \A j \in 1..Len(log) : log'[j] = log[j]
<1>1. log \in Seq(RunType)
  BY DEF TypeOK
<1> QED
  BY <1>1

LEMMA PublicationAdded ==
  ASSUME TypeOK, NEW x \in PublicationType, publication' = Append(publication, x)
  PROVE  /\ publication' \in Seq(PublicationType) /\ publication' # <<>>
         /\ Latest' = Latest + 1
         /\ publication'[Latest + 1] = x
         /\ \A v \in 1..Latest : publication'[v] = publication[v]
<1>1. publication \in Seq(PublicationType)
  BY DEF TypeOK
<1>2. Len(Append(publication, x)) = Len(publication) + 1
  BY <1>1
<1> QED
  BY <1>1, <1>2 DEF Latest

(* A handler goes on: its record keeps its row.                            *)
LEMMA DeployerMoved ==
  ASSUME TypeOK, NEW h \in Deployers,
         NEW pc \in {"idle", "selected", "running", "failing", "release"}, NEW d \in Docs,
         deployer' = [deployer EXCEPT ![h] = [pc |-> pc, row |-> deployer[h].row, before |-> d]]
  PROVE  /\ deployer' \in [Deployers -> DeployerType]
         /\ deployer'[h].pc = pc /\ deployer'[h].row = deployer[h].row /\ deployer'[h].before = d
         /\ \A g \in Deployers \ {h} : deployer'[g] = deployer[g]
<1>1. deployer \in [Deployers -> DeployerType] /\ deployer[h] \in DeployerType
  BY DEF TypeOK
<1>2. [pc |-> pc, row |-> deployer[h].row, before |-> d] \in DeployerType
  BY <1>1 DEF DeployerType
<1> QED
  BY <1>1, <1>2

-----------------------------------------------------------------------------
LEMMA InitTyped == Init => TypeOK
<1> SUFFICES ASSUME Init PROVE TypeOK
  OBVIOUS
<1>1. NoRules \in Docs
  BY DEF NoRules, Docs
<1>2. publication = <<[doc |-> NoRules, base |-> 0]>> /\ log = <<>>
  BY DEF Init
<1>3. [doc |-> NoRules, base |-> 0] \in PublicationType
  BY <1>1 DEF PublicationType
<1>4. publication \in Seq(PublicationType) /\ publication # <<>> /\ Latest = 1
      /\ publication[1].base = 0
  BY <1>2, <1>3 DEF Latest
<1>5. \A v \in 1..Latest : publication[v].base < v
  BY <1>4
<1>6. log \in Seq(RunType) /\ \A i \in 1..Len(log) : log[i].version \in 1..Latest
  BY <1>2
<1>7. lock \in [owner : Publishers \cup Deployers \cup {NoOwner}, stale : BOOLEAN]
  BY DEF Init, NoLock, NoOwner
<1>8. /\ publisher \in [Publishers -> PublisherType]
      /\ \A p \in Publishers : publisher[p].base <= Latest
  BY <1>1, <1>4 DEF Init, IdlePublisher, PublisherType
<1>9. /\ deployer \in [Deployers -> DeployerType]
      /\ \A h \in Deployers : deployer[h].pc = "idle"
  BY <1>1 DEF Init, IdleDeployer, DeployerType
<1>10. device \in Docs /\ {crashes, stalls} \subseteq Nat
  BY <1>1 DEF Init
<1> QED
  BY <1>4, <1>5, <1>6, <1>7, <1>8, <1>9, <1>10 DEF TypeOK

(* What TypeOK says of the handlers.                                       *)
HandlersTyped ==
  /\ publisher \in [Publishers -> PublisherType]
  /\ \A p \in Publishers : publisher[p].base <= Latest
  /\ deployer \in [Deployers -> DeployerType]
  /\ \A h \in Deployers : deployer[h].pc # "idle" => deployer[h].row \in 1..Len(log)

TablesTyped ==
  /\ publication \in Seq(PublicationType) /\ publication # <<>>
  /\ \A v \in 1..Latest : publication[v].base < v
  /\ log \in Seq(RunType)
  /\ \A i \in 1..Len(log) : log[i].version \in 1..Latest

OthersTyped ==
  /\ lock \in [owner : Publishers \cup Deployers \cup {NoOwner}, stale : BOOLEAN]
  /\ device \in Docs
  /\ {crashes, stalls} \subseteq Nat

LEMMA TypeOKParts == TypeOK <=> HandlersTyped /\ TablesTyped /\ OthersTyped
BY DEF TypeOK, HandlersTyped, TablesTyped, OthersTyped

LEMMA TablesUnchanged ==
  ASSUME TypeOK, UNCHANGED <<publication, log>> PROVE TablesTyped' /\ Latest' = Latest /\ Len(log') = Len(log)
<1>1. Latest' = Latest
  BY DEF Latest
<1> QED
  BY <1>1 DEF TypeOK, TablesTyped

(* A publisher's or a deployer's step leaves the other handlers alone.     *)
LEMMA PublisherTyped ==
  ASSUME TypeOK, NEW p \in Publishers, NEW x \in PublisherType, x.base <= Latest,
         publisher' = [publisher EXCEPT ![p] = x], deployer' = deployer,
         Latest' \in Nat, Latest <= Latest', log' = log
  PROVE  HandlersTyped'
<1>1. publisher' \in [Publishers -> PublisherType]
  BY DEF TypeOK
<1>2. ASSUME NEW q \in Publishers PROVE publisher'[q].base <= Latest'
  <2>1. publisher[q] \in PublisherType /\ publisher[q].base <= Latest /\ Latest \in Nat
    BY Typed DEF TypeOK
  <2>2. publisher'[q].base = x.base \/ publisher'[q].base = publisher[q].base
    BY DEF TypeOK
  <2> QED
    BY <2>1, <2>2 DEF PublisherType
<1> QED
  BY <1>1, <1>2 DEF HandlersTyped, TypeOK

LEMMA DeployerTyped ==
  ASSUME TypeOK, NEW h \in Deployers, deployer' \in [Deployers -> DeployerType],
         \A g \in Deployers \ {h} : deployer'[g] = deployer[g],
         deployer'[h].pc # "idle" => deployer'[h].row \in 1..Len(log'),
         publisher' = publisher, publication' = publication,
         Len(log') \in Nat, Len(log) <= Len(log')
  PROVE  HandlersTyped'
<1>1. ASSUME NEW g \in Deployers, deployer'[g].pc # "idle" PROVE deployer'[g].row \in 1..Len(log')
  <2>1. CASE g = h
    BY <1>1, <2>1
  <2>2. CASE g # h
    <3>1. deployer[g].row \in 1..Len(log) /\ Len(log) \in Nat
      BY <1>1, <2>2, Typed DEF TypeOK
    <3> QED
      BY <2>2, <3>1
  <2> QED
    BY <2>1, <2>2
<1>2. Latest' = Latest
  BY DEF Latest
<1> QED
  BY <1>1, <1>2 DEF HandlersTyped, TypeOK

(* A handler goes on with its row.                                         *)
LEMMA WentOn ==
  ASSUME HandlersTyped, NEW h \in Deployers, NEW pc
  PROVE  /\ [deployer EXCEPT ![h].pc = pc]
              = [deployer EXCEPT ![h] = [pc |-> pc, row |-> deployer[h].row, before |-> deployer[h].before]]
         /\ deployer[h].before \in Docs
<1>1. deployer \in [Deployers -> DeployerType] /\ deployer[h] \in DeployerType
  BY DEF HandlersTyped
<1>2. [deployer[h] EXCEPT !.pc = pc] = [pc |-> pc, row |-> deployer[h].row, before |-> deployer[h].before]
  BY <1>1 DEF DeployerType
<1>3. [deployer EXCEPT ![h].pc = pc] = [deployer EXCEPT ![h] = [deployer[h] EXCEPT !.pc = pc]]
  BY <1>1
<1>4. deployer[h].before \in Docs
  BY <1>1 DEF DeployerType
<1> QED
  BY <1>2, <1>3, <1>4

LEMMA DeviceTyped ==
  ASSUME TypeOK, NEW t \in Targets, NEW X \in SUBSET Rules, device' = [device EXCEPT ![t] = X]
  PROVE  device' \in Docs
BY DEF TypeOK, Docs

LEMMA NextTyped == TypeOK /\ [Next]_vars => TypeOK'
<1> SUFFICES ASSUME TypeOK, [Next]_vars PROVE TypeOK'
  OBVIOUS
<1> SUFFICES HandlersTyped' /\ TablesTyped' /\ OthersTyped'
  BY TypeOKParts, PTL
<1>0. HandlersTyped /\ TablesTyped /\ OthersTyped
  BY TypeOKParts
<1>t. /\ Latest \in Nat \ {0} /\ Len(log) \in Nat
      /\ \A p \in Publishers : publisher[p] \in PublisherType
      /\ \A h \in Deployers : deployer[h] \in DeployerType
      /\ NoRules \in Docs
  <2>1. NoRules \in Docs
    BY DEF NoRules, Docs
  <2> QED
    BY <2>1, Typed
<1>a. ASSUME NEW p \in Publishers, NEW x \in PublisherType, x.base <= Latest,
             publisher' = [publisher EXCEPT ![p] = x],
             UNCHANGED <<publication, log, deployer>>
      PROVE  HandlersTyped' /\ TablesTyped'
  <2>1. TablesTyped' /\ Latest' = Latest
    BY <1>a, TablesUnchanged
  <2>2. Latest' \in Nat /\ Latest <= Latest'
    BY <1>t, <2>1
  <2> QED
    BY <1>a, <2>1, <2>2, PublisherTyped
<1>b. ASSUME NEW p \in Publishers, CheckBase(p) \/ RefusePublication(p)
      PROVE  HandlersTyped' /\ TablesTyped' /\ OthersTyped'
  <2>1. UNCHANGED <<publication, log, lock, device, deployer, crashes, stalls>>
    BY <1>b DEF CheckBase, RefusePublication
  <2>2. PICK x \in PublisherType : x.base <= Latest /\ publisher' = [publisher EXCEPT ![p] = x]
    <3>1. /\ [pc |-> "checked", base |-> Latest] \in PublisherType
          /\ IdlePublisher \in PublisherType /\ IdlePublisher.base <= Latest
      BY <1>t DEF PublisherType, IdlePublisher
    <3> QED
      BY <1>b, <1>t, <3>1 DEF CheckBase, RefusePublication
  <2>3. OthersTyped'
    BY <1>0, <2>1 DEF OthersTyped
  <2> QED
    BY <1>a, <2>1, <2>2, <2>3
<1>1. ASSUME NEW p \in Publishers, AcquirePublicationLock(p)
      PROVE  HandlersTyped' /\ TablesTyped' /\ OthersTyped'
  <2> DEFINE x == [pc |-> "locked", base |-> publisher[p].base]
  <2>1. /\ UNCHANGED <<publication, log, device, deployer, crashes, stalls>>
        /\ lock' = [owner |-> p, stale |-> FALSE]
        /\ publisher' = [publisher EXCEPT ![p] = x]
    BY <1>1 DEF AcquirePublicationLock
  <2>2. x \in PublisherType /\ x.base <= Latest
    BY <1>0, <1>t DEF PublisherType, HandlersTyped
  <2>3. HandlersTyped' /\ TablesTyped'
    <3> HIDE DEF x
    <3> QED
      BY <1>a, <2>1, <2>2
  <2>4. OthersTyped'
    BY <1>0, <2>1 DEF OthersTyped
  <2> QED
    BY <2>3, <2>4
<1>2. ASSUME NEW p \in Publishers, FinalizePublication(p)
      PROVE  HandlersTyped' /\ TablesTyped' /\ OthersTyped'
  <2>1. PICK d \in Docs :
          /\ publisher[p] \in PublisherType /\ publisher[p].base <= Latest
          /\ publisher' = [publisher EXCEPT ![p] = [pc |-> "release", base |-> 0]]
          /\ publication' = Append(publication, [doc |-> d, base |-> publisher[p].base])
          /\ UNCHANGED <<log, lock, device, deployer, crashes, stalls>>
    BY <1>2, <1>t DEF FinalizePublication, TypeOK
  <2> DEFINE new == [doc |-> d, base |-> publisher[p].base]
             x == [pc |-> "release", base |-> 0]
  <2>2. /\ new \in PublicationType /\ new.base <= Latest
        /\ publication' = Append(publication, new)
    BY <2>1 DEF PublisherType, PublicationType
  <2>3. /\ publication' \in Seq(PublicationType) /\ publication' # <<>>
        /\ Latest' = Latest + 1
        /\ publication'[Latest + 1] = new
        /\ \A v \in 1..Latest : publication'[v] = publication[v]
    <3> HIDE DEF new
    <3> QED
      BY <1>t, <2>2, PublicationAdded
  <2>4. ASSUME NEW v \in 1..Latest' PROVE publication'[v].base < v
    <3>1. CASE v \in 1..Latest
      BY <1>0, <2>3, <3>1 DEF TablesTyped
    <3>2. CASE v = Latest + 1
      <4>1. publication'[v].base = new.base /\ new.base \in Nat
        BY <2>2, <2>3, <3>2 DEF PublicationType
      <4> HIDE DEF new
      <4> QED
        BY <1>t, <2>2, <3>2, <4>1
    <3> QED
      BY <1>t, <2>3, <3>1, <3>2
  <2>5. \A i \in 1..Len(log') : log'[i].version \in 1..Latest'
    BY <1>0, <1>t, <2>1, <2>3 DEF TablesTyped
  <2>6. TablesTyped'
    BY <1>0, <2>1, <2>3, <2>4, <2>5 DEF TablesTyped
  <2>8. x \in PublisherType /\ x.base <= Latest
    BY <1>t DEF PublisherType
  <2>9. HandlersTyped'
    <3>1. Latest' \in Nat /\ Latest <= Latest' /\ log' = log /\ deployer' = deployer
      BY <1>t, <2>1, <2>3
    <3>2. publisher' = [publisher EXCEPT ![p] = x]
      BY <2>1
    <3> HIDE DEF x
    <3> QED
      BY <2>8, <3>1, <3>2, PublisherTyped
  <2>10. OthersTyped'
    BY <1>0, <2>1 DEF OthersTyped
  <2> QED
    BY <2>6, <2>9, <2>10
<1>3. ASSUME NEW p \in Publishers, AbandonPublication(p) \/ ReleasePublication(p)
      PROVE  HandlersTyped' /\ TablesTyped' /\ OthersTyped'
  <2>1. /\ UNCHANGED <<publication, log, device, deployer, crashes, stalls>>
        /\ lock' = lock \/ lock' = NoLock
    BY <1>3 DEF AbandonPublication, ReleasePublication
  <2>2. PICK x \in PublisherType : x.base <= Latest /\ publisher' = [publisher EXCEPT ![p] = x]
    <3>1. /\ [pc |-> "release", base |-> 0] \in PublisherType
          /\ IdlePublisher \in PublisherType /\ IdlePublisher.base = 0 /\ 0 <= Latest
      BY <1>t DEF PublisherType, IdlePublisher
    <3> QED
      BY <1>3, <3>1 DEF AbandonPublication, ReleasePublication
  <2>3. OthersTyped'
    <3>1. NoLock \in [owner : Publishers \cup Deployers \cup {NoOwner}, stale : BOOLEAN]
      BY DEF NoLock
    <3>2. lock' \in [owner : Publishers \cup Deployers \cup {NoOwner}, stale : BOOLEAN]
      BY <1>0, <2>1, <3>1 DEF OthersTyped
    <3> QED
      BY <1>0, <2>1, <3>2 DEF OthersTyped
  <2>4. HandlersTyped' /\ TablesTyped'
    BY <1>a, <2>1, <2>2
  <2> QED
    BY <2>3, <2>4
<1>5. ASSUME NEW h \in Deployers, SelectTargets(h)
      PROVE  HandlersTyped' /\ TablesTyped' /\ OthersTyped'
  <2>1. PICK ts \in SUBSET Targets : log' = Append(log, [version |-> Latest, targets |-> ts, status |-> "none"])
    <3>1. \A ts \in {CommandTargets(Latest)} \cup {{t} : t \in CommandTargets(Latest)} : ts \in SUBSET Targets
      BY DEF CommandTargets
    <3> QED
      BY <1>5, <3>1 DEF SelectTargets
  <2> DEFINE row == [version |-> Latest, targets |-> ts, status |-> "none"]
             new == [pc |-> "selected", row |-> Len(log) + 1, before |-> NoRules]
  <2>2. /\ deployer' = [deployer EXCEPT ![h] = new]
        /\ UNCHANGED <<publication, lock, device, publisher, crashes, stalls>>
    BY <1>5 DEF SelectTargets
  <2>3. row \in RunType
    BY <1>t DEF RunType
  <2>4. /\ log' \in Seq(RunType) /\ Len(log') = Len(log) + 1 /\ log'[Len(log) + 1] = row
        /\ \A j \in 1..Len(log) : log'[j] = log[j]
    <3> HIDE DEF row
    <3> QED
      BY <2>1, <2>3, RowAdded DEF row
  <2>5. Latest' = Latest
    BY <2>2 DEF Latest
  <2>6. ASSUME NEW i \in 1..Len(log') PROVE log'[i].version \in 1..Latest'
    <3>1. CASE i \in 1..Len(log)
      BY <1>0, <2>4, <2>5, <3>1 DEF TablesTyped
    <3>2. CASE i = Len(log) + 1
      BY <1>t, <2>4, <2>5, <3>2
    <3> QED
      BY <1>t, <2>4, <3>1, <3>2
  <2>7. TablesTyped'
    BY <1>0, <2>2, <2>4, <2>5, <2>6 DEF TablesTyped
  <2>8. new \in DeployerType /\ new.row \in 1..Len(log')
    BY <1>t, <2>4 DEF DeployerType
  <2>9. /\ deployer' \in [Deployers -> DeployerType] /\ deployer'[h] = new
        /\ \A g \in Deployers \ {h} : deployer'[g] = deployer[g]
    <3> HIDE DEF new
    <3> QED
      BY <1>0, <2>2, <2>8 DEF HandlersTyped
  <2>10. HandlersTyped'
    <3> HIDE DEF new
    <3> QED
      BY <1>t, <2>2, <2>4, <2>8, <2>9, DeployerTyped
  <2>11. OthersTyped'
    BY <1>0, <2>2 DEF OthersTyped
  <2> QED
    BY <2>7, <2>10, <2>11
<1>6. ASSUME NEW h \in Deployers, NEW pc \in {"running", "failing", "release"}, NEW d \in Docs,
             NEW s \in {"none", "running", "succeeded", "failed"},
             NEW i, i = deployer[h].row, deployer[h].pc # "idle",
             deployer' = [deployer EXCEPT ![h] = [pc |-> pc, row |-> deployer[h].row, before |-> d]],
             log' = log \/ Marks(i, s),
             UNCHANGED <<publication, publisher>>
      PROVE  HandlersTyped' /\ TablesTyped'
  <2>1. i \in 1..Len(log)
    BY <1>0, <1>6 DEF HandlersTyped
  <2>2. /\ log' \in Seq(RunType) /\ Len(log') = Len(log)
        /\ \A j \in 1..Len(log) : KeepsRow(j)
    <3>1. CASE log' = log
      BY <1>0, <3>1 DEF TablesTyped, KeepsRow
    <3>2. CASE Marks(i, s)
      BY <2>1, <3>2, RowMarked
    <3> QED
      BY <1>6, <3>1, <3>2
  <2>3. Latest' = Latest
    BY <1>6 DEF Latest
  <2>4. TablesTyped'
    <3>1. ASSUME NEW j \in 1..Len(log') PROVE log'[j].version \in 1..Latest'
      BY <1>0, <2>2, <2>3 DEF TablesTyped, KeepsRow
    <3>2. publication' \in Seq(PublicationType) /\ publication' # <<>>
          /\ \A v \in 1..Latest' : publication'[v].base < v
      BY <1>0, <1>6, <2>3 DEF TablesTyped
    <3> QED
      BY <2>2, <3>1, <3>2 DEF TablesTyped
  <2>5. /\ deployer' \in [Deployers -> DeployerType] /\ deployer'[h].row = deployer[h].row
        /\ \A g \in Deployers \ {h} : deployer'[g] = deployer[g]
    <3>1. pc \in {"idle", "selected", "running", "failing", "release"}
      OBVIOUS
    <3> QED
      BY <1>6, <3>1, DeployerMoved
  <2>6. HandlersTyped'
    BY <1>6, <1>t, <2>1, <2>2, <2>5, DeployerTyped
  <2> QED
    BY <2>4, <2>6
<1>7. ASSUME NEW h \in Deployers, StartDeploymentLog(h)
      PROVE  HandlersTyped' /\ TablesTyped' /\ OthersTyped'
  <2>1. /\ deployer[h].pc # "idle" /\ device \in Docs
        /\ deployer' = [deployer EXCEPT ![h] = [pc |-> "running", row |-> deployer[h].row, before |-> device]]
        /\ Marks(deployer[h].row, "running")
        /\ UNCHANGED <<publication, device, publisher, crashes, stalls>>
        /\ lock' = [owner |-> h, stale |-> FALSE]
    BY <1>7, <1>0 DEF StartDeploymentLog, OthersTyped, Marks
  <2>3. HandlersTyped' /\ TablesTyped'
    BY <1>6, <2>1
  <2>4. OthersTyped'
    BY <1>0, <2>1 DEF OthersTyped
  <2> QED
    BY <2>3, <2>4
<1>8. ASSUME NEW h \in Deployers, RefuseDeployment(h) \/ ReleaseDeploymentLock(h)
      PROVE  HandlersTyped' /\ TablesTyped' /\ OthersTyped'
  <2>1. /\ deployer' = [deployer EXCEPT ![h] = IdleDeployer]
        /\ UNCHANGED <<publication, log, device, publisher, crashes, stalls>>
        /\ lock' = lock \/ lock' = NoLock
    BY <1>8 DEF RefuseDeployment, ReleaseDeploymentLock
  <2>2. IdleDeployer \in DeployerType /\ IdleDeployer.pc = "idle"
    BY <1>t DEF IdleDeployer, DeployerType
  <2>3. /\ deployer' \in [Deployers -> DeployerType] /\ deployer'[h].pc = "idle"
        /\ \A g \in Deployers \ {h} : deployer'[g] = deployer[g]
    BY <1>0, <2>1, <2>2 DEF HandlersTyped
  <2>4. TablesTyped' /\ Len(log') = Len(log)
    BY <2>1, TablesUnchanged
  <2>5. HandlersTyped'
    BY <1>t, <2>1, <2>3, <2>4, DeployerTyped
  <2>6. OthersTyped'
    <3>1. NoLock \in [owner : Publishers \cup Deployers \cup {NoOwner}, stale : BOOLEAN]
      BY DEF NoLock
    <3>2. lock' \in [owner : Publishers \cup Deployers \cup {NoOwner}, stale : BOOLEAN]
      BY <1>0, <2>1, <3>1 DEF OthersTyped
    <3> QED
      BY <1>0, <2>1, <3>2 DEF OthersTyped
  <2> QED
    BY <2>4, <2>5, <2>6
<1>9. ASSUME NEW h \in Deployers, FailRun(h)
      PROVE  HandlersTyped' /\ TablesTyped' /\ OthersTyped'
  <2>1. /\ deployer[h].pc # "idle" /\ deployer' = [deployer EXCEPT ![h].pc = "failing"]
        /\ UNCHANGED <<publication, log, lock, device, publisher, crashes, stalls>>
    BY <1>9 DEF FailRun
  <2>2. /\ deployer' = [deployer EXCEPT ![h] =
                          [pc |-> "failing", row |-> deployer[h].row, before |-> deployer[h].before]]
        /\ deployer[h].before \in Docs
    BY <1>0, <2>1, WentOn
  <2>3. HandlersTyped' /\ TablesTyped'
    BY <1>6, <2>1, <2>2
  <2>4. OthersTyped'
    BY <1>0, <2>1 DEF OthersTyped
  <2> QED
    BY <2>3, <2>4
<1>10. ASSUME NEW h \in Deployers, FinishDeploymentLog(h)
      PROVE  HandlersTyped' /\ TablesTyped' /\ OthersTyped'
  <2>1. /\ deployer[h].pc # "idle"
        /\ deployer' = [deployer EXCEPT ![h] = [pc |-> "release", row |-> deployer[h].row, before |-> NoRules]]
        /\ UNCHANGED <<publication, lock, device, publisher, crashes, stalls>>
    BY <1>10 DEF FinishDeploymentLog
  <2>2. PICK s \in {"succeeded", "failed"} :
           log' = log \/ Marks(deployer[h].row, s)
    BY <1>10 DEF FinishDeploymentLog, Marks
  <2>3. s \in {"none", "running", "succeeded", "failed"} /\ NoRules \in Docs
    BY <1>t
  <2>4. HandlersTyped' /\ TablesTyped'
    BY <1>6, <2>1, <2>2, <2>3
  <2>5. OthersTyped'
    BY <1>0, <2>1 DEF OthersTyped
  <2> QED
    BY <2>4, <2>5
<1>11. ASSUME NEW h \in Deployers, NEW t \in Targets, NEW r \in Rules,
              ExecuteCommand(h, t, r) \/ Compensate(h, t, r)
      PROVE  HandlersTyped' /\ TablesTyped' /\ OthersTyped'
  <2>1. device[t] \in SUBSET Rules
    BY <1>0 DEF OthersTyped, Docs
  <2>2. /\ \E X \in SUBSET Rules : device' = [device EXCEPT ![t] = X]
        /\ UNCHANGED <<publication, log, lock, publisher, deployer, crashes, stalls>>
    <3>1. device[t] \cup {r} \in SUBSET Rules /\ device[t] \ {r} \in SUBSET Rules
      BY <2>1
    <3> QED
      BY <1>11, <3>1 DEF ExecuteCommand, Compensate
  <2>3. device' \in Docs
    BY <2>2, DeviceTyped
  <2>4. TablesTyped' /\ Latest' = Latest /\ Len(log') = Len(log)
    BY <2>2, TablesUnchanged
  <2>5. HandlersTyped'
    BY <1>0, <2>2, <2>4 DEF HandlersTyped
  <2>6. OthersTyped'
    BY <1>0, <2>2, <2>3 DEF OthersTyped
  <2> QED
    BY <2>4, <2>5, <2>6
<1>12. CASE Crash
  <2>1. /\ publisher' = [p \in Publishers |-> IdlePublisher]
        /\ deployer' = [h \in Deployers |-> IdleDeployer]
        /\ crashes' = crashes + 1
        /\ UNCHANGED <<publication, log, lock, device, stalls>>
    BY <1>12 DEF Crash
  <2>2. /\ IdlePublisher \in PublisherType /\ IdlePublisher.base = 0
        /\ IdleDeployer \in DeployerType /\ IdleDeployer.pc = "idle"
    BY <1>t DEF IdlePublisher, PublisherType, IdleDeployer, DeployerType
  <2>3. TablesTyped' /\ Latest' = Latest
    BY <2>1, TablesUnchanged
  <2>4. HandlersTyped'
    BY <1>t, <2>1, <2>2, <2>3 DEF HandlersTyped
  <2>5. OthersTyped'
    BY <1>0, <2>1 DEF OthersTyped
  <2> QED
    BY <2>3, <2>4, <2>5
<1>13. CASE ExpireLock
  <2>1. /\ UNCHANGED <<publication, log, device, publisher, deployer, crashes>>
        /\ lock' = [lock EXCEPT !.stale = TRUE]
        /\ stalls' = stalls \/ stalls' = stalls + 1
    BY <1>13 DEF ExpireLock
  <2>2. TablesTyped' /\ Latest' = Latest /\ Len(log') = Len(log)
    BY <2>1, TablesUnchanged
  <2>3. HandlersTyped'
    BY <1>0, <2>1, <2>2 DEF HandlersTyped
  <2>4. lock' \in [owner : Publishers \cup Deployers \cup {NoOwner}, stale : BOOLEAN]
    BY <1>0, <2>1 DEF OthersTyped
  <2>5. OthersTyped'
    BY <1>0, <2>1, <2>4 DEF OthersTyped
  <2> QED
    BY <2>2, <2>3, <2>5
<1>14. CASE UNCHANGED vars
  <2>1. UNCHANGED <<publication, log, lock, device, publisher, deployer, crashes, stalls>>
    BY <1>14 DEF vars
  <2>2. TablesTyped' /\ Latest' = Latest /\ Len(log') = Len(log)
    BY <2>1, TablesUnchanged
  <2>3. HandlersTyped' /\ OthersTyped'
    BY <1>0, <2>1, <2>2 DEF HandlersTyped, OthersTyped
  <2> QED
    BY <2>2, <2>3
<1> QED
  BY <1>b, <1>1, <1>2, <1>3, <1>5, <1>7, <1>8, <1>9, <1>10, <1>11, <1>12, <1>13, <1>14 DEF Next

(* The gate's state keeps its types.                                       *)
THEOREM GateTyped == Spec => []TypeOK
<1> QED
  BY InitTyped, NextTyped, PTL DEF Spec

-----------------------------------------------------------------------------
(***************************************************************************)
(* The interlock: a live run owns the fresh lock, its row is running and   *)
(* its version is the latest.                                              *)
(***************************************************************************)

LEMMA NobodyRuns ==
  ASSUME Interlocked, LockFree \/ lock.owner \notin Deployers
  PROVE  \A h \in Deployers : ~Live(h)
<1> SUFFICES ASSUME NEW h \in Deployers, Live(h) PROVE FALSE
  OBVIOUS
<1>1. lock.owner = h /\ ~lock.stale
  BY DEF Interlocked, Attended
<1>2. lock # NoLock
  BY <1>1, GateAssumption DEF NoLock, NoOwner
<1> QED
  BY <1>1, <1>2 DEF LockFree

LEMMA AttendedKept ==
  ASSUME NEW h \in Deployers, Attended(h), deployer'[h] = deployer[h],
         deployer[h].pc # "idle" => log'[deployer[h].row] = log[deployer[h].row],
         Live(h) => lock' = lock /\ Latest' = Latest
  PROVE  Attended(h)'
<1>1. deployer'[h].pc = deployer[h].pc /\ deployer'[h].row = deployer[h].row
  OBVIOUS
<1>2. ASSUME deployer[h].pc # "idle" PROVE log'[deployer'[h].row] = log[deployer[h].row]
  BY <1>1, <1>2
<1>3. ASSUME deployer'[h].pc = "selected" PROVE log'[deployer'[h].row].status = "none"
  BY <1>1, <1>2, <1>3 DEF Attended, Run
<1>4. ASSUME deployer'[h].pc \in {"running", "failing"}
      PROVE  /\ lock'.owner = h /\ ~lock'.stale
             /\ log'[deployer'[h].row].status = "running"
             /\ log'[deployer'[h].row].version = Latest'
  BY <1>1, <1>2, <1>4 DEF Attended, Run, Live
<1> QED
  BY <1>3, <1>4 DEF Attended, Run, Live

LEMMA OwnRowsKept ==
  ASSUME OwnRows, NEW h \in Deployers, \A g \in Deployers \ {h} : deployer'[g] = deployer[g],
         \/ deployer'[h].pc = "idle"
         \/ deployer[h].pc # "idle" /\ deployer'[h].row = deployer[h].row
  PROVE  OwnRows'
BY DEF OwnRows

(* The actions that leave deployers and protocol alone.                    *)
LEMMA NoHandlerMoves ==
  ASSUME Interlocked, UNCHANGED <<deployer, log>>,
         \A h \in Deployers : Live(h) => lock' = lock /\ Latest' = Latest
  PROVE  OwnRows' /\ \A h \in Deployers : Attended(h)'
<1>1. OwnRows'
  BY DEF Interlocked, OwnRows
<1>2. ASSUME NEW h \in Deployers PROVE Attended(h)'
  BY AttendedKept DEF Interlocked
<1> QED
  BY <1>1, <1>2

LEMMA InterlockHolds == Interlocked /\ [Next]_vars => Interlocked'
<1> SUFFICES ASSUME Interlocked, [Next]_vars PROVE OwnRows' /\ \A h \in Deployers : Attended(h)'
  <2>1. Interlocked /\ [Next]_vars => TypeOK'
    BY NextTyped DEF Interlocked
  <2> QED
    BY <2>1 DEF Interlocked
<1>0. /\ TypeOK /\ OwnRows /\ \A h \in Deployers : Attended(h)
      /\ deployer \in [Deployers -> DeployerType]
      /\ \A h \in Deployers : deployer[h].pc # "idle" => deployer[h].row \in 1..Len(log)
      /\ Len(log) \in Nat
  BY Typed DEF Interlocked, TypeOK
<1>1. ASSUME NEW p \in Publishers, AcquirePublicationLock(p)
      PROVE  OwnRows' /\ \A h \in Deployers : Attended(h)'
  <2>1. LockFree /\ UNCHANGED <<deployer, log>>
    BY <1>1 DEF AcquirePublicationLock
  <2> QED
    BY <2>1, NobodyRuns, NoHandlerMoves
<1>2. ASSUME NEW p \in Publishers, FinalizePublication(p)
      PROVE  OwnRows' /\ \A h \in Deployers : Attended(h)'
  <2>1. (LockFree \/ lock.owner = p) /\ UNCHANGED <<deployer, log>> /\ p \notin Deployers
    BY <1>2, GateAssumption DEF FinalizePublication, Finalizable
  <2> QED
    BY <2>1, NobodyRuns, NoHandlerMoves
<1>3. ASSUME NEW p \in Publishers, CheckBase(p) \/ RefusePublication(p) \/ AbandonPublication(p)
      PROVE  OwnRows' /\ \A h \in Deployers : Attended(h)'
  <2>1. UNCHANGED <<deployer, log, lock>> /\ Latest' = Latest
    BY <1>3 DEF CheckBase, RefusePublication, AbandonPublication, Latest
  <2> QED
    BY <2>1, NoHandlerMoves
<1>4. ASSUME NEW p \in Publishers, ReleasePublication(p)
      PROVE  OwnRows' /\ \A h \in Deployers : Attended(h)'
  <2>1. UNCHANGED <<deployer, log>> /\ Latest' = Latest /\ p \notin Deployers
    BY <1>4, GateAssumption DEF ReleasePublication, Latest
  <2>2. lock' = lock \/ lock.owner = p
    BY <1>4 DEF ReleasePublication
  <2>3. CASE lock' = lock
    BY <2>1, <2>3, NoHandlerMoves
  <2>4. CASE lock.owner = p
    BY <2>1, <2>4, NobodyRuns, NoHandlerMoves
  <2> QED
    BY <2>2, <2>3, <2>4
<1>5. ASSUME NEW h \in Deployers, SelectTargets(h)
      PROVE  OwnRows' /\ \A g \in Deployers : Attended(g)'
  <2>1. PICK ts \in SUBSET Targets : log' = Append(log, [version |-> Latest, targets |-> ts, status |-> "none"])
    <3>1. \A ts \in {CommandTargets(Latest)} \cup {{t} : t \in CommandTargets(Latest)} : ts \in SUBSET Targets
      BY DEF CommandTargets
    <3> QED
      BY <1>5, <3>1 DEF SelectTargets
  <2> DEFINE row == [version |-> Latest, targets |-> ts, status |-> "none"]
             new == [pc |-> "selected", row |-> Len(log) + 1, before |-> NoRules]
  <2>2. /\ deployer' = [deployer EXCEPT ![h] = new]
        /\ UNCHANGED <<publication, lock>>
    BY <1>5 DEF SelectTargets
  <2>3. row \in RunType
    BY Typed, <1>0 DEF RunType
  <2>4. log'[Len(log) + 1] = row /\ \A j \in 1..Len(log) : log'[j] = log[j]
    <3>1. log' = Append(log, row)
      BY <2>1
    <3> HIDE DEF row
    <3> QED
      BY <1>0, <2>3, <3>1, RowAdded
  <2>5. deployer'[h] = new /\ \A g \in Deployers \ {h} : deployer'[g] = deployer[g]
    <3> HIDE DEF new
    <3> QED
      BY <1>0, <2>2
  <2>6. Latest' = Latest
    BY <2>2 DEF Latest
  <2>7. ASSUME NEW g \in Deployers PROVE Attended(g)'
    <3>1. CASE g = h
      <4>1. deployer'[h].pc = "selected" /\ log'[deployer'[h].row].status = "none"
        BY <2>4, <2>5
      <4> QED
        BY <3>1, <4>1 DEF Attended, Live, Run
    <3>2. CASE g # h
      BY <1>0, <2>2, <2>4, <2>5, <2>6, <3>2, AttendedKept
    <3> QED
      BY <3>1, <3>2
  <2>8. OwnRows'
    <3>1. ASSUME NEW g \in Deployers \ {h}, deployer'[g].pc # "idle" PROVE deployer'[g].row \in 1..Len(log)
      BY <1>0, <2>5, <3>1
    <3>2. deployer'[h].row = Len(log) + 1
      BY <2>5
    <3>3. ASSUME NEW f \in Deployers \ {h}, NEW g \in Deployers \ {h}, f # g,
                 deployer'[f].pc # "idle", deployer'[g].pc # "idle"
          PROVE  deployer'[f].row # deployer'[g].row
      BY <1>0, <2>5, <3>3 DEF OwnRows
    <3> HIDE DEF new
    <3>4. \A g \in Deployers \ {h} : deployer'[g].pc # "idle" => deployer'[g].row # deployer'[h].row
      BY <1>0, <3>1, <3>2
    <3> QED
      BY <3>3, <3>4 DEF OwnRows
  <2> QED
    BY <2>7, <2>8
<1>6. ASSUME NEW h \in Deployers, StartDeploymentLog(h)
      PROVE  OwnRows' /\ \A g \in Deployers : Attended(g)'
  <2>1. /\ deployer[h].pc = "selected" /\ LockFree /\ Run(h).version = Latest
        /\ lock' = [owner |-> h, stale |-> FALSE]
        /\ Marks(deployer[h].row, "running")
        /\ deployer' = [deployer EXCEPT ![h] = [pc |-> "running", row |-> deployer[h].row, before |-> device]]
        /\ UNCHANGED publication
    BY <1>6 DEF StartDeploymentLog, Marks
  <2>2. /\ deployer'[h].pc = "running" /\ deployer'[h].row = deployer[h].row
        /\ \A g \in Deployers \ {h} : deployer'[g] = deployer[g]
    BY <1>0, <2>1
  <2>3. PICK i \in 1..Len(log) : i = deployer[h].row
    BY <1>0, <2>1
  <2>4. log'[i].status = "running" /\ \A j \in 1..Len(log) : KeepsRow(j) /\ (j # i => log'[j] = log[j])
    <3>1. Marks(i, "running")
      BY <2>1, <2>3
    <3> QED
      BY <1>0, <3>1, RowMarked
  <2>5. Latest' = Latest
    BY <2>1 DEF Latest
  <2>6. ASSUME NEW g \in Deployers PROVE Attended(g)'
    <3>1. CASE g = h
      <4>1. log'[i].version = Latest'
        BY <2>1, <2>3, <2>4, <2>5 DEF KeepsRow, Run
      <4>2. deployer'[g].pc = "running" /\ deployer'[g].row = i
        BY <2>2, <2>3, <3>1
      <4>3. lock'.owner = g /\ ~lock'.stale
        BY <2>1, <3>1
      <4> QED
        BY <2>4, <4>1, <4>2, <4>3 DEF Attended, Live, Run
    <3>2. CASE g # h
      <4>1. ~Live(g)
        BY <2>1, NobodyRuns
      <4>2. deployer[g].pc # "idle" => deployer[g].row \in 1..Len(log) /\ deployer[g].row # i
        BY <1>0, <2>1, <2>3, <3>2 DEF OwnRows
      <4>3. deployer[g].pc # "idle" => log'[deployer[g].row] = log[deployer[g].row]
        BY <2>4, <4>2
      <4> QED
        BY <1>0, <2>2, <3>2, <4>1, <4>3, AttendedKept
    <3> QED
      BY <3>1, <3>2
  <2>7. OwnRows'
    BY <1>0, <2>1, <2>2, OwnRowsKept
  <2> QED
    BY <2>6, <2>7
<1>7. ASSUME NEW h \in Deployers, RefuseDeployment(h) \/ ReleaseDeploymentLock(h)
      PROVE  OwnRows' /\ \A g \in Deployers : Attended(g)'
  <2>1. /\ deployer' = [deployer EXCEPT ![h] = IdleDeployer]
        /\ UNCHANGED <<publication, log>>
        /\ lock' = lock \/ lock.owner = h
        /\ deployer[h].pc \notin {"running", "failing"}
    BY <1>7 DEF RefuseDeployment, ReleaseDeploymentLock
  <2>2. deployer'[h].pc = "idle" /\ \A g \in Deployers \ {h} : deployer'[g] = deployer[g]
    BY <1>0, <2>1 DEF IdleDeployer
  <2>3. Latest' = Latest
    BY <2>1 DEF Latest
  <2>4. ASSUME NEW g \in Deployers PROVE Attended(g)'
    <3>1. CASE g = h
      BY <2>2, <3>1 DEF Attended, Live
    <3>2. CASE g # h
      <4>1. Live(g) => lock.owner = g
        BY <1>0 DEF Attended
      <4>2. Live(g) => lock' = lock
        BY <2>1, <3>2, <4>1
      <4> QED
        BY <1>0, <2>1, <2>2, <2>3, <3>2, <4>2, AttendedKept
    <3> QED
      BY <3>1, <3>2
  <2>5. OwnRows'
    BY <1>0, <2>2, OwnRowsKept
  <2> QED
    BY <2>4, <2>5
<1>8. ASSUME NEW h \in Deployers, FailRun(h)
      PROVE  OwnRows' /\ \A g \in Deployers : Attended(g)'
  <2>1. /\ deployer[h].pc = "running" /\ deployer' = [deployer EXCEPT ![h].pc = "failing"]
        /\ UNCHANGED <<publication, log, lock>>
    BY <1>8 DEF FailRun
  <2>2. deployer[h] \in DeployerType
    BY <1>0
  <2>3. /\ deployer'[h].pc = "failing" /\ deployer'[h].row = deployer[h].row
        /\ \A g \in Deployers \ {h} : deployer'[g] = deployer[g]
    BY <1>0, <2>1, <2>2 DEF DeployerType
  <2>4. Latest' = Latest
    BY <2>1 DEF Latest
  <2>5. ASSUME NEW g \in Deployers PROVE Attended(g)'
    <3>1. CASE g = h
      <4>1. Live(h) /\ Attended(h)
        BY <1>0, <2>1 DEF Live
      <4> QED
        BY <2>1, <2>3, <2>4, <3>1, <4>1 DEF Attended, Live, Run
    <3>2. CASE g # h
      BY <1>0, <2>1, <2>3, <2>4, <3>2, AttendedKept
    <3> QED
      BY <3>1, <3>2
  <2>6. OwnRows'
    BY <1>0, <2>1, <2>3, OwnRowsKept
  <2> QED
    BY <2>5, <2>6
<1>9. ASSUME NEW h \in Deployers, FinishDeploymentLog(h)
      PROVE  OwnRows' /\ \A g \in Deployers : Attended(g)'
  <2>1. /\ deployer[h].pc \in {"running", "failing"}
        /\ deployer' = [deployer EXCEPT ![h] = [pc |-> "release", row |-> deployer[h].row, before |-> NoRules]]
        /\ UNCHANGED <<publication, lock>>
    BY <1>9 DEF FinishDeploymentLog
  <2>2. PICK s \in {"succeeded", "failed"} : log' = log \/ Marks(deployer[h].row, s)
    BY <1>9 DEF FinishDeploymentLog, Marks
  <2>3. /\ deployer'[h].pc = "release" /\ deployer'[h].row = deployer[h].row
        /\ \A g \in Deployers \ {h} : deployer'[g] = deployer[g]
    BY <1>0, <2>1
  <2>4. PICK i \in 1..Len(log) : i = deployer[h].row
    BY <1>0, <2>1
  <2>5. \A j \in 1..Len(log) : j # i => log'[j] = log[j]
    <3>1. CASE log' = log
      BY <3>1
    <3>2. CASE Marks(i, s)
      <4>1. s \in {"none", "running", "succeeded", "failed"}
        OBVIOUS
      <4> QED
        BY <1>0, <3>2, <4>1, RowMarked
    <3> QED
      BY <2>2, <2>4, <3>1, <3>2
  <2>6. Latest' = Latest
    BY <2>1 DEF Latest
  <2>7. ASSUME NEW g \in Deployers PROVE Attended(g)'
    <3>1. CASE g = h
      BY <2>3, <3>1 DEF Attended, Live
    <3>2. CASE g # h
      <4>1. deployer[g].pc # "idle" => deployer[g].row \in 1..Len(log) /\ deployer[g].row # i
        BY <1>0, <2>1, <2>4, <3>2 DEF OwnRows
      <4>2. deployer[g].pc # "idle" => log'[deployer[g].row] = log[deployer[g].row]
        BY <2>5, <4>1
      <4> QED
        BY <1>0, <2>1, <2>3, <2>6, <3>2, <4>2, AttendedKept
    <3> QED
      BY <3>1, <3>2
  <2>8. OwnRows'
    BY <1>0, <2>1, <2>3, OwnRowsKept
  <2> QED
    BY <2>7, <2>8
<1>10. ASSUME NEW h \in Deployers, NEW t \in Targets, NEW r \in Rules,
              ExecuteCommand(h, t, r) \/ Compensate(h, t, r)
      PROVE  OwnRows' /\ \A g \in Deployers : Attended(g)'
  <2>1. UNCHANGED <<deployer, log, lock>> /\ Latest' = Latest
    BY <1>10 DEF ExecuteCommand, Compensate, Latest
  <2> QED
    BY <2>1, NoHandlerMoves
<1>11. CASE Crash
  <2>1. \A h \in Deployers : deployer'[h].pc = "idle"
    BY <1>11 DEF Crash, IdleDeployer
  <2> QED
    BY <2>1 DEF OwnRows, Attended, Live
<1>12. CASE ExpireLock
  <2>1. UNCHANGED <<deployer, log>> /\ Latest' = Latest /\ ~LiveRun
    BY <1>12 DEF ExpireLock, Latest
  <2>2. \A h \in Deployers : ~Live(h)
    BY <1>0, <2>1 DEF LiveRun, Attended, Live
  <2> QED
    BY <2>1, <2>2, NoHandlerMoves
<1>13. CASE UNCHANGED vars
  <2>1. UNCHANGED <<deployer, log, lock>> /\ Latest' = Latest
    BY <1>13 DEF vars, Latest
  <2> QED
    BY <2>1, NoHandlerMoves
<1> QED
  BY <1>1, <1>2, <1>3, <1>4, <1>5, <1>6, <1>7, <1>8, <1>9, <1>10, <1>11, <1>12, <1>13 DEF Next

LEMMA InitInterlocked == Init => Interlocked
<1> SUFFICES ASSUME Init PROVE Interlocked
  OBVIOUS
<1>1. \A h \in Deployers : deployer[h].pc = "idle"
  BY DEF Init, IdleDeployer
<1> QED
  BY <1>1, InitTyped DEF Interlocked, OwnRows, Attended, Live

(* No publication overtakes a run, no run starts or survives a later       *)
(* publication (startDeploymentLog, finalizePublicationWithSetupClaim).    *)
THEOREM InterlockSafe == Spec => []NoSupersededRun
<1>1. Spec => []Interlocked
  BY InitInterlocked, InterlockHolds, PTL DEF Spec
<1>2. Interlocked => NoSupersededRun
  BY DEF Interlocked, Attended, Live, NoSupersededRun
<1> QED
  BY <1>1, <1>2, PTL

-----------------------------------------------------------------------------
(***************************************************************************)
(* The devices: the latest plan is carried out on every target with a      *)
(* successful run, and in a straight history nothing else is there.        *)
(***************************************************************************)

LEMMA NowTyped ==
  ASSUME TypeOK
  PROVE  /\ DesiredNow \in Docs /\ BaseNow \in Docs /\ device \in Docs
         /\ \A h \in Deployers : deployer[h].before \in Docs
         /\ Done \subseteq Targets
<1>1. Latest \in 1..Latest
  BY Typed
<1>2. \A h \in Deployers : deployer[h].before \in Docs
  BY Typed DEF DeployerType
<1> QED
  BY <1>1, <1>2, DocsTyped DEF DesiredNow, BaseNow, TypeOK, Done

LEMMA NowFixed ==
  ASSUME UNCHANGED publication
  PROVE  /\ Latest' = Latest /\ DesiredNow' = DesiredNow /\ BaseNow' = BaseNow
         /\ CommandTargets(Latest)' = CommandTargets(Latest) /\ (Setup => Setup')
         /\ Straight' = Straight
BY DEF Latest, DesiredNow, BaseNow, Desired, Base, CommandTargets, Setup, Straight

(* The setup's publication wants nothing.                                  *)
LEMMA SetupIsEmpty ==
  ASSUME Setup, Latest = 1 PROVE DesiredNow = NoRules /\ BaseNow = NoRules
<1>1. publication[1].doc = NoRules /\ publication[1].base = 0
  BY DEF Setup
<1> QED
  BY <1>1 DEF DesiredNow, BaseNow, Desired, Base

(* Once every target with commands has a successful run, the latest plan   *)
(* is carried out everywhere: without commands there is nothing to do.     *)
LEMMA ConfirmedIsCarriedOut ==
  ASSUME TypeOK, Grounded, Confirmed
  PROVE  Installs(device, BaseNow, DesiredNow, Targets)
<1>1. ASSUME NEW t \in Targets, t \notin Done PROVE DesiredNow[t] \cup BaseNow[t] = {}
  <2>1. CASE Latest = 1
    BY <1>1, <2>1, SetupIsEmpty DEF Grounded, NoRules
  <2>2. CASE Latest # 1
    BY <1>1, <2>2 DEF Confirmed, CommandTargets, DesiredNow, BaseNow
  <2> QED
    BY <2>1, <2>2
<1> QED
  BY <1>1 DEF Grounded, Installs

(* In a straight history the devices hold nothing else.                    *)
LEMMA ConfirmedIsInstalled ==
  ASSUME TypeOK, Grounded, Confirmed, Straight PROVE device = DesiredNow
<1>1. DesiredNow \in Docs /\ device \in Docs
  BY NowTyped
<1>2. Installs(device, BaseNow, DesiredNow, Targets) /\ Between(device, BaseNow, DesiredNow)
  BY ConfirmedIsCarriedOut DEF Grounded, Level
<1>3. \A t \in Targets : device[t] = DesiredNow[t]
  BY <1>2 DEF Installs, Between
<1> QED
  BY <1>1, <1>3 DEF Docs

LEMMA GateConfirms ==
  ASSUME LatestPublicationDeployed PROVE Confirmed
<1> SUFFICES ASSUME NEW t \in CommandTargets(Latest) PROVE t \in Done
  BY DEF Confirmed
<1>1. PICK i \in Rows(Latest, t) : log[i].status = "succeeded"
  BY DEF LatestPublicationDeployed, Deployed
<1>2. t \in Targets
  BY DEF CommandTargets
<1> QED
  BY <1>1, <1>2 DEF Done

(* Steps that touch neither publications nor devices nor a success.        *)
LEMMA CalmStep ==
  ASSUME TypeOK, Grounded, UNCHANGED <<publication, device>>, Done' = Done,
         \A h \in Deployers : Live(h)' =>
           \/ deployer'[h].before = device
           \/ Live(h) /\ deployer'[h].before = deployer[h].before,
         \A p \in Publishers : publisher'[p].pc = "locked" =>
           Confirmed \/ publisher'[p] = publisher[p]
  PROVE  Grounded'
<1>1. /\ Latest' = Latest /\ DesiredNow' = DesiredNow /\ BaseNow' = BaseNow
      /\ CommandTargets(Latest)' = CommandTargets(Latest) /\ Setup' /\ Straight' = Straight
  BY NowFixed DEF Grounded
<1>2. Installs(device', BaseNow', DesiredNow', Done')
  BY <1>1 DEF Grounded
<1>3. ASSUME NEW h \in Deployers, Live(h)'
      PROVE  /\ Installs(deployer'[h].before, BaseNow', DesiredNow', Done')
             /\ Within(deployer'[h].before, device', BaseNow', DesiredNow')
  <2>1. Within(device, device, BaseNow, DesiredNow)
    BY DEF Within
  <2> QED
    BY <1>1, <1>3, <2>1 DEF Grounded, Snapshots
<1>4. ASSUME Straight', NEW h \in Deployers, Live(h)'
      PROVE  Between(deployer'[h].before, BaseNow', DesiredNow')
  BY <1>1, <1>4 DEF Grounded, Level
<1>5. Confirmed => Confirmed'
  BY <1>1 DEF Confirmed
<1>6. ASSUME NEW p \in Publishers, publisher'[p].pc = "locked", publisher'[p].base = Latest'
      PROVE  Confirmed'
  BY <1>1, <1>5, <1>6 DEF Grounded, Approvable
<1>7. Snapshots' /\ Approvable'
  BY <1>3, <1>6 DEF Snapshots, Approvable
<1>8. Straight' => Level'
  BY <1>1, <1>4 DEF Grounded, Level
<1> QED
  BY <1>1, <1>2, <1>7, <1>8 DEF Grounded

(* A rule of the plan comes or goes on a target that is under way.         *)
Moves(t, r) ==
  /\ t \notin Done
  /\ r \in BaseNow[t] \cup DesiredNow[t]
  /\ Straight => r \notin BaseNow[t] \cap DesiredNow[t]
  /\ \/ device' = [device EXCEPT ![t] = device[t] \cup {r}]
     \/ device' = [device EXCEPT ![t] = device[t] \ {r}]
  /\ UNCHANGED <<publication, log, publisher, deployer>>

LEMMA CommandMoves ==
  ASSUME Interlocked, Grounded, NEW h \in Deployers, NEW t \in Targets, NEW r \in Rules,
         ExecuteCommand(h, t, r)
  PROVE  Moves(t, r)
<1>1. Run(h).version = Latest
  BY DEF Interlocked, Attended, Live, ExecuteCommand
<1>2. /\ Desired(Run(h).version)[t] = DesiredNow[t]
      /\ Removed(Run(h).version, t) = BaseNow[t] \ DesiredNow[t]
  BY <1>1 DEF Removed, DesiredNow, BaseNow
<1>3. /\ UNCHANGED <<publication, log, publisher, deployer>>
      /\ \/ /\ r \in DesiredNow[t] \ device[t]
            /\ device' = [device EXCEPT ![t] = device[t] \cup {r}]
         \/ /\ r \in (BaseNow[t] \ DesiredNow[t]) \cap device[t]
            /\ device' = [device EXCEPT ![t] = device[t] \ {r}]
  BY <1>2 DEF ExecuteCommand
<1>4. t \notin Done
  BY <1>3 DEF Grounded, Installs
<1>5. Straight => BaseNow[t] \cap DesiredNow[t] \subseteq device[t]
  BY DEF Grounded, Level, Between
<1> QED
  BY <1>3, <1>4, <1>5 DEF Moves

LEMMA CompensationMoves ==
  ASSUME Interlocked, Grounded, NEW h \in Deployers, NEW t \in Targets, NEW r \in Rules,
         Compensate(h, t, r)
  PROVE  Moves(t, r)
<1> DEFINE before == deployer[h].before
<1>1. Live(h)
  BY DEF Live, Compensate
<1>2. /\ UNCHANGED <<publication, log, publisher, deployer>>
      /\ \/ r \in device[t] \ before[t] /\ device' = [device EXCEPT ![t] = device[t] \ {r}]
         \/ r \in before[t] \ device[t] /\ device' = [device EXCEPT ![t] = device[t] \cup {r}]
  BY DEF Compensate
<1>3. /\ Installs(before, BaseNow, DesiredNow, Done)
      /\ Within(before, device, BaseNow, DesiredNow)
      /\ Installs(device, BaseNow, DesiredNow, Done)
  BY <1>1 DEF Grounded, Snapshots
<1>4. r \in BaseNow[t] \cup DesiredNow[t]
  BY <1>2, <1>3 DEF Within
<1>5. t \notin Done
  BY <1>2, <1>3, <1>4 DEF Installs
<1>6. ASSUME Straight PROVE r \notin BaseNow[t] \cap DesiredNow[t]
  BY <1>1, <1>2, <1>6 DEF Grounded, Level, Between
<1> QED
  BY <1>2, <1>4, <1>5, <1>6 DEF Moves

LEMMA MoveGrounded ==
  ASSUME TypeOK, Grounded, NEW t \in Targets, NEW r \in Rules, Moves(t, r) PROVE Grounded'
<1>1. /\ Latest' = Latest /\ DesiredNow' = DesiredNow /\ BaseNow' = BaseNow
      /\ CommandTargets(Latest)' = CommandTargets(Latest) /\ Setup' /\ Straight' = Straight
  BY NowFixed DEF Grounded, Moves
<1>2. Done' = Done /\ Done \subseteq Targets
  BY <1>1, NowTyped DEF Done, Rows, Moves
<1>3. device \in Docs
  BY NowTyped
<1>4. /\ device'[t] \in {device[t] \cup {r}, device[t] \ {r}}
      /\ \A u \in Targets \ {t} : device'[u] = device[u]
  BY <1>3 DEF Docs, Moves
<1>5. t \notin Done /\ r \in BaseNow[t] \cup DesiredNow[t] /\ UNCHANGED <<publisher, deployer>>
      /\ (Straight => r \notin BaseNow[t] \cap DesiredNow[t])
  BY DEF Moves
<1>6. Installs(device', BaseNow', DesiredNow', Done')
  BY <1>1, <1>2, <1>4, <1>5 DEF Grounded, Installs
<1>7. ASSUME NEW h \in Deployers, Live(h)
      PROVE  /\ Installs(deployer[h].before, BaseNow, DesiredNow, Done)
             /\ Within(deployer[h].before, device', BaseNow, DesiredNow)
  <2>1. /\ Installs(deployer[h].before, BaseNow, DesiredNow, Done)
        /\ Within(deployer[h].before, device, BaseNow, DesiredNow)
    BY <1>7 DEF Grounded, Snapshots
  <2> QED
    BY <1>4, <1>5, <2>1 DEF Within
<1>8. Snapshots'
  BY <1>1, <1>2, <1>5, <1>7 DEF Snapshots, Live
<1>9. Approvable'
  BY <1>1, <1>2, <1>5 DEF Grounded, Approvable, Confirmed
<1>10. ASSUME Straight' PROVE Level'
  <2>1. Level /\ Between(device, BaseNow, DesiredNow)
    BY <1>1, <1>10 DEF Grounded, Level
  <2>2. Between(device', BaseNow, DesiredNow)
    BY <1>1, <1>4, <1>5, <1>10, <2>1 DEF Between
  <2> QED
    BY <1>1, <1>5, <2>1, <2>2 DEF Level, Live
<1> QED
  BY <1>1, <1>6, <1>8, <1>9, <1>10 DEF Grounded

(* A row that is no success changes nothing about who is done.             *)
LEMMA DoneKept ==
  ASSUME TypeOK, UNCHANGED publication, Len(log') \in Nat, Len(log) <= Len(log'),
         \A j \in 1..Len(log) : log'[j] = log[j] \/ (log'[j].status # "succeeded" /\ log[j].status # "succeeded"),
         \A j \in 1..Len(log') : j \notin 1..Len(log) => log'[j].status # "succeeded"
  PROVE  Done' = Done
<1>1. Latest' = Latest /\ Len(log) \in Nat
  BY NowFixed, Typed
<1>2. ASSUME NEW t \in Targets, NEW i \in 1..Len(log), log[i].version = Latest, t \in log[i].targets,
             log[i].status = "succeeded"
      PROVE  i \in 1..Len(log') /\ log'[i] = log[i]
  BY <1>1, <1>2
<1>3. ASSUME NEW t \in Targets, NEW i \in 1..Len(log'), log'[i].version = Latest, t \in log'[i].targets,
             log'[i].status = "succeeded"
      PROVE  i \in 1..Len(log) /\ log'[i] = log[i]
  BY <1>1, <1>3
<1>4. ASSUME NEW t \in Targets PROVE (t \in Done)' <=> t \in Done
  BY <1>1, <1>2, <1>3 DEF Done, Rows
<1> QED
  BY <1>4 DEF Done

LEMMA UnchangedDone ==
  ASSUME UNCHANGED <<publication, log>> PROVE Done' = Done
BY NowFixed DEF Done, Rows

LEMMA SelectGrounded ==
  ASSUME Interlocked, Grounded, NEW h \in Deployers, SelectTargets(h) PROVE Grounded'
<1>0. TypeOK /\ deployer \in [Deployers -> DeployerType] /\ Len(log) \in Nat
  BY Typed DEF Interlocked, TypeOK
<1>1. PICK ts \in SUBSET Targets : log' = Append(log, [version |-> Latest, targets |-> ts, status |-> "none"])
  <2>1. \A ts \in {CommandTargets(Latest)} \cup {{t} : t \in CommandTargets(Latest)} : ts \in SUBSET Targets
    BY DEF CommandTargets
  <2> QED
    BY <2>1 DEF SelectTargets
<1> DEFINE row == [version |-> Latest, targets |-> ts, status |-> "none"]
<1>2. row \in RunType /\ row.status = "none" /\ log' = Append(log, row)
  BY <1>0, <1>1, Typed DEF RunType
<1>3. Len(log') = Len(log) + 1 /\ log'[Len(log) + 1] = row /\ \A j \in 1..Len(log) : log'[j] = log[j]
  <2> HIDE DEF row
  <2> QED
    BY <1>0, <1>2, RowAdded
<1>4. UNCHANGED <<publication, device, publisher>>
  BY DEF SelectTargets
<1>5. Done' = Done
  <2>1. ASSUME NEW j \in 1..Len(log'), j \notin 1..Len(log) PROVE log'[j].status # "succeeded"
    <3>1. j = Len(log) + 1
      BY <1>0, <1>3, <2>1
    <3> QED
      BY <1>2, <1>3, <3>1
  <2> QED
    BY <1>0, <1>3, <1>4, <2>1, DoneKept
<1>6. ASSUME NEW g \in Deployers, Live(g)' PROVE Live(g) /\ deployer'[g].before = deployer[g].before
  <2>1. deployer'[h].pc = "selected" /\ \A f \in Deployers \ {h} : deployer'[f] = deployer[f]
    BY <1>0 DEF SelectTargets
  <2> QED
    BY <1>6, <2>1 DEF Live
<1> QED
  BY <1>0, <1>4, <1>5, <1>6, CalmStep

LEMMA StartGrounded ==
  ASSUME Interlocked, Grounded, NEW h \in Deployers, StartDeploymentLog(h) PROVE Grounded'
<1>0. TypeOK /\ Attended(h) /\ deployer \in [Deployers -> DeployerType] /\ Len(log) \in Nat
  BY Typed DEF Interlocked, TypeOK
<1>1. /\ deployer[h].pc = "selected"
      /\ Marks(deployer[h].row, "running")
      /\ deployer' = [deployer EXCEPT ![h] = [pc |-> "running", row |-> deployer[h].row, before |-> device]]
      /\ UNCHANGED <<publication, device, publisher>>
  BY DEF StartDeploymentLog, Marks
<1>2. PICK i \in 1..Len(log) : i = deployer[h].row
  BY <1>0, <1>1 DEF TypeOK
<1>3. /\ Len(log') = Len(log) /\ log'[i].status = "running"
      /\ \A j \in 1..Len(log) : j # i => log'[j] = log[j]
  <2>1. Marks(i, "running")
    BY <1>1, <1>2
  <2> QED
    BY <1>0, <2>1, RowMarked
<1>4. log[i].status = "none"
  BY <1>0, <1>1, <1>2 DEF Attended, Run
<1>5. Done' = Done
  <2>1. ASSUME NEW j \in 1..Len(log)
        PROVE  log'[j] = log[j] \/ (log'[j].status # "succeeded" /\ log[j].status # "succeeded")
    BY <1>3, <1>4
  <2> QED
    BY <1>0, <1>1, <1>3, <2>1, DoneKept
<1>6. ASSUME NEW g \in Deployers, Live(g)'
      PROVE  \/ deployer'[g].before = device
             \/ Live(g) /\ deployer'[g].before = deployer[g].before
  <2>1. deployer'[h].before = device /\ \A f \in Deployers \ {h} : deployer'[f] = deployer[f]
    BY <1>0, <1>1
  <2> QED
    BY <1>6, <2>1 DEF Live
<1> QED
  BY <1>0, <1>1, <1>5, <1>6, CalmStep

LEMMA FinishGrounded ==
  ASSUME Interlocked, Grounded, NEW h \in Deployers, FinishDeploymentLog(h) PROVE Grounded'
<1>0. /\ TypeOK /\ OwnRows /\ (\A g \in Deployers : Attended(g))
      /\ deployer \in [Deployers -> DeployerType] /\ Len(log) \in Nat
  BY Typed DEF Interlocked, TypeOK
<1>1. /\ Live(h)
      /\ deployer' = [deployer EXCEPT ![h] = [pc |-> "release", row |-> deployer[h].row, before |-> NoRules]]
      /\ UNCHANGED <<publication, device, publisher>>
  BY DEF FinishDeploymentLog, Live
<1>2. PICK i \in 1..Len(log) : i = deployer[h].row
  BY <1>0, <1>1 DEF TypeOK, Live
<1>3. log[i].status = "running" /\ log[i].version = Latest
  BY <1>0, <1>1, <1>2 DEF Attended, Run
<1>4. \/ log' = log
      \/ Marks(i, "failed")
      \/ Marks(i, "succeeded") /\ Installed(h)
  BY <1>2 DEF FinishDeploymentLog, Marks
<1>5. deployer'[h].pc = "release" /\ \A f \in Deployers \ {h} : deployer'[f] = deployer[f]
  BY <1>0, <1>1
<1>6. ASSUME NEW g \in Deployers, Live(g)' PROVE Live(g) /\ deployer'[g].before = deployer[g].before /\ g # h
  BY <1>5, <1>6 DEF Live
<1>7. CASE log' = log
  <2>1. Done' = Done
    BY <1>1, <1>7, UnchangedDone
  <2> QED
    BY <1>0, <1>1, <1>6, <2>1, CalmStep
<1>8. CASE Marks(i, "failed")
  <2>1. /\ Len(log') = Len(log) /\ log'[i].status = "failed"
        /\ \A j \in 1..Len(log) : j # i => log'[j] = log[j]
    BY <1>0, <1>8, RowMarked
  <2>2. ASSUME NEW j \in 1..Len(log)
        PROVE  log'[j] = log[j] \/ (log'[j].status # "succeeded" /\ log[j].status # "succeeded")
    BY <1>3, <2>1
  <2>3. Done' = Done
    BY <1>0, <1>1, <2>1, <2>2, DoneKept
  <2> QED
    BY <1>0, <1>1, <1>6, <2>3, CalmStep
<1>9. CASE Marks(i, "succeeded") /\ Installed(h)
  <2>1. /\ Len(log') = Len(log) /\ log'[i].status = "succeeded"
        /\ \A j \in 1..Len(log) : KeepsRow(j) /\ (j # i => log'[j] = log[j])
    BY <1>0, <1>9, RowMarked
  <2>2. log'[i].version = Latest /\ log'[i].targets = log[i].targets
    BY <1>3, <2>1 DEF KeepsRow
  <2>3. /\ Latest' = Latest /\ DesiredNow' = DesiredNow /\ BaseNow' = BaseNow
        /\ CommandTargets(Latest)' = CommandTargets(Latest) /\ Setup' /\ Straight' = Straight
    BY <1>1, NowFixed DEF Grounded
  <2>4. Done \subseteq Done'
    <3>1. ASSUME NEW t \in Targets, NEW j \in 1..Len(log), log[j].version = Latest, t \in log[j].targets,
                 log[j].status = "succeeded"
          PROVE  log'[j] = log[j]
      BY <1>3, <2>1, <3>1
    <3> QED
      BY <2>1, <2>3, <3>1 DEF Done, Rows
  <2>5. ASSUME NEW t \in Done', t \notin Done PROVE t \in log[i].targets
    <3>1. PICK j \in 1..Len(log) : log'[j].version = Latest /\ t \in log'[j].targets /\ log'[j].status = "succeeded"
      BY <2>1, <2>3 DEF Done, Rows
    <3>2. CASE j = i
      BY <2>2, <3>1, <3>2
    <3>3. CASE j # i
      BY <2>1, <2>5, <3>1, <3>3 DEF Done, Rows
    <3> QED
      BY <3>2, <3>3
  <2>6. ASSUME NEW t \in Targets, t \in log[i].targets
        PROVE  DesiredNow[t] \subseteq device[t] /\ (BaseNow[t] \ DesiredNow[t]) \cap device[t] = {}
    BY <1>2, <1>3, <1>9, <2>6 DEF Installed, Run, Removed, DesiredNow, BaseNow
  <2>7. Installs(device', BaseNow', DesiredNow', Done')
    <3>1. ASSUME NEW t \in Done'
          PROVE  DesiredNow[t] \subseteq device[t] /\ (BaseNow[t] \ DesiredNow[t]) \cap device[t] = {}
      <4>1. t \in Targets
        BY DEF Done
      <4>2. CASE t \in Done
        BY <4>2 DEF Grounded, Installs
      <4>3. CASE t \notin Done
        BY <2>5, <2>6, <4>1, <4>3
      <4> QED
        BY <4>2, <4>3
    <3> QED
      BY <1>1, <2>3, <3>1 DEF Installs
  <2>8. \A g \in Deployers : ~Live(g)'
    <3> SUFFICES ASSUME NEW g \in Deployers, Live(g)' PROVE FALSE
      OBVIOUS
    <3>1. Live(g) /\ g # h
      BY <1>6
    <3>2. lock.owner = g /\ lock.owner = h
      BY <1>0, <1>1, <3>1 DEF Attended
    <3> QED
      BY <3>1, <3>2
  <2>9. Snapshots' /\ (Straight' => Level')
    BY <1>1, <2>3, <2>8 DEF Grounded, Snapshots, Level
  <2>10. Approvable'
    BY <1>1, <2>3, <2>4 DEF Grounded, Approvable, Confirmed
  <2> QED
    BY <2>3, <2>7, <2>9, <2>10 DEF Grounded
<1> QED
  BY <1>4, <1>7, <1>8, <1>9

(* A publication becomes the latest, and nobody has been told of any       *)
(* deployment of it.  A revision of the latest one finds every target with *)
(* commands reported.  No other keeps the history straight.                *)
LEMMA Released ==
  ASSUME Interlocked, Grounded, NEW p \in Publishers, FinalizePublication(p)
  PROVE  /\ Done' = {} /\ Latest' = Latest + 1 /\ Setup'
         /\ publisher[p].base = Latest => Confirmed /\ BaseNow' = DesiredNow
         /\ Straight' <=> Straight /\ publisher[p].base = Latest
<1>0. /\ TypeOK /\ Latest \in Nat \ {0} /\ Len(log) \in Nat
      /\ publisher[p] \in PublisherType
  BY Typed DEF Interlocked
<1>1. PICK d \in Docs :
        /\ publisher[p].pc = "locked"
        /\ publication' = Append(publication, [doc |-> d, base |-> publisher[p].base])
        /\ UNCHANGED <<log, lock, device, deployer>>
  BY DEF FinalizePublication
<1> DEFINE new == [doc |-> d, base |-> publisher[p].base]
<1>2. new \in PublicationType /\ new.base = publisher[p].base
      /\ publication' = Append(publication, new)
  BY <1>0, <1>1 DEF PublisherType, PublicationType
<1>3. /\ Latest' = Latest + 1 /\ publication'[Latest + 1] = new
      /\ \A v \in 1..Latest : publication'[v] = publication[v]
  <2> HIDE DEF new
  <2> QED
    BY <1>0, <1>2, PublicationAdded
<1> HIDE DEF new
<1>4. Setup'
  BY <1>0, <1>3 DEF Grounded, Setup
<1>5. ASSUME publisher[p].base = Latest PROVE Confirmed /\ BaseNow' = DesiredNow
  <2>1. publication'[Latest'].base = Latest /\ publication'[Latest] = publication[Latest]
    <3>1. Latest \in 1..Latest
      BY <1>0
    <3> QED
      BY <1>2, <1>3, <1>5, <3>1
  <2>2. CASE Latest = 1
    <3>1. DesiredNow = NoRules
      BY <2>2, SetupIsEmpty DEF Grounded
    <3>2. BaseNow' = NoRules
      BY <2>1, <2>2 DEF BaseNow, Base
    <3> QED
      BY <1>1, <1>5, <3>1, <3>2 DEF Grounded, Approvable
  <2>3. CASE Latest # 1
    <3>1. BaseNow' = publication'[Latest].doc
      BY <1>0, <2>1, <2>3 DEF BaseNow, Base, Desired
    <3> QED
      BY <1>1, <1>5, <2>1, <3>1 DEF Grounded, Approvable, DesiredNow, Desired
  <2> QED
    BY <2>2, <2>3
<1>6. Done' = {}
  <2>1. ASSUME NEW i \in 1..Len(log) PROVE log[i].version # Latest'
    BY <1>0, <1>3, Typed
  <2> QED
    BY <1>1, <2>1 DEF Done, Rows
<1>7. Straight' <=> Straight /\ publisher[p].base = Latest
  <2>1. 2..Latest' = (2..Latest) \cup {Latest + 1}
    BY <1>0, <1>3
  <2>2. ASSUME NEW v \in 2..Latest PROVE publication'[v].base = publication[v].base
    BY <1>0, <1>3
  <2>3. publication'[Latest + 1].base = (Latest + 1) - 1 <=> publisher[p].base = Latest
    <3>1. publication'[Latest + 1].base = publisher[p].base
      BY <1>2, <1>3
    <3> QED
      BY <1>0, <3>1
  <2> QED
    BY <2>1, <2>2, <2>3 DEF Straight
<1> QED
  BY <1>3, <1>4, <1>5, <1>6, <1>7

LEMMA FinalizeGrounded ==
  ASSUME Interlocked, Grounded, NEW p \in Publishers, FinalizePublication(p) PROVE Grounded'
<1>0. TypeOK /\ Latest \in Nat \ {0} /\ publisher \in [Publishers -> PublisherType]
  BY Typed DEF Interlocked, TypeOK
<1>1. /\ publisher' = [publisher EXCEPT ![p] = [pc |-> "release", base |-> 0]]
      /\ UNCHANGED <<log, lock, device, deployer>>
      /\ LockFree \/ lock.owner = p
  BY DEF FinalizePublication, Finalizable
<1>2. /\ Done' = {} /\ Latest' = Latest + 1 /\ Setup'
      /\ publisher[p].base = Latest => Confirmed /\ BaseNow' = DesiredNow
      /\ Straight' <=> Straight /\ publisher[p].base = Latest
  BY Released
<1>3. Installs(device', BaseNow', DesiredNow', Done')
  BY <1>2 DEF Installs
<1>4. \A h \in Deployers : ~Live(h)'
  <2>1. lock.owner = p => lock.owner \notin Deployers
    BY GateAssumption
  <2>2. \A h \in Deployers : ~Live(h)
    BY <1>1, <2>1, NobodyRuns
  <2> QED
    BY <1>1, <2>2 DEF Live
<1>5. Snapshots'
  BY <1>4 DEF Snapshots
<1>6. Approvable'
  <2>1. ASSUME NEW q \in Publishers, publisher'[q].pc = "locked" PROVE publisher'[q].base # Latest'
    <3>1. publisher'[q] = publisher[q]
      BY <1>0, <1>1, <2>1
    <3>2. publisher[q] \in PublisherType /\ publisher[q].base <= Latest
      BY <1>0 DEF TypeOK
    <3> QED
      BY <1>0, <1>2, <3>1, <3>2 DEF PublisherType
  <2> QED
    BY <2>1 DEF Approvable
<1>7. ASSUME Straight' PROVE Level'
  <2>1. device' = BaseNow'
    BY <1>0, <1>1, <1>2, <1>7, ConfirmedIsInstalled
  <2>2. Between(device', BaseNow', DesiredNow')
    BY <2>1 DEF Between
  <2> QED
    BY <1>4, <2>2 DEF Level
<1> QED
  BY <1>2, <1>3, <1>5, <1>6, <1>7 DEF Grounded

LEMMA GroundedHolds ==
  ASSUME Interlocked, Grounded, [Next]_vars PROVE Grounded'
<1>0. TypeOK /\ deployer \in [Deployers -> DeployerType] /\ publisher \in [Publishers -> PublisherType]
  BY DEF Interlocked, TypeOK
<1>1. ASSUME NEW p \in Publishers, AcquirePublicationLock(p) PROVE Grounded'
  <2>1. Confirmed
    BY <1>1, GateConfirms DEF AcquirePublicationLock
  <2>2. UNCHANGED <<publication, device, deployer, log>>
    BY <1>1 DEF AcquirePublicationLock
  <2>3. Done' = Done
    BY <2>2, UnchangedDone
  <2> QED
    BY <1>0, <2>1, <2>2, <2>3, CalmStep DEF Live
<1>2. ASSUME NEW p \in Publishers,
             CheckBase(p) \/ RefusePublication(p) \/ AbandonPublication(p) \/ ReleasePublication(p)
      PROVE  Grounded'
  <2>1. UNCHANGED <<publication, device, deployer, log>>
    BY <1>2 DEF CheckBase, RefusePublication, AbandonPublication, ReleasePublication
  <2>2. Done' = Done
    BY <2>1, UnchangedDone
  <2>3. ASSUME NEW q \in Publishers, publisher'[q].pc = "locked" PROVE publisher'[q] = publisher[q]
    <3>1. publisher'[p].pc # "locked" /\ (q # p => publisher'[q] = publisher[q])
      BY <1>0, <1>2 DEF CheckBase, RefusePublication, AbandonPublication, ReleasePublication, IdlePublisher
    <3> QED
      BY <2>3, <3>1
  <2> QED
    BY <1>0, <2>1, <2>2, <2>3, CalmStep DEF Live
<1>3. ASSUME NEW h \in Deployers, RefuseDeployment(h) \/ ReleaseDeploymentLock(h) \/ FailRun(h) PROVE Grounded'
  <2>1. UNCHANGED <<publication, device, publisher, log>>
    BY <1>3 DEF RefuseDeployment, ReleaseDeploymentLock, FailRun
  <2>2. Done' = Done
    BY <2>1, UnchangedDone
  <2>3. ASSUME NEW g \in Deployers, Live(g)' PROVE Live(g) /\ deployer'[g].before = deployer[g].before
    <3>1. CASE g # h
      <4>1. deployer'[g] = deployer[g]
        BY <1>0, <1>3, <3>1 DEF RefuseDeployment, ReleaseDeploymentLock, FailRun
      <4> QED
        BY <2>3, <4>1 DEF Live
    <3>2. CASE g = h /\ FailRun(h)
      <4>1. deployer[h].pc = "running" /\ deployer'[h] = [deployer[h] EXCEPT !.pc = "failing"] /\ deployer[h] \in DeployerType
        BY <1>0, <3>2 DEF FailRun
      <4>2. deployer'[h].before = deployer[h].before
        BY <4>1 DEF DeployerType
      <4> QED
        BY <3>2, <4>1, <4>2 DEF Live
    <3>3. CASE g = h /\ (RefuseDeployment(h) \/ ReleaseDeploymentLock(h))
      <4>1. deployer'[h] = IdleDeployer
        BY <1>0, <3>3 DEF RefuseDeployment, ReleaseDeploymentLock
      <4> QED
        BY <2>3, <3>3, <4>1 DEF Live, IdleDeployer
    <3> QED
      BY <1>3, <3>1, <3>2, <3>3
  <2> QED
    BY <1>0, <2>1, <2>2, <2>3, CalmStep
<1>4. CASE Crash
  <2>1. UNCHANGED <<publication, device, log>>
    BY <1>4 DEF Crash
  <2>2. Done' = Done
    BY <2>1, UnchangedDone
  <2>3. \A h \in Deployers : ~Live(h)'
    BY <1>4 DEF Crash, Live, IdleDeployer
  <2>4. \A p \in Publishers : publisher'[p].pc # "locked"
    BY <1>4 DEF Crash, IdlePublisher
  <2> QED
    BY <1>0, <2>1, <2>2, <2>3, <2>4, CalmStep
<1>5. CASE ExpireLock \/ UNCHANGED vars
  <2>1. UNCHANGED <<publication, device, log, deployer, publisher>>
    BY <1>5 DEF ExpireLock, vars
  <2>2. Done' = Done
    BY <2>1, UnchangedDone
  <2> QED
    BY <1>0, <2>1, <2>2, CalmStep DEF Live
<1> QED
  BY <1>0, <1>1, <1>2, <1>3, <1>4, <1>5, FinalizeGrounded, SelectGrounded, StartGrounded, FinishGrounded,
     CommandMoves, CompensationMoves, MoveGrounded DEF Next

LEMMA InitGrounded == Init => Grounded
<1> SUFFICES ASSUME Init PROVE Grounded
  OBVIOUS
<1>1. /\ publication = <<[doc |-> NoRules, base |-> 0]>> /\ log = <<>> /\ device = NoRules
      /\ \A p \in Publishers : publisher[p].pc = "idle"
      /\ \A h \in Deployers : deployer[h].pc = "idle"
  BY DEF Init, IdlePublisher, IdleDeployer
<1>2. Latest = 1 /\ publication[1].doc = NoRules /\ publication[1].base = 0 /\ Setup
  BY <1>1 DEF Latest, Setup
<1>3. DesiredNow = NoRules /\ BaseNow = NoRules
  BY <1>2 DEF DesiredNow, BaseNow, Desired, Base
<1>4. Between(device, BaseNow, DesiredNow)
  BY <1>1, <1>3 DEF Between
<1>5. Installs(device, BaseNow, DesiredNow, Done)
  BY <1>1, <1>3 DEF Installs, Done, Rows
<1> QED
  BY <1>1, <1>2, <1>4, <1>5 DEF Grounded, Snapshots, Level, Live, Approvable

LEMMA GateInvariant == Spec => [](Interlocked /\ Grounded)
<1>1. Init => Interlocked /\ Grounded
  BY InitInterlocked, InitGrounded
<1>2. Interlocked /\ Grounded /\ [Next]_vars => (Interlocked /\ Grounded)'
  BY InterlockHolds, GroundedHolds
<1> QED
  BY <1>1, <1>2, PTL DEF Spec

(* When the gate opens, the latest plan is carried out on every device     *)
(* (requireLatestPublicationDeployed), and nothing else is there as long   *)
(* as every revision that was published was drawn up on the latest one.    *)
THEOREM OpenGateIsTruthful == Spec => []GateIsTruthful
<1>1. Interlocked /\ Grounded => GateIsTruthful
  <2> SUFFICES ASSUME Interlocked, Grounded, Confirmed
               PROVE  /\ \A t \in Targets : /\ Desired(Latest)[t] \subseteq device[t]
                                           /\ Removed(Latest, t) \cap device[t] = {}
                      /\ Straight => device = Desired(Latest)
    BY GateConfirms DEF GateIsTruthful
  <2>1. TypeOK
    BY DEF Interlocked
  <2>2. Installs(device, BaseNow, DesiredNow, Targets)
    BY <2>1, ConfirmedIsCarriedOut
  <2>3. Straight => device = DesiredNow
    BY <2>1, ConfirmedIsInstalled
  <2> QED
    BY <2>2, <2>3 DEF Installs, Removed, DesiredNow, BaseNow
<1> QED
  BY <1>1, GateInvariant, PTL

(* While publications follow each other, each is committed onto devices    *)
(* that run its predecessor, also by a handler that lost its lock in       *)
(* between.                                                                *)
THEOREM CommitsOnRunningBaseline == Spec => CommitsOntoBaseline
<1>1. Interlocked /\ Grounded /\ [Next]_vars
        => (publication' # publication /\ Latest > 1 /\ Straight' => device = Desired(Latest))
  <2> SUFFICES ASSUME Interlocked, Grounded, [Next]_vars, publication' # publication, Straight'
               PROVE  device = Desired(Latest)
    OBVIOUS
  <2>1. PICK p \in Publishers : FinalizePublication(p)
    BY DEF Next, vars, CheckBase, RefusePublication, AcquirePublicationLock, AbandonPublication,
           ReleasePublication, SelectTargets, StartDeploymentLog, RefuseDeployment, FailRun,
           FinishDeploymentLog, ReleaseDeploymentLock, ExecuteCommand, Compensate, Crash, ExpireLock
  <2>2. Confirmed /\ Straight
    BY <2>1, Released
  <2> QED
    BY <2>2, ConfirmedIsInstalled DEF Interlocked, DesiredNow
<1> QED
  BY <1>1, GateInvariant, PTL DEF Spec, CommitsOntoBaseline

-----------------------------------------------------------------------------
(***************************************************************************)
(* The gate implements GatedReleases.                                      *)
(***************************************************************************)
NowVars == <<BaseNow, DesiredNow, device, Done, Straight>>

(* Whatever is recorded, no success is taken back.                         *)
LEMMA SuccessStays ==
  ASSUME TypeOK, UNCHANGED publication, Len(log') \in Nat, Len(log) <= Len(log'),
         \A j \in 1..Len(log) : log[j].status = "succeeded" => log'[j] = log[j]
  PROVE  Done \subseteq Done'
<1>1. Latest' = Latest /\ Len(log) \in Nat
  BY NowFixed, Typed
<1>2. ASSUME NEW t \in Targets, NEW i \in 1..Len(log), log[i].version = Latest, t \in log[i].targets,
             log[i].status = "succeeded"
      PROVE  i \in 1..Len(log') /\ log'[i] = log[i]
  BY <1>1, <1>2
<1> QED
  BY <1>1, <1>2 DEF Done, Rows

(* A step that leaves publications, devices and successes alone reports    *)
(* targets as deployed, or nothing.                                        *)
LEMMA QuietStep ==
  ASSUME TypeOK, Grounded', UNCHANGED <<publication, device>>, Len(log') \in Nat, Len(log) <= Len(log'),
         \A j \in 1..Len(log) : log[j].status = "succeeded" => log'[j] = log[j]
  PROVE  Releases!Report
<1>1. /\ Done \subseteq Done' /\ DesiredNow' = DesiredNow /\ BaseNow' = BaseNow
      /\ Straight' = Straight
  BY SuccessStays, NowFixed
<1>2. ASSUME NEW t \in Done' PROVE t \in Targets /\ Releases!Runs(t)
  <2>1. t \in Targets
    BY DEF Done
  <2>2. DesiredNow[t] \subseteq device[t] /\ (BaseNow[t] \ DesiredNow[t]) \cap device[t] = {}
    BY <1>1, <1>2 DEF Grounded, Installs
  <2>3. Straight => device[t] \subseteq BaseNow[t] \cup DesiredNow[t]
    BY <1>1, <2>1 DEF Grounded, Level, Between
  <2> QED
    BY <2>1, <2>2, <2>3 DEF Releases!Runs
<1> QED
  BY <1>1, <1>2 DEF Releases!Report

LEMMA MoveImplements ==
  ASSUME NEW t \in Targets, NEW r \in Rules, Moves(t, r)
  PROVE  Releases!Move(t, r)
<1>1. DesiredNow' = DesiredNow /\ BaseNow' = BaseNow /\ Done' = Done /\ Straight' = Straight
  BY NowFixed, UnchangedDone DEF Moves
<1> QED
  BY <1>1 DEF Moves, Releases!Move

LEMMA NowTypedAfter == TypeOK' => (DesiredNow \in Docs /\ BaseNow \in Docs)'
<1>1. TypeOK => DesiredNow \in Docs /\ BaseNow \in Docs
  BY NowTyped
<1> QED
  BY <1>1, PTL

LEMMA ReleaseImplements ==
  ASSUME Interlocked, Grounded, Interlocked', NEW p \in Publishers, FinalizePublication(p)
  PROVE  Releases!Release \/ Releases!ReleaseOnOlderBase
<1>1. /\ Done' = {} /\ Latest' = Latest + 1 /\ Setup'
      /\ publisher[p].base = Latest => Confirmed /\ BaseNow' = DesiredNow
      /\ Straight' <=> Straight /\ publisher[p].base = Latest
  BY Released
<1>2. UNCHANGED device
  BY DEF FinalizePublication
<1>3. DesiredNow' \in Releases!Docs /\ BaseNow' \in Releases!Docs
  BY NowTypedAfter DEF Interlocked, Docs, Releases!Docs
<1>b. Straight \in BOOLEAN /\ Straight' \in BOOLEAN
  BY DEF Straight
<1>4. CASE publisher[p].base = Latest
  <2>1. ASSUME NEW t \in Targets, BaseNow[t] \cup DesiredNow[t] # {} PROVE t \in Done
    <3>1. CASE Latest = 1
      BY <2>1, <3>1, SetupIsEmpty DEF Grounded, NoRules
    <3>2. CASE Latest # 1
      BY <1>1, <1>4, <2>1, <3>2 DEF Confirmed, CommandTargets, BaseNow, DesiredNow
    <3> QED
      BY <3>1, <3>2
  <2>2. Straight => device = DesiredNow
    BY <1>1, <1>4, ConfirmedIsInstalled DEF Interlocked
  <2>3. Straight' = Straight
    BY <1>1, <1>4, <1>b
  <2> QED
    BY <1>1, <1>2, <1>3, <1>4, <2>1, <2>2, <2>3 DEF Releases!Release
<1>5. CASE publisher[p].base # Latest
  <2>1. Straight' = FALSE
    BY <1>1, <1>5, <1>b
  <2> QED
    BY <1>1, <1>2, <1>3, <2>1 DEF Releases!ReleaseOnOlderBase
<1> QED
  BY <1>4, <1>5

LEMMA GateStep ==
  ASSUME Interlocked, Grounded, Interlocked', Grounded', [Next]_vars
  PROVE  Releases!Next \/ UNCHANGED NowVars
<1>0. TypeOK /\ Len(log) \in Nat /\ \A h \in Deployers : Attended(h)
  BY Typed DEF Interlocked
<1>1. ASSUME NEW p \in Publishers, FinalizePublication(p) PROVE Releases!Next
  BY <1>1, ReleaseImplements DEF Releases!Next
<1>2. ASSUME NEW h \in Deployers, NEW t \in Targets, NEW r \in Rules,
             ExecuteCommand(h, t, r) \/ Compensate(h, t, r)
      PROVE  Releases!Next
  BY <1>2, CommandMoves, CompensationMoves, MoveImplements DEF Releases!Next
<1>3. ASSUME UNCHANGED <<publication, device, log>> PROVE Releases!Next
  BY <1>0, <1>3, QuietStep DEF Releases!Next
<1>4. ASSUME NEW h \in Deployers, SelectTargets(h) PROVE Releases!Next
  <2>1. PICK row : log' = Append(log, row)
    BY <1>4 DEF SelectTargets
  <2>2. Len(log') = Len(log) + 1 /\ \A j \in 1..Len(log) : log'[j] = log[j]
    BY <1>0, <2>1 DEF TypeOK
  <2>3. UNCHANGED <<publication, device>>
    BY <1>4 DEF SelectTargets
  <2> QED
    BY <1>0, <2>2, <2>3, QuietStep DEF Releases!Next
<1>5. ASSUME NEW h \in Deployers, StartDeploymentLog(h) \/ FinishDeploymentLog(h) PROVE Releases!Next
  <2> DEFINE i == deployer[h].row
  <2>1. /\ deployer[h].pc # "idle" /\ i \in 1..Len(log) /\ log[i].status # "succeeded"
        /\ UNCHANGED <<publication, device>>
    BY <1>0, <1>5 DEF StartDeploymentLog, FinishDeploymentLog, TypeOK, Attended, Live, Run
  <2>2. UNCHANGED log \/ \E s \in {"running", "succeeded", "failed"} : Marks(i, s)
    BY <1>5 DEF StartDeploymentLog, FinishDeploymentLog, Marks
  <2>3. CASE UNCHANGED log
    BY <1>3, <2>1, <2>3
  <2>4. ASSUME NEW s \in {"running", "succeeded", "failed"}, Marks(i, s) PROVE Releases!Next
    <3>1. Len(log') = Len(log) /\ \A j \in 1..Len(log) : j # i => log'[j] = log[j]
      BY <1>0, <2>1, <2>4, RowMarked
    <3> QED
      BY <1>0, <2>1, <3>1, QuietStep DEF Releases!Next
  <2> QED
    BY <2>2, <2>3, <2>4
<1>6. ASSUME NEW p \in Publishers,
             \/ CheckBase(p) \/ AcquirePublicationLock(p) \/ RefusePublication(p)
             \/ AbandonPublication(p) \/ ReleasePublication(p)
      PROVE  Releases!Next
  BY <1>3, <1>6 DEF CheckBase, AcquirePublicationLock, RefusePublication, AbandonPublication, ReleasePublication
<1>7. ASSUME NEW h \in Deployers, RefuseDeployment(h) \/ FailRun(h) \/ ReleaseDeploymentLock(h)
      PROVE  Releases!Next
  BY <1>3, <1>7 DEF RefuseDeployment, FailRun, ReleaseDeploymentLock
<1>8. CASE Crash \/ ExpireLock
  BY <1>3, <1>8 DEF Crash, ExpireLock
<1>9. CASE UNCHANGED vars
  BY <1>3, <1>9 DEF vars
<1> QED
  BY <1>1, <1>2, <1>4, <1>5, <1>6, <1>7, <1>8, <1>9 DEF Next

LEMMA GateStart == Init => Releases!Init
<1> SUFFICES ASSUME Init PROVE Releases!Init
  OBVIOUS
<1>1. publication = <<[doc |-> NoRules, base |-> 0]>> /\ log = <<>> /\ device = NoRules
  BY DEF Init
<1>2. Latest = 1 /\ publication[1].doc = NoRules /\ publication[1].base = 0 /\ Len(log) = 0
  BY <1>1 DEF Latest
<1>3. DesiredNow = NoRules /\ BaseNow = NoRules /\ Done = {} /\ Straight = TRUE
  BY <1>2 DEF DesiredNow, BaseNow, Desired, Base, Done, Rows, Straight
<1> QED
  BY <1>1, <1>3 DEF Releases!Init, Releases!Empty, NoRules

(* The gate (requireLatestPublicationDeployed), its lock and the protocol  *)
(* of runs together keep what GatedReleases says: a release of the latest  *)
(* one only when that was reported everywhere, only rules of the plan      *)
(* moved on targets that are under way, no target touched again once it    *)
(* was reported, and in a straight history nothing on the devices but what *)
(* old and new rules account for.                                          *)
THEOREM GateIsGatedReleases == Spec => ImplementsGatedReleases
<1>1. Interlocked /\ Grounded /\ (Interlocked /\ Grounded)' /\ [Next]_vars => [Releases!Next]_NowVars
  BY GateStep
<1>2. Spec => [](Interlocked /\ Grounded)
  BY GateInvariant
<1> QED
  BY <1>1, <1>2, GateStart, PTL DEF Spec, ImplementsGatedReleases, Releases!Spec, Releases!grVars, NowVars

=============================================================================
