-------------------------- MODULE PolicyTabsProofs --------------------------
(* What holds of the tabs for any owners, networks and policies, and for   *)
(* any number of clicks, failures and requests in flight.                   *)
EXTENDS PolicyTabs, TLAPS

CallsTyped(B) == IsABag(B) /\ BagToSet(B) \subseteq Requests

NetTyped ==
  /\ net \in [of: Owners \cup {NoOwner}, picked: SUBSET Networks,
              confirm: BOOLEAN, cancel: BOOLEAN, restricted: BOOLEAN]
  /\ net.picked \subseteq Rows(net.of)

AppTyped ==
  /\ app \in [owner: Owners, policy: Policies, networks: SUBSET Networks]
  /\ published \in Policies
  /\ app.policy <= published

DiffTyped == /\ diff.root \in Policies \cup {NoVersion}
             /\ diff.shown \subseteq {r \in Requests : r.store = "diff"}
             /\ diff = [root |-> diff.root, shown |-> diff.shown]

MailTyped == mail \in [box: BOOLEAN, wants: [Owners -> BOOLEAN],
                       meant: [Owners -> BOOLEAN]]

ResourcesTyped == resources \in [asked: SUBSET Networks, shown: SUBSET Networks]

AskedTyped == asked \in [TabStores -> Owners \cup {NoOwner}]

FlagsTyped == others \in BOOLEAN /\ masked \in BOOLEAN

Typed == /\ AppTyped /\ NetTyped /\ DiffTyped /\ MailTyped /\ ResourcesTyped
         /\ AskedTyped /\ FlagsTyped /\ tab \in Tabs /\ CallsTyped(calls)

Truths == IndicatorTruthful /\ ActiveTabAskedForOwner /\ ComparisonIsOlder

TabsInv == Typed /\ Truths
----------------------------------------------------------------------------
(* Bags of requests.                                                       *)
LEMMA EmptyTyped == CallsTyped(EmptyBag)
BY DEF CallsTyped, EmptyBag, SetToBag, IsABag, BagToSet

LEMMA AddEmpty ==
  ASSUME NEW B, CallsTyped(B)
  PROVE  CallsTyped(B (+) EmptyBag)
BY DEF CallsTyped, (+), EmptyBag, SetToBag, IsABag, BagToSet

LEMMA AddTyped ==
  ASSUME NEW B, CallsTyped(B), NEW c \in Requests
  PROVE  CallsTyped(B (+) SetToBag({c}))
BY DEF CallsTyped, (+), SetToBag, IsABag, BagToSet

LEMMA TakeTyped ==
  ASSUME NEW B, CallsTyped(B), NEW c
  PROVE  CallsTyped(B (-) SetToBag({c}))
BY DEF CallsTyped, (-), SetToBag, IsABag, BagToSet

LEMMA RestTyped ==
  ASSUME CallsTyped(calls), NEW c
  PROVE  CallsTyped(Rest(c))
BY TakeTyped DEF Rest

LEMMA PendingRequests ==
  ASSUME CallsTyped(calls), NEW c \in BagToSet(calls)
  PROVE  /\ c \in Requests /\ c.owner \in Owners
         /\ c.store = "set_mail" => c.send \in BOOLEAN
         /\ c.store = "resources" => c.networks \in SUBSET Networks
BY DEF CallsTyped, Requests, TabStores

LEMMA RowsKnown ==
  ASSUME NEW o \in Owners \cup {NoOwner}
  PROVE  Rows(o) \subseteq Networks
BY TabsAssumption DEF Rows

(* Loading a tab's store, once or twice.                                   *)
LEMMA LoadTabTyped ==
  ASSUME CallsTyped(calls), AskedTyped, NEW t \in Tabs, NEW o \in Owners, NEW n,
         LoadTab(t, o, n)
  PROVE  /\ CallsTyped(calls') /\ AskedTyped'
         /\ t # "service" => asked'[StoreOf(t)] = o
<1>1. CASE t = "service"
  BY <1>1 DEF LoadTab, AskedTyped
<1>2. CASE t # "service"
  <2> DEFINE call == [store |-> StoreOf(t), owner |-> o]
  <2>1. StoreOf(t) \in TabStores
    BY <1>2 DEF StoreOf, TabStores, Tabs
  <2>2. call \in Requests
    BY <2>1 DEF Requests
  <2>3. CallsTyped(calls (+) SetToBag({call}))
    BY <2>2, AddTyped
  <2>4. /\ calls' = calls (+) SetToBag({call})
                      (+) (IF n = 2 THEN SetToBag({call}) ELSE EmptyBag)
        /\ asked' = [asked EXCEPT ![StoreOf(t)] = o]
    BY <1>2 DEF LoadTab
  <2> HIDE DEF call
  <2>5. CallsTyped(calls')
    BY <2>2, <2>3, <2>4, AddTyped, AddEmpty
  <2> QED
    BY <2>1, <2>4, <2>5 DEF AskedTyped
<1> QED
  BY <1>1, <1>2
----------------------------------------------------------------------------
(* Another owner or policy, from wherever it comes.                        *)
LEMMA ChangeKeeps ==
  ASSUME TabsInv, NEW o \in Owners, NEW p \in Policies, p <= published,
         ChangeContext(o, p), UNCHANGED <<published, tab, mail>>
  PROVE  TabsInv'
<1> USE DEF TabsInv, Typed
<1>1. app' = [owner |-> o, policy |-> p, networks |-> {}]
  BY DEF ChangeContext
<1>2. AppTyped'
  BY <1>1 DEF AppTyped
<1>3. NetTyped' /\ net'.restricted = FALSE
  BY DEF ChangeContext, ResetButton, NetTyped
<1>4. PICK n : LoadTab(tab, o, n)
  BY DEF ChangeContext, ActiveCard
<1>5. CallsTyped(calls') /\ AskedTyped'
        /\ (tab # "service" => asked'[StoreOf(tab)] = o)
  BY <1>4, LoadTabTyped
<1>6. DiffTyped' /\ (tab = "diff" => diff'.root = NoVersion)
  BY DEF ChangeContext, ActiveCard, ResetComparison, DiffTyped
<1>7. ResourcesTyped' /\ FlagsTyped' /\ MailTyped'
  BY DEF ChangeContext, ResourcesTyped, FlagsTyped, MailTyped
<1>8. Truths'
  BY <1>1, <1>3, <1>5, <1>6
     DEF Truths, IndicatorTruthful, ActiveTabAskedForOwner, ComparisonIsOlder
<1> QED
  BY <1>2, <1>3, <1>5, <1>6, <1>7, <1>8

(* Steps that touch only requests, resources, preferences and the mask.    *)
LEMMA CalmStep ==
  ASSUME TabsInv, UNCHANGED <<app, tab, asked>>, net'.restricted = net.restricted,
         diff'.root = diff.root, published' \in Policies,
         published <= published', NetTyped', DiffTyped', MailTyped',
         ResourcesTyped', FlagsTyped', CallsTyped(calls')
  PROVE  TabsInv'
<1>1. AppTyped' /\ AskedTyped'
  BY DEF TabsInv, Typed, AppTyped, AskedTyped, Policies
<1>2. Truths'
  BY DEF TabsInv, Truths, IndicatorTruthful, ActiveTabAskedForOwner,
         ComparisonIsOlder
<1> QED
  BY <1>1, <1>2 DEF TabsInv, Typed
----------------------------------------------------------------------------
LEMMA OpenTabKeeps ==
  ASSUME TabsInv, NEW t \in Tabs, OpenTab(t)
  PROVE  TabsInv'
<1> USE DEF TabsInv, Typed
<1>1. LoadTab(t, app.owner, 1) /\ app.owner \in Owners
  BY DEF OpenTab, AppTyped
<1>2. CallsTyped(calls') /\ AskedTyped'
        /\ (t # "service" => asked'[StoreOf(t)] = app.owner)
  BY <1>1, LoadTabTyped
<1>3. DiffTyped' /\ (t = "diff" => diff'.root = NoVersion)
  BY DEF OpenTab, ResetComparison, DiffTyped
<1>4. AppTyped' /\ NetTyped' /\ MailTyped' /\ ResourcesTyped' /\ FlagsTyped'
        /\ tab' \in Tabs
  BY DEF OpenTab, AppTyped, NetTyped, MailTyped, ResourcesTyped, FlagsTyped
<1>5. Truths'
  BY <1>2, <1>3 DEF OpenTab, Truths, IndicatorTruthful, ActiveTabAskedForOwner,
                    ComparisonIsOlder
<1> QED
  BY <1>2, <1>3, <1>4, <1>5

LEMMA SelectPolicyKeeps ==
  ASSUME TabsInv, NEW p \in 1 .. published, SelectPolicy(p)
  PROVE  TabsInv'
<1>1. app.owner \in Owners /\ p \in Policies /\ p <= published
  BY TabsAssumption DEF TabsInv, Typed, AppTyped, Policies
<1> QED
  BY <1>1, ChangeKeeps DEF SelectPolicy

LEMMA OwnerChangesKeeps ==
  ASSUME TabsInv, NEW o \in Owners, NEW known \in BOOLEAN, OwnerChanges(o, known)
  PROVE  TabsInv'
<1> DEFINE p == IF known THEN published ELSE app.policy
<1>1. p \in Policies /\ p <= published /\ app.policy <= p
  BY TabsAssumption DEF TabsInv, Typed, AppTyped, Policies
<1>2. CASE o # app.owner
  BY <1>1, <1>2, ChangeKeeps DEF OwnerChanges
<1>3. CASE o = app.owner
  <2>1. /\ app' = [app EXCEPT !.policy = p]
        /\ others' = TRUE /\ masked' = TRUE
        /\ UNCHANGED <<net, resources, diff, asked, calls, published, tab, mail>>
    BY <1>3 DEF OwnerChanges
  <2> HIDE DEF p
  <2>2. AppTyped' /\ app'.owner = app.owner /\ app'.networks = app.networks
          /\ app.policy <= app'.policy
    BY <1>1, <2>1 DEF TabsInv, Typed, AppTyped
  <2>3. /\ NetTyped' /\ DiffTyped' /\ MailTyped' /\ ResourcesTyped'
        /\ AskedTyped' /\ FlagsTyped' /\ tab' \in Tabs /\ CallsTyped(calls')
    BY <2>1 DEF TabsInv, Typed, NetTyped, DiffTyped, MailTyped, ResourcesTyped,
                AskedTyped, FlagsTyped
  <2>4. diff.root = NoVersion \/ diff.root < app.policy
          => diff.root = NoVersion \/ diff.root < app'.policy
    BY <2>2 DEF TabsInv, Typed, AppTyped, DiffTyped, Policies, NoVersion
  <2>5. Truths'
    BY <2>1, <2>2, <2>4
       DEF TabsInv, Truths, IndicatorTruthful, ActiveTabAskedForOwner,
           ComparisonIsOlder
  <2> QED
    BY <2>2, <2>3, <2>5 DEF TabsInv, Typed
<1> QED
  BY <1>2, <1>3

(* Asking for the resources of what is picked.                             *)
LEMMA ResourcesRequest ==
  ASSUME TabsInv, NEW picked \in SUBSET Networks
  PROVE  [store |-> "resources", owner |-> app.owner, networks |-> picked]
           \in Requests
BY DEF TabsInv, Typed, AppTyped, Requests

LEMMA PickKeeps ==
  ASSUME TabsInv, NEW n \in Networks, PickNetwork(n)
  PROVE  TabsInv'
<1> DEFINE picked == IF n \in net.picked THEN net.picked \ {n}
                     ELSE net.picked \cup {n}
<1>1. picked \in SUBSET Networks /\ picked \subseteq Rows(net.of)
  BY DEF PickNetwork, TabsInv, Typed, NetTyped
<1>2. /\ net' = [net EXCEPT !.picked = picked, !.confirm = TRUE, !.cancel = TRUE]
      /\ AskResources(picked) /\ masked' = (picked # {})
      /\ UNCHANGED <<app, published, tab, diff, mail, asked, others>>
  BY DEF PickNetwork
<1> HIDE DEF picked
<1>3. NetTyped' /\ net'.restricted = net.restricted
  BY <1>1, <1>2 DEF TabsInv, Typed, NetTyped
<1>4. CallsTyped(calls')
  BY <1>1, <1>2, ResourcesRequest, AddTyped DEF TabsInv, Typed, AskResources
<1>5. ResourcesTyped'
  BY <1>1, <1>2 DEF TabsInv, Typed, ResourcesTyped, AskResources
<1>6. DiffTyped' /\ MailTyped' /\ FlagsTyped' /\ published' \in Policies
        /\ published <= published'
  BY <1>2 DEF TabsInv, Typed, DiffTyped, MailTyped, FlagsTyped, AppTyped,
              Policies
<1> QED
  BY <1>2, <1>3, <1>4, <1>5, <1>6, CalmStep

LEMMA ConfirmKeeps ==
  ASSUME TabsInv, ConfirmNetworks
  PROVE  TabsInv'
<1> USE DEF TabsInv, Typed
<1>1. app' = [app EXCEPT !.networks = Chosen(net)]
        /\ Chosen(net) \in SUBSET Networks
  BY DEF ConfirmNetworks, ChangeNetworks, Chosen, NetTyped
<1>2. AppTyped' /\ app'.owner = app.owner /\ app'.policy = app.policy
        /\ app'.networks = Chosen(net)
  BY <1>1 DEF AppTyped, ConfirmNetworks
<1>3. NetTyped' /\ (net'.restricted <=> net.picked \notin {{}, Rows(net.of)})
  BY DEF ConfirmNetworks, NetTyped
<1>4. /\ DiffTyped' /\ MailTyped' /\ ResourcesTyped' /\ AskedTyped'
      /\ FlagsTyped' /\ tab' \in Tabs /\ CallsTyped(calls')
  BY DEF ConfirmNetworks, ChangeNetworks, DiffTyped, MailTyped, ResourcesTyped,
         AskedTyped, FlagsTyped
<1>5. Truths'
  BY <1>2, <1>3 DEF ConfirmNetworks, Chosen, Truths, IndicatorTruthful,
                    ActiveTabAskedForOwner, ComparisonIsOlder
<1> QED
  BY <1>2, <1>3, <1>4, <1>5

LEMMA CancelKeeps ==
  ASSUME TabsInv, CancelNetworks
  PROVE  TabsInv'
<1> USE DEF TabsInv, Typed
<1>1. app' = [app EXCEPT !.networks = {}]
  BY DEF CancelNetworks, ChangeNetworks
<1>2. AppTyped' /\ app'.owner = app.owner /\ app'.policy = app.policy
        /\ app'.networks = {}
  BY <1>1 DEF AppTyped, CancelNetworks
<1>3. NetTyped' /\ net'.restricted = FALSE
  BY DEF CancelNetworks, NetTyped
<1>4. /\ DiffTyped' /\ MailTyped' /\ ResourcesTyped' /\ AskedTyped'
      /\ FlagsTyped' /\ tab' \in Tabs /\ CallsTyped(calls')
  BY DEF CancelNetworks, ChangeNetworks, DiffTyped, MailTyped, ResourcesTyped,
         AskedTyped, FlagsTyped
<1>5. Truths'
  BY <1>2, <1>3 DEF CancelNetworks, Truths, IndicatorTruthful,
                    ActiveTabAskedForOwner, ComparisonIsOlder
<1> QED
  BY <1>2, <1>3, <1>4, <1>5

LEMMA CompareKeeps ==
  ASSUME TabsInv, NEW v \in Policies, CompareWith(v)
  PROVE  TabsInv'
<1> USE DEF TabsInv, Typed
<1>1. [store |-> "diff", owner |-> app.owner, version |-> v] \in Requests
  BY DEF AppTyped, Requests
<1>2. CallsTyped(calls')
  BY <1>1, AddTyped DEF CompareWith
<1>3. DiffTyped' /\ diff'.root = v
  BY DEF CompareWith, DiffTyped
<1>4. AppTyped' /\ NetTyped' /\ MailTyped' /\ ResourcesTyped' /\ FlagsTyped'
        /\ AskedTyped' /\ tab' \in Tabs
  BY DEF CompareWith, AppTyped, NetTyped, MailTyped, ResourcesTyped, FlagsTyped,
         AskedTyped
<1>5. Truths'
  BY <1>3 DEF CompareWith, Truths, IndicatorTruthful, ActiveTabAskedForOwner,
              ComparisonIsOlder
<1> QED
  BY <1>2, <1>3, <1>4, <1>5

(* The mail preference: a click, and the answers of its stores.            *)
LEMMA MailRequest ==
  ASSUME TabsInv, NEW value \in BOOLEAN
  PROVE  [store |-> "set_mail", owner |-> app.owner, send |-> value] \in Requests
BY DEF TabsInv, Typed, AppTyped, Requests

LEMMA TickKeeps ==
  ASSUME TabsInv, TickBox
  PROVE  TabsInv'
<1>1. app.owner \in Owners /\ mail.box \in BOOLEAN
  BY DEF TabsInv, Typed, AppTyped, MailTyped
<1>2. MailTyped'
  BY <1>1 DEF TickBox, TabsInv, Typed, MailTyped
<1>3. CallsTyped(calls')
  BY <1>1, MailRequest, AddTyped DEF TickBox, StoreBox, TabsInv, Typed
<1>4. NetTyped' /\ DiffTyped' /\ ResourcesTyped' /\ FlagsTyped'
        /\ published' \in Policies /\ published <= published'
  BY DEF TickBox, StoreBox, TabsInv, Typed, NetTyped, DiffTyped, ResourcesTyped,
         FlagsTyped, AppTyped, Policies
<1> QED
  BY <1>2, <1>3, <1>4, CalmStep DEF TickBox

LEMMA NetworksLoadedKeeps ==
  ASSUME TabsInv, NEW c \in BagToSet(calls), NEW success \in BOOLEAN,
         NetworksLoaded(c, success)
  PROVE  TabsInv'
<1> DEFINE of == IF success THEN c.owner ELSE net.of
           picked == IF app.networks = {} THEN Rows(of)
                     ELSE app.networks \cap Rows(of)
<1>1. of \in Owners \cup {NoOwner}
  BY PendingRequests DEF TabsInv, Typed, NetTyped
<1>2. picked \in SUBSET Networks /\ picked \subseteq Rows(of)
  BY <1>1, RowsKnown
<1>3. /\ net' = [net EXCEPT !.of = of, !.picked = picked]
      /\ SelectAndLoad(net, picked, Rest(c))
      /\ UNCHANGED <<app, published, tab, diff, mail, asked, others>>
  BY DEF NetworksLoaded
<1> HIDE DEF of, picked
<1>4. NetTyped' /\ net'.restricted = net.restricted
  BY <1>1, <1>2, <1>3 DEF TabsInv, Typed, NetTyped
<1>5. CallsTyped(calls')
  BY <1>2, <1>3, ResourcesRequest, RestTyped, AddTyped
     DEF SelectAndLoad, TabsInv, Typed
<1>6. ResourcesTyped' /\ masked' \in BOOLEAN
  BY <1>2, <1>3 DEF SelectAndLoad, TabsInv, Typed, ResourcesTyped
<1>7. DiffTyped' /\ MailTyped' /\ FlagsTyped' /\ published' \in Policies
        /\ published <= published'
  BY <1>3, <1>6 DEF TabsInv, Typed, DiffTyped, MailTyped, FlagsTyped, AppTyped,
              Policies
<1> QED
  BY <1>3, <1>4, <1>5, <1>6, <1>7, CalmStep

LEMMA ResourcesLoadedKeeps ==
  ASSUME TabsInv, NEW c \in BagToSet(calls), NEW success \in BOOLEAN,
         ResourcesLoaded(c, success)
  PROVE  TabsInv'
<1>1. CallsTyped(calls') /\ ResourcesTyped'
  BY PendingRequests, RestTyped
     DEF ResourcesLoaded, TabsInv, Typed, ResourcesTyped
<1>2. NetTyped' /\ DiffTyped' /\ MailTyped' /\ FlagsTyped'
  BY DEF ResourcesLoaded, TabsInv, Typed, NetTyped, DiffTyped, MailTyped,
         FlagsTyped
<1>3. published' \in Policies /\ published <= published'
  BY DEF ResourcesLoaded, TabsInv, Typed, AppTyped, Policies
<1> QED
  BY <1>1, <1>2, <1>3, CalmStep DEF ResourcesLoaded

LEMMA SupervisorsLoadedKeeps ==
  ASSUME TabsInv, NEW c \in BagToSet(calls), NEW success \in BOOLEAN,
         SupervisorsLoaded(c, success)
  PROVE  TabsInv'
<1>1. CallsTyped(calls')
  BY RestTyped DEF SupervisorsLoaded, TabsInv, Typed
<1>2. /\ NetTyped' /\ DiffTyped' /\ MailTyped' /\ FlagsTyped'
      /\ ResourcesTyped' /\ published' \in Policies /\ published <= published'
  BY DEF SupervisorsLoaded, TabsInv, Typed, NetTyped, DiffTyped, MailTyped,
         ResourcesTyped, FlagsTyped, AppTyped, Policies
<1> QED
  BY <1>1, <1>2, CalmStep DEF SupervisorsLoaded

LEMMA MailLoadedKeeps ==
  ASSUME TabsInv, NEW c \in BagToSet(calls), NEW success \in BOOLEAN,
         MailLoaded(c, success)
  PROVE  TabsInv'
<1> DEFINE value == IF success THEN mail.wants[c.owner] ELSE mail.box
<1>1. value \in BOOLEAN
  BY PendingRequests DEF TabsInv, Typed, MailTyped
<1>2. /\ mail' = [mail EXCEPT !.box = value]
      /\ \/ calls' = Rest(c)
         \/ calls' = Rest(c) (+) SetToBag({[store |-> "set_mail",
                                  owner |-> app.owner, send |-> value]})
      /\ masked' \in BOOLEAN
      /\ UNCHANGED <<app, published, tab, net, resources, diff, asked, others>>
  BY DEF MailLoaded
<1> HIDE DEF value
<1>3. MailTyped'
  BY <1>1, <1>2 DEF TabsInv, Typed, MailTyped
<1>4. CallsTyped(calls')
  BY <1>1, <1>2, MailRequest, RestTyped, AddTyped DEF TabsInv, Typed
<1>5. NetTyped' /\ DiffTyped' /\ ResourcesTyped' /\ FlagsTyped'
        /\ published' \in Policies /\ published <= published'
  BY <1>2 DEF TabsInv, Typed, NetTyped, DiffTyped, ResourcesTyped,
              FlagsTyped, AppTyped, Policies
<1> QED
  BY <1>2, <1>3, <1>4, <1>5, CalmStep

LEMMA MailStoredKeeps ==
  ASSUME TabsInv, NEW c \in BagToSet(calls), NEW success \in BOOLEAN,
         MailStored(c, success)
  PROVE  TabsInv'
<1>1. CallsTyped(calls')
  BY RestTyped DEF MailStored, TabsInv, Typed
<1>2. MailTyped'
  BY PendingRequests DEF MailStored, TabsInv, Typed, MailTyped
<1>3. NetTyped' /\ DiffTyped' /\ ResourcesTyped' /\ FlagsTyped'
  BY DEF MailStored, TabsInv, Typed, NetTyped, DiffTyped, ResourcesTyped,
         FlagsTyped
<1>4. published' \in Policies /\ published <= published'
  BY DEF MailStored, TabsInv, Typed, AppTyped, Policies
<1> QED
  BY <1>1, <1>2, <1>3, <1>4, CalmStep DEF MailStored

LEMMA DiffLoadedKeeps ==
  ASSUME TabsInv, NEW c \in BagToSet(calls), NEW success \in BOOLEAN,
         DiffLoaded(c, success)
  PROVE  TabsInv'
<1>1. CallsTyped(calls')
  BY RestTyped DEF DiffLoaded, TabsInv, Typed
<1>2. DiffTyped' /\ diff'.root = diff.root
  <2>1. c \in Requests /\ c.store = "diff"
    BY PendingRequests DEF DiffLoaded, TabsInv, Typed
  <2>2. diff' = diff \/ diff' = [diff EXCEPT !.shown = @ \cup {c}]
    BY DEF DiffLoaded
  <2> QED
    BY <2>1, <2>2 DEF TabsInv, Typed, DiffTyped
<1>3. NetTyped' /\ MailTyped' /\ ResourcesTyped' /\ FlagsTyped'
        /\ published' \in Policies /\ published <= published'
  BY DEF DiffLoaded, TabsInv, Typed, NetTyped, MailTyped, ResourcesTyped,
         FlagsTyped, AppTyped, Policies
<1> QED
  BY <1>1, <1>2, <1>3, CalmStep DEF DiffLoaded

LEMMA PublishKeeps ==
  ASSUME TabsInv, Publish \/ OtherAnswered \/ UNCHANGED vars
  PROVE  TabsInv'
<1>1. published' \in Policies /\ published <= published'
  BY TabsAssumption DEF Publish, OtherAnswered, vars, TabsInv, Typed, AppTyped,
                        Policies
<1>2. /\ NetTyped' /\ DiffTyped' /\ MailTyped' /\ ResourcesTyped' /\ FlagsTyped'
      /\ CallsTyped(calls')
      /\ UNCHANGED <<app, tab, asked, net, diff>>
  BY DEF Publish, OtherAnswered, vars, TabsInv, Typed, NetTyped, DiffTyped,
         MailTyped, ResourcesTyped, FlagsTyped
<1> QED
  BY <1>1, <1>2, CalmStep
----------------------------------------------------------------------------
LEMMA TabsInductive == Spec => []TabsInv
<1>1. Init => TabsInv
  <2> SUFFICES ASSUME Init PROVE TabsInv
    OBVIOUS
  <2>1. AppTyped /\ app.networks = {}
    BY TabsAssumption DEF Init, AppTyped, Policies
  <2>2. NetTyped /\ net.restricted = FALSE
    BY DEF Init, NetTyped
  <2>3. DiffTyped /\ MailTyped /\ ResourcesTyped /\ AskedTyped /\ FlagsTyped
          /\ tab = "service" /\ tab \in Tabs
    BY DEF Init, DiffTyped, MailTyped, ResourcesTyped, AskedTyped, FlagsTyped,
           Tabs
  <2>4. CallsTyped(calls)
    BY EmptyTyped DEF Init
  <2> QED
    BY <2>1, <2>2, <2>3, <2>4
       DEF TabsInv, Typed, Truths, IndicatorTruthful, ActiveTabAskedForOwner,
           ComparisonIsOlder
<1>2. TabsInv /\ [Next]_vars => TabsInv'
  <2> SUFFICES ASSUME TabsInv, [Next]_vars
               PROVE  TabsInv'
    OBVIOUS
  <2>1. CASE Publish \/ OtherAnswered \/ UNCHANGED vars
    BY <2>1, PublishKeeps
  <2>2. CASE Gesture
    BY <2>2, OpenTabKeeps, SelectPolicyKeeps, PickKeeps, ConfirmKeeps,
       CancelKeeps, CompareKeeps, TickKeeps DEF Gesture
  <2>3. CASE Answer
    BY <2>3, NetworksLoadedKeeps, ResourcesLoadedKeeps, SupervisorsLoadedKeeps,
       MailLoadedKeeps, MailStoredKeeps, DiffLoadedKeeps DEF Answer
  <2>4. CASE \E o \in Owners, known \in BOOLEAN : OwnerChanges(o, known)
    BY <2>4, OwnerChangesKeeps
  <2> QED
    BY <2>1, <2>2, <2>3, <2>4 DEF Next
<1> QED
  BY <1>1, <1>2, PTL DEF Spec

(* The state of the tabs keeps its shape; the bag of requests in flight    *)
(* holds requests of known stores and owners only, however many there are.  *)
THEOREM TabsTyped == Spec => []TypeOK
<1>1. TabsInv => TypeOK
  BY DEF TabsInv, Typed, TypeOK, AppTyped, NetTyped, DiffTyped, MailTyped,
         ResourcesTyped, AskedTyped, FlagsTyped, CallsTyped
<1> QED
  BY <1>1, TabsInductive, PTL

(* The button and the page's requests agree on the choice of networks, for *)
(* any owners that own any networks.                                        *)
THEOREM IndicatorAlwaysTruthful == Spec => []IndicatorTruthful
BY TabsInductive, PTL DEF TabsInv, Truths

(* No interleaving of owner changes and tabs leaves the open tab with the  *)
(* request of another owner as its last one.                                *)
THEOREM ActiveTabFollowsOwner == Spec => []ActiveTabAskedForOwner
BY TabsInductive, PTL DEF TabsInv, Truths

(* No version is ever compared with itself or an older policy, for any     *)
(* number of policies.                                                      *)
THEOREM ComparisonStaysOlder == Spec => []ComparisonIsOlder
BY TabsInductive, PTL DEF TabsInv, Truths
=============================================================================
