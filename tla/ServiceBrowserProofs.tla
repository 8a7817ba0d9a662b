------------------------ MODULE ServiceBrowserProofs ------------------------
(* What holds of the service view for any owners, services, networks and   *)
(* searches, and for any number of requests in flight; among it, that the   *)
(* view drives the users store by the protocol of UserLoads.                *)
EXTENDS ServiceBrowser, SequenceTheorems, WellFoundedInduction, TLAPS

Apps == [owner: Owners \cup {NoOwner}, policy: Policies, current: BOOLEAN,
         networks: Networks \cup {NoNetworks}, init: BOOLEAN]
Asks == [step: {"set", "policy"}, owner: Owners]
Views == [pressed: Relations \cup {"", "search"}, relation: Relations \cup {""},
          form: Terms \cup {"none", "blank", "invalid"},
          names: BOOLEAN, filter: BOOLEAN]
RuleRecords == [service: Services \cup {NoService},
                owner: Owners \cup {NoOwner}, current: BOOLEAN]
Panes == [rules: RuleRecords, picked: BOOLEAN, busy: BOOLEAN, enabled: BOOLEAN]

AppTyped == app \in Apps /\ base \in Params /\ published \in 1 .. MaxPolicy
ListTyped ==
  /\ list = [asked |-> list.asked, rows |-> list.rows,
             selected |-> list.selected]
  /\ list.rows \subseteq Services
  /\ list.selected \in Services \cup {NoService}

Typed == /\ AppTyped /\ ListTyped
         /\ asks \in Seq(Asks) /\ view \in Views /\ pane \in Panes
         /\ ruleAsks \in Seq(RulesRequests) /\ masked \in BOOLEAN

(* Until the first owner is known the page is masked and nothing is asked. *)
InitPhase ==
  IF app.init
  THEN /\ masked /\ app.owner = NoOwner /\ view.form = "none"
       /\ lists = <<>> /\ ruleAsks = <<>>
       /\ users = Store!Empty /\ list.rows = {}
  ELSE app.owner \in Owners

BaseKnown == base.owner = app.owner /\ base.networks = app.networks

SelectionKnown ==
  /\ list.selected = NoService <=> list.rows = {}
  /\ list.selected = NoService <=> users.desired = NoKey
  /\ users.desired # NoKey => users.desired.service = list.selected

(* What was loaded completely is what is shown, and nothing is shown when  *)
(* nothing is wanted: the facts that make the promises inductive.           *)
ShownIsLoaded == /\ users.loaded # NoKey => users.shown \in {NoKey, users.loaded}
                 /\ users.desired = NoKey => users.shown = NoKey

StoreInv == Store!TypeOK /\ Store!QueueBehindRequest /\ ShownIsLoaded

BrowserInv == /\ Typed /\ InitPhase /\ BaseKnown /\ SelectionKnown
              /\ ButtonsTellTheTruth /\ ListAskedAsShown
              /\ StoreInv

UsersStep == Store!Next \/ users' = users
----------------------------------------------------------------------------
(* The protocol of the users store.                                        *)

(* Asking for k keeps the invariant, whatever the store was doing.         *)
LEMMA WantKeeps ==
  ASSUME StoreInv, NEW k \in UserKeys, NEW force \in BOOLEAN, Store!Want(k, force)
  PROVE  StoreInv'
<1> USE KeyAssumption DEF Store!MaybeKey
<1>1. CASE ~force /\ users.loaded = k
  <2>1. users' = [users EXCEPT !.desired = k]
    BY <1>1 DEF Store!Want, Store!Wanted
  <2> QED
    BY <2>1, <1>1 DEF StoreInv, Store!TypeOK, Store!QueueBehindRequest, ShownIsLoaded
<1>2. CASE (force \/ users.loaded # k) /\ users.request = k
  <2>1. users' = [users EXCEPT !.desired = k]
    BY <1>2 DEF Store!Want, Store!Wanted
  <2> QED
    BY <2>1, <1>2 DEF StoreInv, Store!TypeOK, Store!QueueBehindRequest, ShownIsLoaded
<1>3. CASE (force \/ users.loaded # k) /\ users.request \notin {k, NoKey}
  <2>1. users' = [users EXCEPT !.desired = k, !.queued = k, !.shown = NoKey]
    BY <1>3 DEF Store!Want, Store!Wanted
  <2> QED
    BY <2>1, <1>3 DEF StoreInv, Store!TypeOK, Store!QueueBehindRequest, ShownIsLoaded
<1>4. CASE (force \/ users.loaded # k) /\ users.request = NoKey
  <2>1. users' = [users EXCEPT !.desired = k, !.queued = NoKey, !.request = k]
    BY <1>4 DEF Store!Want, Store!Wanted
  <2> QED
    BY <2>1, <1>4 DEF StoreInv, Store!TypeOK, Store!QueueBehindRequest, ShownIsLoaded
<1> QED
  BY <1>1, <1>2, <1>3, <1>4

LEMMA DropKeeps ==
  ASSUME StoreInv, Store!Drop
  PROVE  StoreInv'
BY DEF Store!Drop, Store!Dropped, Store!Empty, StoreInv, Store!TypeOK,
       Store!QueueBehindRequest, ShownIsLoaded, Store!MaybeKey

(* An answer leaves an idle store, which is served at once or waits.       *)
LEMMA ReceivedKeeps ==
  ASSUME StoreInv, Store!Loading, NEW success \in BOOLEAN
  PROVE  LET u == Store!Received(users, success)
         IN /\ u \in [desired: Store!MaybeKey, request: {NoKey}, queued: {NoKey},
                      loaded: Store!MaybeKey, shown: Store!MaybeKey]
            /\ u.desired = users.desired
            /\ u.loaded # NoKey => u.shown \in {NoKey, u.loaded}
            /\ u.desired = NoKey => u.shown = NoKey
            /\ u.shown \in {NoKey, users.desired, users.shown}
            /\ users.desired # users.request => u.shown = NoKey
BY KeyAssumption DEF Store!Received, StoreInv, Store!TypeOK, Store!Loading, ShownIsLoaded, Store!MaybeKey

LEMMA AnswerKeeps ==
  ASSUME StoreInv, NEW success \in BOOLEAN, NEW again \in UserKeys,
         Store!Answer(success, again)
  PROVE  StoreInv'
<1> DEFINE u == Store!Received(users, success)
<1>1. /\ u \in [desired: Store!MaybeKey, request: {NoKey}, queued: {NoKey},
                loaded: Store!MaybeKey, shown: Store!MaybeKey]
      /\ u.loaded # NoKey => u.shown \in {NoKey, u.loaded}
      /\ u.desired = NoKey => u.shown = NoKey
  BY ReceivedKeeps DEF Store!Answer
<1>2. \/ users' = u
      \/ users' = [u EXCEPT !.desired = again, !.queued = NoKey,
                            !.request = again]
  <2>1. u.request = NoKey
    BY <1>1
  <2>2. users' = u \/ users' = Store!Wanted(u, again, TRUE)
    BY DEF Store!Answer, Store!Answered
  <2> HIDE DEF u
  <2>3. Store!Wanted(u, again, TRUE)
          = [u EXCEPT !.desired = again, !.queued = NoKey, !.request = again]
    BY <2>1, KeyAssumption DEF Store!Wanted
  <2> QED
    BY <2>2, <2>3
<1> HIDE DEF u
<1> QED
  BY KeyAssumption, <1>1, <1>2
     DEF StoreInv, Store!TypeOK, Store!QueueBehindRequest, ShownIsLoaded, Store!MaybeKey

(* Any step of the protocol.                                               *)
LEMMA StoreStep ==
  ASSUME StoreInv, [Store!Next]_(Store!vars)
  PROVE  StoreInv'
<1>1. CASE UNCHANGED Store!vars
  BY <1>1 DEF Store!vars, StoreInv, Store!TypeOK, Store!QueueBehindRequest, ShownIsLoaded
<1>2. CASE \E k \in UserKeys, force \in BOOLEAN : Store!Want(k, force)
  BY <1>2, WantKeeps
<1>3. CASE Store!Drop
  BY <1>3, DropKeeps
<1>4. CASE \E success \in BOOLEAN, again \in UserKeys : Store!Answer(success, again)
  BY <1>4, AnswerKeeps
<1> QED
  BY <1>1, <1>2, <1>3, <1>4 DEF Store!Next

LEMMA StoreStart == Store!Init => StoreInv
BY DEF Store!Init, Store!Empty, StoreInv, Store!TypeOK,
       Store!QueueBehindRequest, ShownIsLoaded, Store!MaybeKey

LEMMA StoreInductive == Store!Spec => []StoreInv
<1>1. StoreInv /\ [Store!Next]_(Store!vars) => StoreInv'
  BY StoreStep
<1> QED
  BY <1>1, StoreStart, PTL DEF Store!Spec
----------------------------------------------------------------------------
(* The record of the store stays one of keys, whichever are asked for.     *)
THEOREM StoreTyped == Store!Spec => []Store!TypeOK
BY StoreInductive, PTL DEF StoreInv

(* A queued selection waits for a request in flight, and for another one:  *)
(* the store is never idle with its queue filled.                           *)
THEOREM QueueNeverForgotten == Store!Spec => []Store!QueueBehindRequest
BY StoreInductive, PTL DEF StoreInv

(* Users that count as those of the newest selection are its users.        *)
THEOREM LoadedAreTheirs == Store!Spec => []Store!LoadedUsersAreTheirs
<1>1. StoreInv => Store!LoadedUsersAreTheirs
  BY KeyAssumption DEF StoreInv, ShownIsLoaded, Store!LoadedUsersAreTheirs
<1> QED
  BY <1>1, StoreInductive, PTL

(* A step fills the store with what is wanted only.                        *)
LEMMA ShownStep ==
  ASSUME StoreInv, [Store!Next]_(Store!vars)
  PROVE  [users'.shown # users.shown =>
            users'.shown \in {NoKey, users'.desired}]_users
<1> SUFFICES ASSUME Store!Next
             PROVE  users'.shown = users.shown
                      \/ users'.shown \in {NoKey, users'.desired}
  BY DEF Store!vars
<1>1. ASSUME NEW k \in UserKeys, NEW force \in BOOLEAN, Store!Want(k, force)
      PROVE  users'.shown \in {NoKey, users.shown}
  BY <1>1 DEF Store!Want, Store!Wanted, StoreInv, Store!TypeOK
<1>2. CASE Store!Drop
  BY <1>2 DEF Store!Drop, Store!Dropped, Store!Empty
<1>3. ASSUME NEW success \in BOOLEAN, NEW again \in UserKeys,
             Store!Answer(success, again)
      PROVE  users'.shown \in {NoKey, users.shown, users'.desired}
  <2> DEFINE u == Store!Received(users, success)
  <2>1. /\ u \in [desired: Store!MaybeKey, request: {NoKey}, queued: {NoKey},
                  loaded: Store!MaybeKey, shown: Store!MaybeKey]
        /\ u.desired = users.desired
        /\ u.shown \in {NoKey, users.desired, users.shown}
        /\ users.desired # users.request => u.shown = NoKey
    BY <1>3, ReceivedKeeps DEF Store!Answer
  <2>2. CASE users.queued # NoKey /\ users.queued = users.desired
    <3>1. u.shown = NoKey
      BY <2>1, <2>2 DEF StoreInv, Store!QueueBehindRequest
    <3>2. users' = Store!Wanted(u, again, TRUE)
      BY <1>3, <2>2 DEF Store!Answer, Store!Answered
    <3> HIDE DEF u
    <3> QED
      BY <3>1, <3>2, <2>1 DEF Store!Wanted
  <2>3. CASE ~(users.queued # NoKey /\ users.queued = users.desired)
    <3>1. users' = u
      BY <1>3, <2>3 DEF Store!Answer, Store!Answered
    <3> HIDE DEF u
    <3> QED
      BY <3>1, <2>1
  <2> QED
    BY <2>2, <2>3
<1> QED
  BY <1>1, <1>2, <1>3 DEF Store!Next

(* No answer, however late, exposes the users of a former selection.       *)
THEOREM NoForeignUsersAppear == Store!Spec => Store!OnlyWantedUsersAppear
<1>1. StoreInv /\ [Store!Next]_(Store!vars)
        => [users'.shown # users.shown =>
              users'.shown \in {NoKey, users'.desired}]_(Store!vars)
  BY ShownStep DEF Store!vars
<1> QED
  BY <1>1, StoreInductive, PTL DEF Store!Spec, Store!OnlyWantedUsersAppear
----------------------------------------------------------------------------
LEMMA StoreKeeps ==
  ASSUME StoreInv, UsersStep
  PROVE  StoreInv'
BY StoreStep DEF UsersStep, Store!vars

(* The keys of requests.                                                   *)
LEMMA KeyOfRequest ==
  ASSUME app \in Apps, app.owner \in Owners, NEW v \in Views, view.form \in
         Terms \cup {"none", "blank", "invalid"}, NEW s \in Services
  PROVE  /\ UsersRequest(s, v) \in UserKeys
         /\ UsersRequest(s, v).service = s
         /\ UsersRequest(s, v) # NoKey
<1>1. DataTerms(v) \in Terms \cup {"blank", NoTerms}
  BY DEF DataTerms, SearchTerms
<1>2. v.names \in BOOLEAN
  BY DEF Views
<1> QED
  BY <1>1, <1>2, KeyAssumption DEF UsersRequest, UserKeys, Apps

LEMMA WantedKey ==
  ASSUME StoreInv, NEW k \in UserKeys, NEW force \in BOOLEAN
  PROVE  Store!Wanted(users, k, force).desired = k
BY DEF Store!Wanted, StoreInv, Store!TypeOK

LEMMA FirstOfRows ==
  ASSUME NEW rows \in SUBSET Services, rows # {}
  PROVE  First(rows) \in rows
<1> DEFINE Less == {ss \in Nat \X Nat : ss[1] < ss[2]}
<1>1. IsWellFoundedOn(Less, Nat)
  BY NatLessThanWellFounded DEF OpToRel
<1>2. \A m, n \in Nat : n < m => <<n, m>> \in Less
  OBVIOUS
<1> HIDE DEF Less
<1>3. rows \subseteq Nat
  BY SetsAssumption
<1>4. PICK m \in rows : \A n \in rows : ~(<<n, m>> \in Less)
  BY <1>1, <1>3, WFMin
<1>5. ASSUME NEW t \in rows PROVE m <= t
  <2>1. m \in Nat /\ t \in Nat
    BY <1>3
  <2>2. ~(t < m)
    BY <2>1, <1>2, <1>4
  <2> QED
    BY <2>1, <2>2
<1> QED
  BY <1>5 DEF First

(* Buttons computed afresh are right.                                      *)
LEMMA FreshButtons ==
  ASSUME NEW p \in Panes, NEW a \in Apps, NEW s
  PROVE  LET q == WithButtons(p, a, s)
         IN /\ q \in Panes
            /\ q.enabled => /\ a.current /\ q.picked /\ q.rules.current
                            /\ q.rules.service = s /\ q.rules.owner = a.owner
BY DEF WithButtons, Panes
----------------------------------------------------------------------------
(* The page is not reached before the first owner is known.                *)
LEMMA AfterInit ==
  ASSUME BrowserInv,
         \/ ~masked \/ view.form # "none" \/ lists # <<>> \/ ruleAsks # <<>>
         \/ list.rows # {} \/ users.request # NoKey
  PROVE  ~app.init /\ app.owner \in Owners
BY DEF BrowserInv, InitPhase, Store!Empty

(* Steps that leave the users store and the selection alone.               *)
LEMMA SameSelection ==
  ASSUME SelectionKnown, users' = users, list'.rows = list.rows,
         list'.selected = list.selected
  PROVE  SelectionKnown' /\ UsersStep
BY DEF SelectionKnown, UsersStep

LEMMA SentShown ==
  ASSUME NEW a \in Apps
  PROVE  /\ Sent(a).owner = a.owner /\ Sent(a).networks = a.networks
         /\ view.pressed \in Relations => Sent(a).relation = view.pressed
BY DEF Sent, ListWithParams, ListRequest, BaseParams

LEMMA LastRequest ==
  ASSUME NEW a \in Apps
  PROVE  /\ Last(Requests(a)) = Sent(WithoutNetworks(a))
         /\ \A x : Last(Requests(a) \o <<x>>) = x
         /\ WithoutNetworks(a) \in Apps
         /\ WithoutNetworks(a).owner = a.owner
         /\ WithoutNetworks(a).init = a.init
<1>1. WithoutNetworks(a) \in Apps /\ WithoutNetworks(a).owner = a.owner
        /\ WithoutNetworks(a).init = a.init
  BY DEF WithoutNetworks, Apps
<1>2. CASE a.networks = NoNetworks
  <2>1. WithoutNetworks(a) = a
    BY <1>2 DEF WithoutNetworks, Apps
  <2>2. Requests(a) = <<Sent(a)>>
    BY <1>2 DEF Requests
  <2> QED
    BY <1>1, <2>1, <2>2 DEF Last
<1>3. CASE a.networks # NoNetworks
  <2>1. Requests(a) = <<Sent(a), Sent(WithoutNetworks(a))>>
    BY <1>3 DEF Requests
  <2> QED
    BY <1>1, <2>1 DEF Last
<1> QED
  BY <1>2, <1>3

(* The changed event of the application state.                             *)
LEMMA ChangedKeeps ==
  ASSUME BrowserInv, NEW a \in Apps, ~a.init, a.owner \in Owners,
         NEW requests, Last(requests).owner = a.owner,
         Last(requests).networks = a.networks,
         view.pressed \in Relations => Last(requests).relation = view.pressed,
         Changed(a, requests), asks' \in Seq(Asks),
         UNCHANGED <<published, view, ruleAsks, users>>
  PROVE  BrowserInv' /\ UsersStep
<1>1. app' = a /\ base' = BaseParams(a) /\ masked' = TRUE
        /\ list' = [list EXCEPT !.asked = Last(requests)]
        /\ pane' = WithButtons(pane, a, list.selected)
  BY DEF Changed
<1>2. /\ ListTyped' /\ list'.rows = list.rows /\ list'.selected = list.selected
      /\ list'.asked = Last(requests)
  BY <1>1 DEF BrowserInv, Typed, ListTyped
<1>3. AppTyped'
  BY <1>1 DEF AppTyped, Apps, Params, BaseParams, BrowserInv, Typed
<1>4. /\ pane' \in Panes
      /\ pane'.enabled => /\ a.current /\ pane'.picked /\ pane'.rules.current
                          /\ pane'.rules.service = list.selected
                          /\ pane'.rules.owner = a.owner
  BY <1>1, FreshButtons DEF BrowserInv, Typed
<1>5. Typed'
  BY <1>1, <1>2, <1>3, <1>4 DEF BrowserInv, Typed
<1>6. InitPhase' /\ BaseKnown'
  BY <1>1 DEF InitPhase, BaseKnown, BaseParams
<1>7. SelectionKnown' /\ UsersStep
  BY <1>2, SameSelection DEF BrowserInv
<1>8. ButtonsTellTheTruth' /\ ListAskedAsShown'
  BY <1>1, <1>2, <1>4 DEF ButtonsTellTheTruth, ListAskedAsShown
<1> QED
  BY <1>5, <1>6, <1>7, <1>8, StoreKeeps DEF BrowserInv

(* Steps that change neither what is shown nor what is asked.              *)
LEMMA CalmStep ==
  ASSUME BrowserInv, UNCHANGED <<app, base, list, pane, users, ruleAsks>>,
         view'.pressed = view.pressed, asks' \in Seq(Asks), view' \in Views,
         masked' \in BOOLEAN, published' \in 1 .. MaxPolicy,
         app.init => masked' /\ view'.form = "none" /\ lists' = <<>>
  PROVE  BrowserInv' /\ UsersStep
<1>1. Typed'
  BY DEF BrowserInv, Typed, AppTyped, ListTyped
<1>2. InitPhase' /\ BaseKnown'
  BY DEF BrowserInv, InitPhase, BaseKnown
<1>3. SelectionKnown' /\ UsersStep
  BY SameSelection DEF BrowserInv
<1>4. ButtonsTellTheTruth' /\ ListAskedAsShown'
  BY DEF BrowserInv, ButtonsTellTheTruth, ListAskedAsShown
<1> QED
  BY <1>1, <1>2, <1>3, <1>4, StoreKeeps DEF BrowserInv

(* A request of the list: of the pressed button's kind, for the owner.     *)
LEMMA ListRequested ==
  ASSUME BrowserInv, ~app.init, NEW request,
         UNCHANGED <<app, base, published, asks, pane, ruleAsks, users>>,
         view' \in Views, masked' \in BOOLEAN,
         list' = [list EXCEPT !.asked = request],
         request.owner = base.owner, request.networks = base.networks,
         view'.pressed \in Relations => request.relation = view'.pressed
  PROVE  BrowserInv' /\ UsersStep
<1>1. /\ ListTyped' /\ list'.rows = list.rows /\ list'.selected = list.selected
      /\ list'.asked = request
  BY DEF BrowserInv, Typed, ListTyped
<1>2. Typed'
  BY <1>1 DEF BrowserInv, Typed, AppTyped
<1>3. InitPhase' /\ BaseKnown'
  BY DEF BrowserInv, InitPhase, BaseKnown
<1>4. SelectionKnown' /\ UsersStep
  BY <1>1, SameSelection DEF BrowserInv
<1>5. ButtonsTellTheTruth' /\ ListAskedAsShown'
  BY <1>1 DEF BrowserInv, ButtonsTellTheTruth, ListAskedAsShown, BaseKnown
<1> QED
  BY <1>2, <1>3, <1>4, <1>5, StoreKeeps DEF BrowserInv
----------------------------------------------------------------------------
(* The gestures.                                                           *)
LEMMA SelectOwnerKeeps ==
  ASSUME BrowserInv, NEW o \in Owners, SelectOwner(o)
  PROVE  BrowserInv' /\ UsersStep
<1>1. ~app.init
  BY AfterInit DEF SelectOwner, OnPage
<1>2. [step |-> "set", owner |-> o] \in Asks
  BY DEF Asks
<1>3. asks' \in Seq(Asks)
  BY <1>2, AppendProperties DEF SelectOwner, BrowserInv, Typed
<1> QED
  BY <1>1, <1>3, CalmStep DEF SelectOwner, BrowserInv, Typed, AppTyped

LEMMA SelectPolicyKeeps ==
  ASSUME BrowserInv, NEW p \in 1 .. published, NEW seen \in 1 .. published,
         SelectPolicy(p, seen)
  PROVE  BrowserInv' /\ UsersStep
<1> DEFINE a == [app EXCEPT !.policy = p, !.current = (p = seen)]
           w == WithoutNetworks(a)
<1>1. ~app.init /\ app.owner \in Owners
  BY AfterInit DEF SelectPolicy, OnPage
<1>2. a \in Apps /\ a.owner = app.owner /\ a.init = app.init
  <2>1. p \in Policies
    BY SetsAssumption DEF BrowserInv, Typed, AppTyped, Policies
  <2>2. (p = seen) \in BOOLEAN
    OBVIOUS
  <2> QED
    BY <2>1, <2>2 DEF BrowserInv, Typed, AppTyped, Apps
<1>3. Changed(w, Requests(a))
        /\ UNCHANGED <<published, asks, view, ruleAsks, users>>
  BY DEF SelectPolicy
<1> HIDE DEF a
<1>4. Last(Requests(a)) = Sent(w) /\ w \in Apps /\ w.owner = a.owner
        /\ w.init = a.init
  BY <1>2, LastRequest
<1> HIDE DEF w
<1> QED
  BY <1>1, <1>2, <1>3, <1>4, SentShown, ChangedKeeps DEF BrowserInv, Typed

LEMMA ChooseNetworksKeeps ==
  ASSUME BrowserInv, NEW n \in Networks \cup {NoNetworks}, ChooseNetworks(n)
  PROVE  BrowserInv' /\ UsersStep
<1> DEFINE a == [app EXCEPT !.networks = n]
<1>1. ~app.init /\ app.owner \in Owners
  BY AfterInit DEF ChooseNetworks, OnPage
<1>2. a \in Apps /\ a.owner = app.owner /\ a.init = app.init
  BY DEF BrowserInv, Typed, AppTyped, Apps
<1>3. Changed(a, <<Sent(a)>>)
        /\ UNCHANGED <<published, asks, view, ruleAsks, users>>
  BY DEF ChooseNetworks
<1> HIDE DEF a
<1>4. Last(<<Sent(a)>>) = Sent(a)
  BY DEF Last
<1> QED
  BY <1>1, <1>2, <1>3, <1>4, SentShown, ChangedKeeps DEF BrowserInv, Typed

(* Rules asked for s.                                                      *)
LEMMA RulesAsked ==
  ASSUME BrowserInv, NEW s \in Services,
         ruleAsks' = Append(ruleAsks, RulesRequest(s))
  PROVE  ruleAsks' \in Seq(RulesRequests)
<1>1. RulesRequest(s) \in RulesRequests
  BY DEF RulesRequest, RulesRequests, BrowserInv, Typed, AppTyped, Params
<1> QED
  BY <1>1, AppendProperties DEF BrowserInv, Typed

(* Users asked for s, with the boxes of v.                                 *)
LEMMA UsersAsked ==
  ASSUME BrowserInv, app.owner \in Owners, NEW s \in Services, NEW v \in Views,
         NEW force \in BOOLEAN,
         users' = Store!Wanted(users, UsersRequest(s, v), force)
  PROVE  /\ UsersStep
         /\ users'.desired # NoKey /\ users'.desired.service = s
<1>1. view.form \in Terms \cup {"none", "blank", "invalid"}
  BY DEF BrowserInv, Typed, Views
<1>2. /\ UsersRequest(s, v) \in UserKeys
      /\ UsersRequest(s, v).service = s /\ UsersRequest(s, v) # NoKey
  BY <1>1, KeyOfRequest DEF BrowserInv, Typed, AppTyped
<1>3. users'.desired = UsersRequest(s, v)
  BY <1>2, WantedKey DEF BrowserInv
<1>4. Store!Want(UsersRequest(s, v), force)
  BY DEF Store!Want
<1> QED
  BY <1>2, <1>3, <1>4 DEF UsersStep, Store!Next

(* Another service is shown, in a list that keeps its rows or has new ones.*)
LEMMA ShowKeeps ==
  ASSUME BrowserInv, ~app.init, app.owner \in Owners,
         NEW s \in Services, NEW rows \in SUBSET Services, rows # {},
         list' = [list EXCEPT !.rows = rows, !.selected = s], ShowService(s),
         UNCHANGED <<app, base, published, asks, view>>
  PROVE  BrowserInv' /\ UsersStep
<1>1. /\ ListTyped' /\ list'.rows = rows /\ list'.selected = s
      /\ list'.asked = list.asked
  BY DEF BrowserInv, Typed, ListTyped
<1>2. pane' \in Panes /\ pane'.enabled = FALSE
  BY DEF ShowService, Panes, RuleRecords, NoRules
<1>3. ruleAsks' \in Seq(RulesRequests)
  BY RulesAsked DEF ShowService
<1>4. UsersStep /\ users'.desired # NoKey /\ users'.desired.service = s
  BY UsersAsked DEF ShowService, BrowserInv, Typed
<1>5. Typed'
  BY <1>1, <1>2, <1>3 DEF ShowService, BrowserInv, Typed, AppTyped
<1>6. InitPhase' /\ BaseKnown'
  BY DEF BrowserInv, InitPhase, BaseKnown
<1>7. SelectionKnown'
  BY <1>1, <1>4, SetsAssumption DEF SelectionKnown, NoService
<1>8. ButtonsTellTheTruth' /\ ListAskedAsShown'
  BY <1>1, <1>2 DEF BrowserInv, ButtonsTellTheTruth, ListAskedAsShown
<1> QED
  BY <1>4, <1>5, <1>6, <1>7, <1>8, StoreKeeps DEF BrowserInv

LEMMA SelectServiceKeeps ==
  ASSUME BrowserInv, NEW s \in list.rows, SelectService(s)
  PROVE  BrowserInv' /\ UsersStep
<1>1. ~app.init /\ app.owner \in Owners
  BY AfterInit
<1>2. list' = [list EXCEPT !.rows = list.rows, !.selected = s]
        /\ list.rows \in SUBSET Services
  BY DEF SelectService, BrowserInv, Typed, ListTyped
<1> QED
  BY <1>1, <1>2, ShowKeeps DEF SelectService

LEMMA OpenUsersKeeps ==
  ASSUME BrowserInv, OpenUsersTab
  PROVE  BrowserInv' /\ UsersStep
<1>1. ~app.init /\ app.owner \in Owners
  BY AfterInit DEF OpenUsersTab, OnPage
<1>2. UsersStep /\ SelectionKnown'
  <2>1. CASE list.selected = NoService
    <3>1. users' = Store!Dropped(users)
      BY <2>1 DEF OpenUsersTab
    <3> QED
      BY <2>1, <3>1 DEF UsersStep, Store!Next, Store!Drop, Store!Dropped,
         Store!Empty, OpenUsersTab, SelectionKnown, BrowserInv
  <2>2. CASE list.selected # NoService
    <3>1. users' = Store!Wanted(users, UsersRequest(list.selected, view), FALSE)
            /\ list.selected \in Services /\ view \in Views
      BY <2>2 DEF OpenUsersTab, BrowserInv, Typed, ListTyped
    <3>2. UsersStep /\ users'.desired # NoKey
            /\ users'.desired.service = list.selected
      BY <1>1, <3>1, UsersAsked
    <3> QED
      BY <2>2, <3>2 DEF OpenUsersTab, SelectionKnown, BrowserInv
  <2> QED
    BY <2>1, <2>2
<1>3. Typed'
  BY DEF OpenUsersTab, BrowserInv, Typed, AppTyped, ListTyped
<1>4. InitPhase' /\ BaseKnown' /\ ButtonsTellTheTruth' /\ ListAskedAsShown'
  BY <1>1 DEF OpenUsersTab, BrowserInv, InitPhase, BaseKnown,
              ButtonsTellTheTruth, ListAskedAsShown
<1> QED
  BY <1>2, <1>3, <1>4, StoreKeeps DEF BrowserInv

LEMMA ToggleBoxKeeps ==
  ASSUME BrowserInv, NEW box \in {"names", "filter"}, ToggleBox(box)
  PROVE  BrowserInv' /\ UsersStep
<1> DEFINE v == [view EXCEPT ![box] = ~@]
<1>1. ~app.init /\ app.owner \in Owners
  BY AfterInit DEF ToggleBox, OnPage
<1>2. view' = v /\ v \in Views /\ v.pressed = view.pressed
  BY DEF ToggleBox, BrowserInv, Typed, Views
<1> HIDE DEF v
<1>3. CASE list.rows = {}
  BY <1>1, <1>2, <1>3, CalmStep
     DEF ToggleBox, BrowserInv, Typed, AppTyped
<1>4. CASE list.rows # {}
  <2>1. /\ pane' = [pane EXCEPT !.busy = TRUE]
        /\ ruleAsks' = Append(ruleAsks, RulesRequest(list.selected))
        /\ users' = Store!Wanted(users, UsersRequest(list.selected, v), TRUE)
        /\ masked' = TRUE
        /\ UNCHANGED <<app, base, published, asks, list, lists>>
    BY <1>4 DEF ToggleBox, v
  <2>2. list.selected \in Services
    BY <1>4 DEF BrowserInv, Typed, ListTyped, SelectionKnown
  <2>3. UsersStep /\ users'.desired # NoKey
          /\ users'.desired.service = list.selected
    BY <1>1, <1>2, <2>1, <2>2, UsersAsked
  <2>4. pane' \in Panes /\ pane'.enabled = pane.enabled
          /\ pane'.rules = pane.rules /\ pane'.picked = pane.picked
    BY <2>1 DEF BrowserInv, Typed, Panes
  <2>5. Typed'
    BY <1>2, <2>1, <2>2, <2>4, RulesAsked DEF BrowserInv, Typed, AppTyped, ListTyped
  <2>6. InitPhase' /\ BaseKnown' /\ SelectionKnown'
    BY <1>1, <1>4, <2>1, <2>3 DEF BrowserInv, InitPhase, BaseKnown, SelectionKnown
  <2>7. ButtonsTellTheTruth' /\ ListAskedAsShown'
    BY <1>2, <2>1, <2>4 DEF BrowserInv, ButtonsTellTheTruth, ListAskedAsShown
  <2> QED
    BY <2>3, <2>5, <2>6, <2>7, StoreKeeps DEF BrowserInv
<1> QED
  BY <1>3, <1>4

LEMMA PickRuleKeeps ==
  ASSUME BrowserInv, PickRule
  PROVE  BrowserInv' /\ UsersStep
<1> DEFINE p == [pane EXCEPT !.picked = TRUE]
<1>1. ~app.init /\ app.owner \in Owners
  BY AfterInit DEF PickRule, OnPage
<1>2. p \in Panes
  BY DEF BrowserInv, Typed, Panes
<1>3. pane' = WithButtons(p, app, list.selected)
        /\ UNCHANGED <<app, base, published, asks, view, list, lists, ruleAsks,
                       users, masked>>
  BY DEF PickRule
<1> HIDE DEF p
<1>4. pane' \in Panes /\ ButtonsTellTheTruth'
  BY <1>2, <1>3, FreshButtons DEF ButtonsTellTheTruth, BrowserInv, Typed, AppTyped
<1>5. Typed'
  BY <1>3, <1>4 DEF BrowserInv, Typed, AppTyped, ListTyped
<1>6. InitPhase' /\ BaseKnown' /\ SelectionKnown' /\ ListAskedAsShown'
        /\ UsersStep
  BY <1>1, <1>3 DEF BrowserInv, InitPhase, BaseKnown, SelectionKnown,
                    ListAskedAsShown, UsersStep
<1> QED
  BY <1>4, <1>5, <1>6, StoreKeeps DEF BrowserInv

LEMMA ClickRelationKeeps ==
  ASSUME BrowserInv, NEW r \in Relations, ClickRelation(r)
  PROVE  BrowserInv' /\ UsersStep
<1> DEFINE released == view.pressed = r
           form == IF view.form = "none" THEN "none" ELSE "blank"
           request == ListRequest(base, r, NoTerms)
<1>1. ~app.init /\ app.owner \in Owners
  BY AfterInit DEF ClickRelation, OnPage
<1>2. UNCHANGED <<app, base, published, asks, pane, ruleAsks, users>>
  BY DEF ClickRelation
<1>3. CASE released /\ view.relation = r
  BY <1>1, <1>2, <1>3, CalmStep
     DEF ClickRelation, BrowserInv, Typed, AppTyped
<1>4. CASE ~(released /\ view.relation = r)
  <2>1. /\ view' = [view EXCEPT !.pressed = IF released THEN "" ELSE r,
                                !.relation = r, !.form = form]
        /\ list' = [list EXCEPT !.asked = request]
        /\ masked' = TRUE
    BY <1>4 DEF ClickRelation
  <2>2. view' \in Views /\ view'.pressed \in {"", r}
    BY <2>1 DEF BrowserInv, Typed, Views
  <2>3. request.owner = base.owner /\ request.networks = base.networks
          /\ request.relation = r
    BY DEF ListRequest
  <2>4. view'.pressed \in Relations => request.relation = view'.pressed
    BY <2>2, <2>3 DEF Relations
  <2> QED
    BY <1>1, <1>2, <2>1, <2>2, <2>3, <2>4, ListRequested
<1> QED
  BY <1>3, <1>4

LEMMA FillFormKeeps ==
  ASSUME BrowserInv, NEW f \in Terms \cup {"blank", "invalid"}, FillForm(f)
  PROVE  BrowserInv' /\ UsersStep
<1>1. ~app.init
  BY AfterInit DEF FillForm
<1>2. view' \in Views /\ view'.pressed = view.pressed
  BY DEF FillForm, BrowserInv, Typed, Views
<1> QED
  BY <1>1, <1>2, CalmStep DEF FillForm, BrowserInv, Typed, AppTyped

LEMMA StartSearchKeeps ==
  ASSUME BrowserInv, StartSearch
  PROVE  BrowserInv' /\ UsersStep
<1> DEFINE request == ListRequest(base, "", SearchTerms)
<1>1. ~app.init
  BY AfterInit DEF StartSearch
<1>2. view' \in Views /\ view'.pressed = "search"
  BY DEF StartSearch, BrowserInv, Typed, Views
<1>3. request.owner = base.owner /\ request.networks = base.networks
  BY DEF ListRequest
<1>4. view'.pressed \notin Relations
  BY <1>2 DEF Relations
<1> QED
  BY <1>1, <1>2, <1>3, <1>4, ListRequested DEF StartSearch
----------------------------------------------------------------------------
(* The answers.                                                            *)
LEMMA RemoveTyped ==
  ASSUME NEW S, NEW q \in Seq(S), NEW i \in DOMAIN q
  PROVE  RemoveAt(q, i) \in Seq(S)
<1>1. \A j \in 1 .. (i-1) : q[j] \in S
  OBVIOUS
<1>2. \A j \in (i+1) .. Len(q) : q[j] \in S
  OBVIOUS
<1>3. SubSeq(q, 1, i-1) \in Seq(S) /\ SubSeq(q, i+1, Len(q)) \in Seq(S)
  BY <1>1, <1>2, SubSeqProperties
<1> QED
  BY <1>3, ConcatProperties DEF RemoveAt

LEMMA PendingAsk ==
  ASSUME asks \in Seq(Asks), NEW i \in DOMAIN asks
  PROVE  asks[i] \in Asks
OBVIOUS

LEMMA OwnerStoredKeeps ==
  ASSUME BrowserInv, NEW i \in DOMAIN asks, NEW success \in BOOLEAN,
         OwnerStored(i, success)
  PROVE  BrowserInv' /\ UsersStep
<1>1. asks' = [asks EXCEPT ![i] = [asks[i] EXCEPT !.step = "policy"]]
  BY DEF OwnerStored
<1>2. [asks[i] EXCEPT !.step = "policy"] \in Asks
  <2>1. asks[i] \in Asks
    BY PendingAsk DEF BrowserInv, Typed
  <2> QED
    BY <2>1 DEF Asks
<1>3. asks' \in Seq(Asks)
  BY <1>1, <1>2 DEF BrowserInv, Typed
<1>4. app.init => masked' /\ view'.form = "none" /\ lists' = <<>>
  BY DEF OwnerStored, BrowserInv, InitPhase
<1> QED
  BY <1>3, <1>4, CalmStep DEF OwnerStored, BrowserInv, Typed, AppTyped

LEMMA PolicyLoadedKeeps ==
  ASSUME BrowserInv, NEW i \in DOMAIN asks, NEW success \in BOOLEAN,
         PolicyLoaded(i, success)
  PROVE  BrowserInv' /\ UsersStep
<1> DEFINE a == IF success /\ published # app.policy
                THEN [app EXCEPT !.policy = published, !.current = TRUE]
                ELSE app
           o == asks[i].owner
           next == [a EXCEPT !.owner = o, !.init = FALSE]
<1>1. o \in Owners
  <2>1. asks[i] \in Asks
    BY PendingAsk DEF BrowserInv, Typed
  <2> QED
    BY <2>1 DEF Asks
<1>2. asks' \in Seq(Asks)
  BY RemoveTyped DEF PolicyLoaded, BrowserInv, Typed
<1>3. /\ a \in Apps /\ a.owner = app.owner /\ a.networks = app.networks
      /\ a.init = app.init /\ (app.current => a.current)
  <2>1. published \in Policies
    BY SetsAssumption DEF BrowserInv, Typed, AppTyped, Policies
  <2> QED
    BY <2>1 DEF BrowserInv, Typed, AppTyped, Apps
<1>4. CASE o = app.owner
  <2>1. /\ app' = a /\ masked' = TRUE
        /\ list' = [list EXCEPT !.asked = ListWithParams(base)]
        /\ UNCHANGED <<base, pane, published, view, ruleAsks, users>>
    BY <1>4 DEF PolicyLoaded
  <2>2. ~app.init
    BY <1>1, <1>4, SetsAssumption DEF BrowserInv, InitPhase
  <2> HIDE DEF a, o
  <2>3. /\ ListTyped' /\ list'.rows = list.rows
        /\ list'.selected = list.selected
        /\ list'.asked = ListWithParams(base)
    BY <2>1 DEF BrowserInv, Typed, ListTyped
  <2>4. /\ ListWithParams(base).owner = base.owner
        /\ ListWithParams(base).networks = base.networks
        /\ view.pressed \in Relations
             => ListWithParams(base).relation = view.pressed
    BY DEF ListWithParams, ListRequest
  <2>5. Typed'
    BY <1>2, <1>3, <2>1, <2>3 DEF BrowserInv, Typed, AppTyped
  <2>6. InitPhase' /\ BaseKnown'
    BY <1>3, <2>1, <2>2 DEF BrowserInv, InitPhase, BaseKnown
  <2>7. SelectionKnown' /\ UsersStep
    BY <2>1, <2>3, SameSelection DEF BrowserInv
  <2>8. ButtonsTellTheTruth'
    BY <1>3, <2>1, <2>3 DEF BrowserInv, ButtonsTellTheTruth
  <2>9. ListAskedAsShown'
    BY <1>3, <2>1, <2>3, <2>4 DEF BrowserInv, ListAskedAsShown, BaseKnown
  <2> QED
    BY <2>5, <2>6, <2>7, <2>8, <2>9, StoreKeeps DEF BrowserInv
<1>5. CASE o # app.owner
  <2>1. next \in Apps /\ next.owner = o /\ next.init = FALSE
    BY <1>1, <1>3 DEF Apps
  <2>2. /\ UNCHANGED <<published, view, ruleAsks, users>>
        /\ \/ Changed(next, <<Sent(next)>>)
           \/ Changed(WithoutNetworks(next),
                Requests(next) \o <<Sent(WithoutNetworks(next))>>)
    BY <1>5 DEF PolicyLoaded
  <2> HIDE DEF next, o
  <2>3. CASE Changed(next, <<Sent(next)>>)
    <3>1. Last(<<Sent(next)>>) = Sent(next)
      BY DEF Last
    <3> QED
      BY <1>1, <1>2, <2>1, <2>2, <2>3, <3>1, SentShown, ChangedKeeps
  <2>4. CASE Changed(WithoutNetworks(next),
                Requests(next) \o <<Sent(WithoutNetworks(next))>>)
    <3> DEFINE w == WithoutNetworks(next)
               requests == Requests(next) \o <<Sent(WithoutNetworks(next))>>
    <3>1. /\ w \in Apps /\ w.owner = o /\ w.init = FALSE
          /\ Last(requests) = Sent(w)
      BY <2>1, LastRequest
    <3>2. Changed(w, requests)
      BY <2>4
    <3> HIDE DEF w, requests
    <3> QED
      BY <1>1, <1>2, <2>2, <3>1, <3>2, SentShown, ChangedKeeps
  <2> QED
    BY <2>2, <2>3, <2>4
<1> QED
  BY <1>4, <1>5

LEMMA ListLoadedKeeps ==
  ASSUME BrowserInv, NEW i \in DOMAIN lists, NEW success \in BOOLEAN,
         NEW rows \in SUBSET Services, ListLoaded(i, success, rows)
  PROVE  BrowserInv' /\ UsersStep
<1> DEFINE first == IF rows = {} THEN NoService ELSE First(rows)
<1>1. ~app.init /\ app.owner \in Owners
  BY AfterInit
<1>2. rows # {} => first \in Services
  BY FirstOfRows
<1>3. /\ list' = [list EXCEPT !.rows = rows, !.selected = first]
      /\ UNCHANGED <<app, base, published, asks, view>>
      /\ CASE rows = {} -> ClearDetails
           [] rows # {} /\ (success \/ first # list.selected) ->
                ShowService(first)
           [] OTHER -> masked' = FALSE /\ UNCHANGED <<pane, ruleAsks, users>>
  BY DEF ListLoaded
<1>4. /\ list'.rows = rows /\ list'.selected = first
      /\ list'.asked = list.asked
      /\ list' = [asked |-> list'.asked, rows |-> list'.rows,
                  selected |-> list'.selected]
  BY <1>3 DEF BrowserInv, Typed, ListTyped
<1>5. CASE rows = {}
  <2>1. first = NoService /\ ClearDetails
    BY <1>3, <1>5
  <2>2. pane' \in Panes /\ pane'.enabled = FALSE
    BY <2>1 DEF ClearDetails, NoRules, Panes, RuleRecords, BrowserInv, Typed
  <2>3. UsersStep /\ users'.desired = NoKey
    BY <2>1 DEF ClearDetails, UsersStep, Store!Next, Store!Drop, Store!Dropped,
                Store!Empty
  <2>4. Typed'
    BY <1>3, <1>4, <1>5, <2>1, <2>2
       DEF ClearDetails, BrowserInv, Typed, AppTyped, ListTyped
  <2>5. InitPhase' /\ BaseKnown' /\ SelectionKnown'
    BY <1>1, <1>3, <1>4, <1>5, <2>1, <2>3
       DEF BrowserInv, InitPhase, BaseKnown, SelectionKnown
  <2>6. ButtonsTellTheTruth' /\ ListAskedAsShown'
    BY <1>3, <1>4, <2>2 DEF BrowserInv, ButtonsTellTheTruth, ListAskedAsShown
  <2> QED
    BY <2>3, <2>4, <2>5, <2>6, StoreKeeps DEF BrowserInv
<1>6. CASE rows # {} /\ (success \/ first # list.selected)
  <2>1. ShowService(first)
    BY <1>3, <1>6
  <2> HIDE DEF first
  <2> QED
    BY <1>1, <1>2, <1>3, <1>6, <2>1, ShowKeeps
<1>7. CASE rows # {} /\ ~success /\ first = list.selected
  <2>1. masked' = FALSE /\ UNCHANGED <<pane, ruleAsks, users>> /\ rows = list.rows
    BY <1>3, <1>7 DEF ListLoaded
  <2> HIDE DEF first
  <2>2. ListTyped'
    BY <1>2, <1>4, <1>7 DEF ListTyped
  <2>3. Typed'
    BY <1>3, <2>1, <2>2 DEF BrowserInv, Typed, AppTyped
  <2>4. InitPhase' /\ BaseKnown'
    BY <1>1, <1>3 DEF BrowserInv, InitPhase, BaseKnown
  <2>5. SelectionKnown' /\ UsersStep
    BY <1>4, <1>7, <2>1, SameSelection DEF BrowserInv
  <2>6. ButtonsTellTheTruth' /\ ListAskedAsShown'
    BY <1>3, <1>4, <1>7, <2>1
       DEF BrowserInv, ButtonsTellTheTruth, ListAskedAsShown
  <2> QED
    BY <2>3, <2>4, <2>5, <2>6, StoreKeeps DEF BrowserInv
<1> QED
  BY <1>5, <1>6, <1>7

LEMMA RulesLoadedKeeps ==
  ASSUME BrowserInv, NEW i \in DOMAIN ruleAsks, NEW success \in BOOLEAN,
         RulesLoaded(i, success)
  PROVE  BrowserInv' /\ UsersStep
<1> DEFINE r == ruleAsks[i]
           rules == IF success
                    THEN [service |-> r.service, owner |-> r.owner,
                          current |-> r.policy = published]
                    ELSE pane.rules
           p == [pane EXCEPT !.rules = rules, !.busy = FALSE,
                             !.picked = rules # NoRules]
<1>1. ~app.init /\ app.owner \in Owners
  BY AfterInit
<1>2. r \in RulesRequests
  BY DEF BrowserInv, Typed
<1>3. rules \in RuleRecords
  BY <1>2 DEF BrowserInv, Typed, Panes, RuleRecords, RulesRequests
<1> HIDE DEF rules
<1>4. p \in Panes
  BY <1>3 DEF BrowserInv, Typed, Panes
<1>5. /\ pane' = WithButtons(p, app, list.selected) /\ masked' = FALSE
      /\ UNCHANGED <<app, base, published, asks, view, list, lists, users>>
  BY DEF RulesLoaded, rules
<1> HIDE DEF p
<1>6. pane' \in Panes /\ ButtonsTellTheTruth'
  BY <1>4, <1>5, FreshButtons DEF ButtonsTellTheTruth, BrowserInv, Typed, AppTyped
<1>7. ruleAsks' \in Seq(RulesRequests)
  BY RemoveTyped DEF RulesLoaded, BrowserInv, Typed
<1>8. Typed'
  BY <1>5, <1>6, <1>7 DEF BrowserInv, Typed, AppTyped, ListTyped
<1>9. InitPhase' /\ BaseKnown' /\ SelectionKnown' /\ ListAskedAsShown'
        /\ UsersStep
  BY <1>1, <1>5 DEF BrowserInv, InitPhase, BaseKnown, SelectionKnown,
                    ListAskedAsShown, UsersStep
<1> QED
  BY <1>6, <1>8, <1>9, StoreKeeps DEF BrowserInv

(* What an answer of the users leaves wanted.                              *)
LEMMA ReceivedDesired ==
  ASSUME NEW u, NEW success, NEW again, u.desired # NoKey,
         Store!Answered(u, success, again).desired # u.desired
  PROVE  /\ u.queued # NoKey /\ u.queued = u.desired
         /\ Store!Answered(u, success, again)
              = Store!Wanted(Store!Received(u, success), again, TRUE)
BY DEF Store!Answered, Store!Received

LEMMA UsersLoadedKeeps ==
  ASSUME BrowserInv, NEW success \in BOOLEAN, UsersLoaded(success)
  PROVE  BrowserInv' /\ UsersStep
<1> DEFINE q == users.queued
           again == IF q = NoKey THEN NoKey
                    ELSE [q EXCEPT !.owner = app.owner, !.policy = app.policy,
                                   !.networks = app.networks]
<1>1. /\ users.request # NoKey
      /\ users' = Store!Answered(users, success, again)
      /\ masked' = (users'.request # NoKey)
      /\ UNCHANGED <<app, base, published, asks, view, list, lists, pane,
                     ruleAsks>>
  BY DEF UsersLoaded, Store!Loading
<1>2. ~app.init /\ app.owner \in Owners
  BY <1>1, AfterInit
<1>3. /\ users \in [desired: UserKeys \cup {NoKey}, request: UserKeys \cup {NoKey},
                    queued: UserKeys \cup {NoKey}, loaded: UserKeys \cup {NoKey},
                    shown: UserKeys \cup {NoKey}]
  BY DEF BrowserInv, StoreInv, Store!TypeOK, Store!MaybeKey
<1>4. q # NoKey => again \in UserKeys /\ again.service = q.service
  BY <1>2, <1>3 DEF UserKeys, BrowserInv, Typed, AppTyped, Apps
<1> HIDE DEF again
<1>5. UsersStep
  <2>1. CASE q # NoKey
    <3>1. Store!Answer(success, again)
      BY <1>1 DEF Store!Answer, Store!Loading
    <3> QED
      BY <1>4, <2>1, <3>1 DEF UsersStep, Store!Next
  <2>2. CASE q = NoKey
    <3>1. Store!Answered(users, success, again)
            = Store!Answered(users, success, users.request)
      BY <2>2 DEF Store!Answered
    <3>2. Store!Answer(success, users.request)
      BY <1>1, <3>1 DEF Store!Answer, Store!Loading
    <3> QED
      BY <1>1, <1>3, <3>2 DEF UsersStep, Store!Next
  <2> QED
    BY <2>1, <2>2
<1>6. /\ users.desired = NoKey <=> users'.desired = NoKey
      /\ users.desired # NoKey => users'.desired.service = users.desired.service
  <2> DEFINE u == Store!Received(users, success)
  <2>1. u.desired = users.desired /\ u.request = NoKey
    BY DEF Store!Received
  <2>2. CASE users.queued # NoKey /\ users.queued = users.desired
    <3>1. users' = Store!Wanted(u, again, TRUE)
      BY <1>1, <2>2 DEF Store!Answered
    <3>2. u = [desired |-> u.desired, request |-> u.request,
               queued |-> u.queued, loaded |-> u.loaded, shown |-> u.shown]
      BY DEF Store!Received
    <3> HIDE DEF u
    <3>3. Store!Wanted(u, again, TRUE).desired = again
      BY <3>2 DEF Store!Wanted
    <3> QED
      BY <1>4, <2>2, <3>1, <3>3, KeyAssumption
  <2>3. CASE ~(users.queued # NoKey /\ users.queued = users.desired)
    <3>1. users' = u
      BY <1>1, <2>3 DEF Store!Answered
    <3> QED
      BY <2>1, <3>1
  <2> QED
    BY <2>2, <2>3
<1>7. Typed'
  BY <1>1 DEF BrowserInv, Typed, AppTyped, ListTyped
<1>8. SelectionKnown'
  BY <1>1, <1>6 DEF BrowserInv, SelectionKnown
<1>9. InitPhase' /\ BaseKnown' /\ ButtonsTellTheTruth' /\ ListAskedAsShown'
  BY <1>1, <1>2 DEF BrowserInv, InitPhase, BaseKnown, ButtonsTellTheTruth,
                    ListAskedAsShown
<1> QED
  BY <1>5, <1>7, <1>8, <1>9, StoreKeeps DEF BrowserInv

LEMMA PublishKeeps ==
  ASSUME BrowserInv, Publish
  PROVE  BrowserInv' /\ UsersStep
<1>1. published' \in 1 .. MaxPolicy
  BY SetsAssumption DEF Publish, BrowserInv, Typed, AppTyped
<1>2. app.init => masked' /\ view'.form = "none" /\ lists' = <<>>
  BY DEF Publish, BrowserInv, InitPhase
<1> QED
  BY <1>1, <1>2, CalmStep DEF Publish, BrowserInv, Typed, AppTyped
----------------------------------------------------------------------------
LEMMA StepKeeps ==
  ASSUME BrowserInv, Next
  PROVE  BrowserInv' /\ UsersStep
<1>1. CASE Gesture
  BY <1>1, SelectOwnerKeeps, SelectPolicyKeeps, ChooseNetworksKeeps,
     SelectServiceKeeps, OpenUsersKeeps, ToggleBoxKeeps, PickRuleKeeps,
     ClickRelationKeeps, FillFormKeeps, StartSearchKeeps DEF Gesture
<1>2. CASE PipelineAnswer
  BY <1>2, OwnerStoredKeeps, PolicyLoadedKeeps DEF PipelineAnswer
<1>3. CASE ListAnswer
  <2>1. \A rows \in Lists \cup {list.rows} : rows \in SUBSET Services
    BY SetsAssumption DEF BrowserInv, Typed, ListTyped
  <2> QED
    BY <1>3, <2>1, ListLoadedKeeps DEF ListAnswer
<1>4. CASE RulesAnswer
  BY <1>4, RulesLoadedKeeps DEF RulesAnswer
<1>5. CASE UsersAnswer
  BY <1>5, UsersLoadedKeeps DEF UsersAnswer
<1>6. CASE Publish
  BY <1>6, PublishKeeps
<1> QED
  BY <1>1, <1>2, <1>3, <1>4, <1>5, <1>6 DEF Next

LEMMA StutterKeeps ==
  ASSUME BrowserInv, UNCHANGED vars
  PROVE  BrowserInv' /\ UsersStep
<1>1. app.init => masked' /\ view'.form = "none" /\ lists' = <<>>
  BY DEF vars, BrowserInv, InitPhase
<1> QED
  BY <1>1, CalmStep DEF vars, BrowserInv, Typed, AppTyped

LEMMA BrowserStart == Init => BrowserInv
<1> SUFFICES ASSUME Init PROVE BrowserInv
  OBVIOUS
<1>1. AppTyped /\ app.init /\ app.owner = NoOwner /\ BaseKnown
  <2>1. 0 \in Policies /\ 1 \in 1 .. MaxPolicy
    BY SetsAssumption DEF Policies
  <2>2. /\ app = [owner |-> NoOwner, policy |-> 0, current |-> FALSE,
                  networks |-> NoNetworks, init |-> TRUE]
        /\ base = [owner |-> NoOwner, policy |-> 0, networks |-> NoNetworks]
        /\ published = 1
    BY DEF Init, BaseParams
  <2> QED
    BY <2>1, <2>2 DEF AppTyped, Apps, Params, BaseKnown
<1>2. asks \in Seq(Asks)
  <2>1. PICK o \in Owners, step \in {"set", "policy"} :
          asks = <<[step |-> step, owner |-> o]>>
    BY DEF Init
  <2>2. [step |-> step, owner |-> o] \in Asks
    BY DEF Asks
  <2> QED
    BY <2>1, <2>2
<1>3. ListTyped /\ list.rows = {} /\ list.selected = NoService
  BY DEF Init, ListTyped
<1>4. view \in Views /\ view.form = "none"
  BY DEF Init, Views, Relations
<1>5. pane \in Panes /\ pane.enabled = FALSE
  BY DEF Init, Panes, RuleRecords, NoRules
<1>6. Typed
  <2>1. ruleAsks = <<>> /\ masked = TRUE
    BY DEF Init
  <2>2. ruleAsks \in Seq(RulesRequests)
    BY <2>1, EmptySeq
  <2> QED
    BY <1>1, <1>2, <1>3, <1>4, <1>5, <2>1, <2>2 DEF Typed
<1>7. users = Store!Empty /\ users.desired = NoKey
  BY DEF Init, Store!Empty
<1>8. StoreInv
  BY <1>7, StoreStart DEF Store!Init
<1>9. InitPhase
  BY <1>1, <1>3, <1>4, <1>7 DEF InitPhase, Init
<1> QED
  BY <1>1, <1>3, <1>5, <1>6, <1>7, <1>8, <1>9
     DEF BrowserInv, SelectionKnown, ButtonsTellTheTruth, ListAskedAsShown

LEMMA BrowserInductive == Spec => []BrowserInv
<1>1. BrowserInv /\ [Next]_vars => BrowserInv'
  BY StepKeeps, StutterKeeps
<1> QED
  BY <1>1, BrowserStart, PTL DEF Spec
----------------------------------------------------------------------------
(* What is in flight.                                                      *)

(* A masked page waits for an answer.                                      *)
MaskedPageWaits == masked => \/ asks # <<>> \/ lists # <<>> \/ ruleAsks # <<>>
                             \/ Store!Loading

ListsTyped == list.asked \in ListRequests /\ lists \in Seq(ListRequests)

Pending == ListsTyped /\ MaskedPageWaits

LEMMA ListRequestTyped ==
  ASSUME NEW b \in Params, NEW r \in Relations \cup {""},
         NEW t \in Terms \cup {"blank", NoTerms}
  PROVE  ListRequest(b, r, t) \in ListRequests
BY DEF ListRequest, Params, ListRequests

LEMMA ListWithParamsTyped ==
  ASSUME NEW b \in Params
  PROVE  ListWithParams(b) \in ListRequests
<1>1. SearchTerms \in Terms \cup {"blank", NoTerms}
  BY DEF SearchTerms
<1>2. (IF view.pressed \in Relations THEN view.pressed ELSE "")
        \in Relations \cup {""}
  OBVIOUS
<1> QED
  BY <1>1, <1>2, ListRequestTyped DEF ListWithParams

LEMMA SentTyped ==
  ASSUME NEW a \in Apps
  PROVE  Sent(a) \in ListRequests
<1>1. BaseParams(a) \in Params
  BY DEF BaseParams, Apps, Params
<1> QED
  BY <1>1, ListWithParamsTyped DEF Sent

LEMMA NothingLost ==
  ASSUME NEW S, NEW q \in Seq(S), NEW e
  PROVE  Append(q, e) # <<>>
<1>1. q \in Seq(S \cup {e})
  OBVIOUS
<1>2. Len(Append(q, e)) = Len(q) + 1 /\ Len(q) \in Nat
  BY <1>1
<1> QED
  BY <1>2

LEMMA ShortSequences ==
  ASSUME NEW S, NEW x \in S, NEW y \in S
  PROVE  /\ <<x>> \in Seq(S) /\ Len(<<x>>) = 1
         /\ <<x, y>> \in Seq(S) /\ Len(<<x, y>>) = 2
OBVIOUS

(* The list is asked for once more: nothing is lost on the way.            *)
LEMMA AskedOnce ==
  ASSUME ListTyped, ListsTyped, NEW r \in ListRequests,
         lists' = Append(lists, r), list' = [list EXCEPT !.asked = r]
  PROVE  Pending'
<1>1. list'.asked = r
  BY DEF ListTyped
<1>2. lists' \in Seq(ListRequests) /\ lists' # <<>>
  BY DEF ListsTyped
<1> QED
  BY <1>1, <1>2 DEF Pending, ListsTyped, MaskedPageWaits

LEMMA ChangedAsks ==
  ASSUME ListTyped, ListsTyped, NEW a, NEW requests \in Seq(ListRequests),
         requests # <<>>, Changed(a, requests)
  PROVE  Pending'
<1>1. /\ lists' = lists \o requests /\ lists \in Seq(ListRequests)
      /\ list' = [list EXCEPT !.asked = Last(requests)]
  BY DEF Changed, ListsTyped
<1>2. Len(requests) \in Nat \ {0}
  OBVIOUS
<1>3. lists' \in Seq(ListRequests) /\ Len(lists') = Len(lists) + Len(requests)
  BY <1>1
<1>4. lists' # <<>>
  BY <1>1, <1>2, <1>3
<1>5. Last(requests) \in ListRequests
  BY <1>2 DEF Last
<1>6. list'.asked = Last(requests)
  BY <1>1 DEF ListTyped
<1> QED
  BY <1>3, <1>4, <1>5, <1>6 DEF Pending, ListsTyped, MaskedPageWaits

LEMMA RequestsAsk ==
  ASSUME NEW a \in Apps
  PROVE  /\ Requests(a) \in Seq(ListRequests) /\ Requests(a) # <<>>
         /\ WithoutNetworks(a) \in Apps
         /\ \A r \in ListRequests : /\ Requests(a) \o <<r>> \in Seq(ListRequests)
                                    /\ Requests(a) \o <<r>> # <<>>
<1>1. WithoutNetworks(a) \in Apps
  BY DEF WithoutNetworks, Apps
<1>2. Sent(a) \in ListRequests /\ Sent(WithoutNetworks(a)) \in ListRequests
  BY <1>1, SentTyped
<1>3. Requests(a) \in {<<Sent(a)>>, <<Sent(a), Sent(WithoutNetworks(a))>>}
  BY DEF Requests
<1> HIDE DEF Requests
<1>4. Requests(a) \in Seq(ListRequests) /\ Len(Requests(a)) \in {1, 2}
  BY <1>2, <1>3, ShortSequences
<1>5. \A r \in ListRequests : /\ Requests(a) \o <<r>> \in Seq(ListRequests)
                              /\ Len(Requests(a) \o <<r>>) = Len(Requests(a)) + 1
  BY <1>4
<1> QED
  BY <1>1, <1>4, <1>5

(* Steps that ask for no list and lose none of what the page waits for.    *)
LEMMA ListsKept ==
  ASSUME ListsTyped, UNCHANGED lists, list'.asked = list.asked, MaskedPageWaits'
  PROVE  Pending'
BY DEF Pending, ListsTyped

LEMMA GesturePends ==
  ASSUME BrowserInv, Pending, Gesture
  PROVE  Pending'
<1> USE DEF MaskedPageWaits, OnPage
<1>0. /\ ListTyped /\ ListsTyped /\ app \in Apps /\ base \in Params
      /\ published \in Policies /\ ruleAsks \in Seq(RulesRequests)
  BY SetsAssumption DEF BrowserInv, Typed, AppTyped, Pending, Policies
<1>1. ASSUME NEW o \in Owners, SelectOwner(o) PROVE Pending'
  BY <1>0, <1>1, ListsKept DEF SelectOwner
<1>2. ASSUME NEW p \in 1 .. published, NEW seen \in 1 .. published,
             SelectPolicy(p, seen)
      PROVE  Pending'
  <2> DEFINE a == [app EXCEPT !.policy = p, !.current = (p = seen)]
  <2>1. a \in Apps
    <3>1. p \in Policies
      BY <1>0, SetsAssumption DEF Policies
    <3> QED
      BY <1>0, <3>1 DEF Apps
  <2>2. Changed(WithoutNetworks(a), Requests(a))
    BY <1>2 DEF SelectPolicy
  <2> HIDE DEF a
  <2> QED
    BY <1>0, <2>1, <2>2, RequestsAsk, ChangedAsks
<1>3. ASSUME NEW n \in Networks \cup {NoNetworks}, ChooseNetworks(n)
      PROVE  Pending'
  <2> DEFINE a == [app EXCEPT !.networks = n]
  <2>1. a \in Apps /\ Changed(a, <<Sent(a)>>)
    BY <1>0, <1>3 DEF Apps, ChooseNetworks
  <2> HIDE DEF a
  <2>2. <<Sent(a)>> \in Seq(ListRequests) /\ <<Sent(a)>> # <<>>
    BY <2>1, SentTyped
  <2> QED
    BY <1>0, <2>1, <2>2, ChangedAsks
<1>4. ASSUME NEW s \in list.rows, SelectService(s) PROVE Pending'
  <2>1. /\ ruleAsks' = Append(ruleAsks, RulesRequest(s))
        /\ list'.asked = list.asked /\ UNCHANGED lists
    BY <1>0, <1>4 DEF SelectService, ShowService, ListTyped
  <2>2. ruleAsks' # <<>>
    BY <1>0, <2>1, NothingLost
  <2> QED
    BY <1>0, <2>1, <2>2, ListsKept
<1>5. CASE OpenUsersTab
  <2>1. masked' => users'.request # users.request
    BY <1>5 DEF OpenUsersTab
  <2>2. users'.request = users.request \/ users'.request # NoKey
    BY <1>5 DEF OpenUsersTab, Store!Dropped, Store!Empty, Store!Wanted,
                BrowserInv, StoreInv, Store!TypeOK
  <2>3. masked' => Store!Loading'
    BY <1>5, <2>1, <2>2 DEF Store!Loading
  <2> QED
    BY <1>0, <1>5, <2>3, ListsKept DEF OpenUsersTab
<1>6. ASSUME NEW box \in {"names", "filter"}, ToggleBox(box) PROVE Pending'
  <2>1. masked' => ruleAsks' = Append(ruleAsks, RulesRequest(list.selected))
    BY <1>6 DEF ToggleBox
  <2>2. masked' => ruleAsks' # <<>>
    BY <1>0, <2>1, NothingLost
  <2> QED
    BY <1>0, <1>6, <2>2, ListsKept DEF ToggleBox
<1>7. CASE PickRule
  BY <1>0, <1>7, ListsKept DEF PickRule
<1>8. ASSUME NEW r \in Relations, ClickRelation(r) PROVE Pending'
  <2> DEFINE request == ListRequest(base, r, NoTerms)
  <2>1. request \in ListRequests
    BY <1>0, ListRequestTyped
  <2>2. \/ UNCHANGED <<list, lists, masked>>
        \/ list' = [list EXCEPT !.asked = request]
             /\ lists' = Append(lists, request)
    BY <1>8 DEF ClickRelation
  <2> HIDE DEF request
  <2>3. ~masked
    BY <1>8 DEF ClickRelation
  <2> QED
    BY <1>0, <2>1, <2>2, <2>3, AskedOnce, ListsKept
<1>9. ASSUME NEW f \in Terms \cup {"blank", "invalid"}, FillForm(f)
      PROVE  Pending'
  BY <1>0, <1>9, ListsKept DEF FillForm, Pending, Store!Loading
<1>10. CASE StartSearch
  <2>1. /\ list' = [list EXCEPT !.asked = ListRequest(base, "", SearchTerms)]
        /\ lists' = Append(lists, ListRequest(base, "", SearchTerms))
    BY <1>10 DEF StartSearch
  <2>2. SearchTerms \in Terms \cup {"blank", NoTerms}
    BY DEF SearchTerms
  <2> QED
    BY <1>0, <2>1, <2>2, ListRequestTyped, AskedOnce
<1> QED
  BY <1>1, <1>2, <1>3, <1>4, <1>5, <1>6, <1>7, <1>8, <1>9, <1>10 DEF Gesture

LEMMA PipelinePends ==
  ASSUME BrowserInv, Pending, NEW i \in DOMAIN asks, NEW success \in BOOLEAN,
         OwnerStored(i, success) \/ PolicyLoaded(i, success)
  PROVE  Pending'
<1>0. /\ ListTyped /\ ListsTyped /\ app \in Apps /\ base \in Params
      /\ published \in Policies /\ asks \in Seq(Asks)
  BY SetsAssumption DEF BrowserInv, Typed, AppTyped, Pending, Policies
<1>1. CASE OwnerStored(i, success)
  <2>1. DOMAIN asks' = DOMAIN asks
    BY <1>1 DEF OwnerStored
  <2>2. asks' # <<>>
    BY <2>1
  <2> QED
    BY <1>0, <1>1, <2>2, ListsKept DEF OwnerStored, MaskedPageWaits
<1>2. CASE PolicyLoaded(i, success)
  <2> DEFINE a == IF success /\ published # app.policy
                  THEN [app EXCEPT !.policy = published, !.current = TRUE]
                  ELSE app
             o == asks[i].owner
             next == [a EXCEPT !.owner = o, !.init = FALSE]
  <2>1. o \in Owners
    <3>1. asks[i] \in Asks
      BY <1>0, PendingAsk
    <3> QED
      BY <3>1 DEF Asks
  <2>2. a \in Apps
    BY <1>0 DEF Apps
  <2>3. next \in Apps
    BY <2>1, <2>2 DEF Apps
  <2>4. \/ /\ lists' = Append(lists, ListWithParams(base))
           /\ list' = [list EXCEPT !.asked = ListWithParams(base)]
        \/ Changed(next, <<Sent(next)>>)
        \/ Changed(WithoutNetworks(next),
                   Requests(next) \o <<Sent(WithoutNetworks(next))>>)
    BY <1>2 DEF PolicyLoaded
  <2> HIDE DEF next, o, a
  <2>5. <<Sent(next)>> \in Seq(ListRequests) /\ <<Sent(next)>> # <<>>
    BY <2>3, SentTyped
  <2>6. /\ Requests(next) \o <<Sent(WithoutNetworks(next))>> \in Seq(ListRequests)
        /\ Requests(next) \o <<Sent(WithoutNetworks(next))>> # <<>>
    BY <2>3, RequestsAsk, SentTyped
  <2> QED
    BY <1>0, <2>4, <2>5, <2>6, ListWithParamsTyped, AskedOnce, ChangedAsks
<1> QED
  BY <1>1, <1>2

LEMMA AnswerPends ==
  ASSUME BrowserInv, Pending,
         ListAnswer \/ RulesAnswer \/ UsersAnswer \/ Publish
  PROVE  Pending'
<1> USE DEF MaskedPageWaits
<1>0. ListTyped /\ ListsTyped /\ ruleAsks \in Seq(RulesRequests)
  BY DEF BrowserInv, Typed, Pending
<1>1. ASSUME NEW i \in DOMAIN lists, NEW success \in BOOLEAN,
             NEW rows \in Lists \cup {list.rows}, ListLoaded(i, success, rows)
      PROVE  Pending'
  <2>1. lists' \in Seq(ListRequests)
    BY <1>0, <1>1, RemoveTyped DEF ListLoaded, ListsTyped
  <2>2. list'.asked = list.asked
    BY <1>0, <1>1 DEF ListLoaded, ListTyped
  <2>3. ~masked' \/ \E s : ruleAsks' = Append(ruleAsks, RulesRequest(s))
    BY <1>1 DEF ListLoaded, ClearDetails, ShowService
  <2>4. ~masked' \/ ruleAsks' # <<>>
    BY <1>0, <2>3, NothingLost
  <2> QED
    BY <1>0, <2>1, <2>2, <2>4 DEF Pending, ListsTyped
<1>2. CASE RulesAnswer
  BY <1>0, <1>2, ListsKept DEF RulesAnswer, RulesLoaded
<1>3. CASE UsersAnswer
  BY <1>0, <1>3, ListsKept DEF UsersAnswer, UsersLoaded, Store!Loading
<1>4. CASE Publish
  BY <1>0, <1>4, ListsKept DEF Publish, Pending, Store!Loading
<1> QED
  BY <1>1, <1>2, <1>3, <1>4 DEF ListAnswer

LEMMA PendingInductive == Spec => []Pending
<1>1. Init => Pending
  <2> SUFFICES ASSUME Init PROVE Pending
    OBVIOUS
  <2>1. PICK ask : asks = <<ask>>
    BY DEF Init
  <2>2. app \in Apps /\ base = BaseParams(app) /\ lists = <<>>
          /\ list.asked = ListRequest(base, "", NoTerms)
    BY BrowserStart DEF Init, BrowserInv, Typed, AppTyped
  <2>3. base \in Params
    BY BrowserStart DEF BrowserInv, Typed, AppTyped
  <2>4. list.asked \in ListRequests
    BY <2>2, <2>3, ListRequestTyped
  <2> QED
    BY <2>1, <2>2, <2>4, EmptySeq DEF Pending, ListsTyped, MaskedPageWaits
<1>2. BrowserInv /\ Pending /\ [Next]_vars => Pending'
  <2>1. BrowserInv /\ Pending /\ Next => Pending'
    BY GesturePends, PipelinePends, AnswerPends DEF Next, PipelineAnswer
  <2>2. Pending /\ UNCHANGED vars => Pending'
    BY DEF Pending, ListsTyped, MaskedPageWaits, Store!Loading, vars
  <2> QED
    BY <2>1, <2>2
<1> QED
  BY <1>1, <1>2, BrowserInductive, PTL DEF Spec
----------------------------------------------------------------------------
(* The variables of the view keep their types, for any instance.           *)
THEOREM BrowserTyped == Spec => []TypeOK
<1>1. BrowserInv /\ Pending => TypeOK
  <2> SUFFICES ASSUME BrowserInv, Pending PROVE TypeOK
    OBVIOUS
  <2>1. list \in [asked: ListRequests, rows: SUBSET Services,
                  selected: Services \cup {NoService}]
    BY DEF BrowserInv, Typed, ListTyped, Pending, ListsTyped
  <2> QED
    BY <2>1 DEF BrowserInv, Typed, AppTyped, TypeOK, Apps, Asks, Views, Panes,
                RuleRecords, StoreInv, Pending, ListsTyped
<1> QED
  BY <1>1, BrowserInductive, PendingInductive, PTL

(* Every step of the view is a step of the users store's protocol or       *)
(* leaves the store alone: gestures, answers and changes of the owner       *)
(* together implement UserLoads.                                            *)
THEOREM DrivesUsersStore == Spec => UsersStoreProtocol
<1>1. Init => Store!Init
  BY DEF Init, Store!Init
<1>2. BrowserInv /\ [Next]_vars => [Store!Next]_(Store!vars)
  BY StepKeeps, StutterKeeps DEF UsersStep, Store!vars
<1> QED
  BY <1>1, <1>2, BrowserInductive, PTL DEF Spec, UsersStoreProtocol, Store!Spec

(* Details, users and list stay those of one selection, whatever order any *)
(* number of answers arrives in.                                            *)
THEOREM UsersAlwaysFollow == Spec => []UsersFollowSelection
<1>1. BrowserInv => UsersFollowSelection
  BY KeyAssumption
     DEF BrowserInv, SelectionKnown, UsersFollowSelection, StoreInv,
         ShownIsLoaded
<1> QED
  BY <1>1, BrowserInductive, PTL

(* No late answer enables a request button for a rule that is not one of   *)
(* the selected service, the current owner and a current policy.            *)
THEOREM ButtonsNeverLie == Spec => []ButtonsTellTheTruth
BY BrowserInductive, PTL DEF BrowserInv

(* The last list asked for is the one of the page's owner, networks and    *)
(* pressed button, for any interleaving of their changes.                   *)
THEOREM ListAlwaysAskedAsShown == Spec => []ListAskedAsShown
BY BrowserInductive, PTL DEF BrowserInv

(* What the store's protocol promises holds of the view.                   *)
THEOREM NoForeignUsersInView == Spec => OnlyWantedUsersAppear
<1>1. BrowserInv /\ [Next]_vars
        => [users'.shown # users.shown =>
              users'.shown \in {NoKey, users'.desired}]_(Store!vars)
  <2> SUFFICES ASSUME BrowserInv, UsersStep
               PROVE  [users'.shown # users.shown =>
                         users'.shown \in {NoKey, users'.desired}]_(users)
    BY StepKeeps, StutterKeeps DEF Store!vars
  <2> QED
    BY ShownStep DEF BrowserInv, UsersStep, Store!vars
<1> QED
  BY <1>1, BrowserInductive, PTL DEF Spec, OnlyWantedUsersAppear,
     Store!OnlyWantedUsersAppear

(* The page is never masked without an answer under way that can unmask    *)
(* it: a handler that masks it asks for something first, and one that takes *)
(* an answer unmasks it or asks again (Netspoc.js:29-43).  What is left of   *)
(* PageIsUnmasked is that answers arrive.                                    *)
THEOREM MaskedPagesWait == Spec => []MaskedPageWaits
BY PendingInductive, PTL DEF Pending
=============================================================================
