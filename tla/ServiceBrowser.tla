--------------------------- MODULE ServiceBrowser ---------------------------
(* The service view of the browser client: the application state (owner,   *)
(* policy, networks), the list of services, and the rules and users of the  *)
(* selected service (app/Appstate.js, app/controller/Main.js and            *)
(* app/controller/Service.js).  Ext runs one handler at a time; what        *)
(* interleaves are the answers of the requests in flight, in any order, and *)
(* the user's gestures whenever the page is not masked.                     *)
EXTENDS Naturals, Sequences, FiniteSets, SequencesExt

CONSTANTS Owners, Services, Networks, Terms,  \* Terms: texts of a search
          NoOwner, NoNetworks, NoTerms, NoKey,
          Lists,        \* the sets of services a list request may answer with
          Gestures,     \* the gestures a run exercises (bound)
          MaxPolicy, MaxClicks, MaxFailures   \* bounds of a run

ASSUME SetsAssumption ==
  /\ Services \subseteq Nat \ {0}
  /\ Lists \subseteq SUBSET Services
  /\ NoOwner \notin Owners /\ NoNetworks \notin Networks
  /\ NoTerms \notin Terms
  /\ MaxPolicy \in Nat \ {0} /\ MaxClicks \in Nat /\ MaxFailures \in Nat

VARIABLES
  app,        \* appstate and its init_phase
  base,       \* the extraParams every state store sends
  published,  \* the server's current policy
  asks,       \* set-owner and get_policy requests in flight
  view,       \* pressed button, extraParams.relation, search form, checkboxes
  list,       \* the service store: its last request, its rows, the selection
  lists,      \* service_list requests in flight
  pane,       \* the rules store and its request buttons
  ruleAsks,   \* get_rules requests in flight
  users,      \* the users store
  masked,     \* Ext.getBody() is masked
  spent       \* clicks and failures so far (bounds)

vars == <<app, base, published, asks, view, list, lists, pane, ruleAsks,
          users, masked, spent>>

Relations == {"owner", "user", "visible"}
NoService == 0
Policies == 0 .. MaxPolicy

Params == [owner: Owners \cup {NoOwner}, policy: Policies,
           networks: Networks \cup {NoNetworks}]
(* The parameters of a users request.  A users key is their JSON text.     *)
UserKeys == [service: Services, owner: Owners, policy: Policies,
             networks: Networks \cup {NoNetworks}, names: BOOLEAN,
             terms: Terms \cup {"blank", NoTerms}]

(* The requests of lists and rules in flight.                              *)
ListRequests == [owner: Owners \cup {NoOwner}, policy: Policies,
                 networks: Networks \cup {NoNetworks},
                 relation: Relations \cup {""},
                 terms: Terms \cup {"blank", NoTerms}]
RulesRequests == [service: Services, owner: Owners \cup {NoOwner},
                  policy: Policies]

ASSUME KeyAssumption == NoKey \notin UserKeys

Store == INSTANCE UserLoads WITH Keys <- UserKeys

(* changeBaseParams: the parameters the state stores add to a request.     *)
BaseParams(a) == [owner |-> a.owner, policy |-> a.policy,
                  networks |-> a.networks]
----------------------------------------------------------------------------
(* What a request carries.                                                 *)

(* Faulty: the form is read whether it exists and is valid or not.         *)
TermsOfAnyForm == view.form

(* getSearchParams: the fields of the search form's active tab, if the     *)
(* window was ever opened and they are valid.                               *)
SearchTerms == IF view.form \in Terms \cup {"blank"} THEN view.form
               ELSE NoTerms

(* getServiceDataParams: only without a pressed relation button, and with  *)
(* the filter box ticked, are rules and users filtered by the search.       *)
DataTerms(v) ==
  IF v.pressed \notin Relations /\ v.filter THEN SearchTerms ELSE NoTerms

ListRequest(b, relation, terms) ==
  [owner |-> b.owner, policy |-> b.policy, networks |-> b.networks,
   relation |-> relation, terms |-> terms]

(* Faulty: the relation is the one of the last click.                      *)
ListWithStoredRelation(b) == ListRequest(b, view.relation, SearchTerms)

(* loadServiceStoreWithParams: search terms are merged in whatever button  *)
(* is pressed.                                                               *)
ListWithParams(b) ==
  ListRequest(b, IF view.pressed \in Relations THEN view.pressed ELSE "",
              SearchTerms)

RulesRequest(s) == [service |-> s, owner |-> base.owner,
                    policy |-> base.policy]

UsersRequest(s, v) ==
  [service |-> s, owner |-> app.owner, policy |-> app.policy,
   networks |-> app.networks, names |-> v.names, terms |-> DataTerms(v)]
----------------------------------------------------------------------------
NoRules == [service |-> NoService, owner |-> NoOwner, current |-> FALSE]

(* Faulty: any loaded rule will do.                                        *)
WithButtonsOfAnyService(p, a, s) ==
  [p EXCEPT !.enabled = ~p.busy /\ a.current /\ p.picked /\ p.rules.current]

(* updateRuleRequestButtons: p.rules describes the records of the rules    *)
(* grid, p.picked tells that one of them is selected.                       *)
WithButtons(p, a, s) ==
  [p EXCEPT !.enabled = /\ ~p.busy /\ a.current /\ p.picked
                        /\ p.rules.current
                        /\ p.rules.service = s
                        /\ p.rules.owner = a.owner]

(* First row of the list: services are sorted by name.                     *)
First(rows) == CHOOSE s \in rows : \A t \in rows : s <= t

(* onServiceSelected: details, rules and users of s.                       *)
ShowService(s) ==
  /\ pane' = [rules |-> NoRules, picked |-> FALSE, busy |-> TRUE,
              enabled |-> FALSE]
  /\ ruleAsks' = Append(ruleAsks, RulesRequest(s))
  /\ users' = Store!Wanted(users, UsersRequest(s, view), TRUE)
  /\ masked' = TRUE

(* Faulty: the users of the service that was selected stay wanted.         *)
ClearRulesOnly ==
  /\ pane' = [rules |-> NoRules, picked |-> FALSE, busy |-> pane.busy,
              enabled |-> FALSE]
  /\ masked' = FALSE
  /\ UNCHANGED <<ruleAsks, users>>

(* clearDetails: the list is empty.                                        *)
ClearDetails ==
  /\ pane' = [rules |-> NoRules, picked |-> FALSE, busy |-> pane.busy,
              enabled |-> FALSE]
  /\ users' = Store!Dropped(users)
  /\ masked' = FALSE
  /\ UNCHANGED ruleAsks

(* Faulty: the list is loaded before the stores have the new parameters.   *)
SentWithOldParams(a) == ListWithParams(base)

(* The request the list's controller sends when appstate becomes a.        *)
Sent(a) == ListWithParams(BaseParams(a))

(* Network.resetNetworks: another owner or policy takes back the choice of *)
(* networks.                                                                 *)
WithoutNetworks(a) == [a EXCEPT !.networks = NoNetworks]

(* The listeners of appstate's changed event: the state stores take the    *)
(* new parameters, then the list is loaded.  Taking back the networks is a   *)
(* second change inside the first: the list is loaded twice, the first time *)
(* with the former networks.                                                 *)
Requests(a) == IF a.networks = NoNetworks THEN <<Sent(a)>>
               ELSE <<Sent(a), Sent(WithoutNetworks(a))>>

Changed(a, requests) ==
  /\ app' = a
  /\ base' = BaseParams(a)
  /\ list' = [list EXCEPT !.asked = Last(requests)]
  /\ lists' = lists \o requests
  /\ pane' = WithButtons(pane, a, list.selected)
  /\ masked' = TRUE
----------------------------------------------------------------------------
(* The gestures of the user; the mask lets none through to the page.       *)
MayClick(g) ==
  /\ g \in Gestures
  /\ spent.clicks < MaxClicks
  /\ spent' = [spent EXCEPT !.clicks = @ + 1]

OnPage(g) == ~masked /\ MayClick(g)

(* Main.onOwnerSelected: the owner is stored in the session first.         *)
SelectOwner(o) ==
  /\ OnPage("owner")
  /\ o # app.owner
  /\ asks' = Append(asks, [step |-> "set", owner |-> o])
  /\ masked' = TRUE
  /\ UNCHANGED <<app, base, published, view, list, lists, pane, ruleAsks,
                 users>>

(* Main.onPolicySelected: the history combo was loaded when the policy     *)
(* seen was the current one.                                                *)
SelectPolicy(p, seen) ==
  /\ OnPage("policy")
  /\ p # app.policy
  /\ LET a == [app EXCEPT !.policy = p, !.current = (p = seen)]
     IN Changed(WithoutNetworks(a), Requests(a))
  /\ UNCHANGED <<published, asks, view, ruleAsks, users>>

(* The network tab chooses networks, or takes back all of them.            *)
ChooseNetworks(n) ==
  /\ OnPage("networks")
  /\ n # app.networks
  /\ LET a == [app EXCEPT !.networks = n] IN Changed(a, <<Sent(a)>>)
  /\ UNCHANGED <<published, asks, view, ruleAsks, users>>

(* A row of the list is clicked.                                           *)
SelectService(s) ==
  /\ OnPage("service")
  /\ s # list.selected
  /\ list' = [list EXCEPT !.selected = s]
  /\ ShowService(s)
  /\ UNCHANGED <<app, base, published, asks, view, lists>>

(* onServiceDetailsButtonClick on the users card: what is loaded is reused.*)
OpenUsersTab ==
  /\ OnPage("users")
  /\ LET s == list.selected
         wanted == IF s = NoService THEN Store!Dropped(users)
                   ELSE Store!Wanted(users, UsersRequest(s, view), FALSE)
     IN /\ users' = wanted
        /\ masked' = (wanted.request # users.request)
  /\ UNCHANGED <<app, base, published, asks, view, list, lists, pane,
                 ruleAsks>>

(* onCheckboxChange: rules and users are loaded again, unless the list is  *)
(* empty.  The filter box is enabled while no relation button is pressed.   *)
ToggleBox(box) ==
  /\ OnPage("boxes")
  /\ box = "filter" => view.pressed \notin Relations
  /\ LET v == [view EXCEPT ![box] = ~@]
     IN /\ view' = v
        /\ IF list.rows = {} THEN UNCHANGED <<pane, ruleAsks, users, masked>>
           ELSE /\ pane' = [pane EXCEPT !.busy = TRUE]
                /\ ruleAsks' = Append(ruleAsks, RulesRequest(list.selected))
                /\ users' = Store!Wanted(users,
                              UsersRequest(list.selected, v), TRUE)
                /\ masked' = TRUE
  /\ UNCHANGED <<app, base, published, asks, list, lists>>

(* A rule is selected in the grid: selectionchange.                        *)
PickRule ==
  /\ OnPage("rule")
  /\ pane.rules # NoRules
  /\ pane' = WithButtons([pane EXCEPT !.picked = TRUE], app, list.selected)
  /\ UNCHANGED <<app, base, published, asks, view, list, lists, ruleAsks,
                 users, masked>>

(* onButtonClick.  Ext has toggled the button already: clicking the        *)
(* pressed one released it.                                                 *)
ClickRelation(r) ==
  /\ OnPage("relation")
  /\ LET released == view.pressed = r
         form == IF view.form = "none" THEN "none" ELSE "blank"
         request == ListRequest(base, r, NoTerms)
     IN IF released /\ view.relation = r
        THEN UNCHANGED <<view, list, lists, masked>>
        ELSE /\ view' = [view EXCEPT !.pressed = IF released THEN "" ELSE r,
                                     !.relation = r, !.form = form]
             /\ list' = [list EXCEPT !.asked = request]
             /\ lists' = Append(lists, request)
             /\ masked' = TRUE
  /\ UNCHANGED <<app, base, published, asks, pane, ruleAsks, users>>

(* The search window is opened from the page and its form edited.  Once    *)
(* open it lies above the mask.                                             *)
FillForm(f) ==
  /\ ~masked \/ view.form # "none"
  /\ MayClick("form")
  /\ view.form # f
  /\ view' = [view EXCEPT !.form = f]
  /\ UNCHANGED <<app, base, published, asks, list, lists, pane, ruleAsks,
                 users, masked>>

(* onStartSearchButtonClick, refused while a field is invalid.             *)
StartSearch ==
  /\ MayClick("search")
  /\ view.form \notin {"none", "invalid"}
  /\ view' = [view EXCEPT !.pressed = "search"]
  /\ LET request == ListRequest(base, "", SearchTerms)
     IN /\ list' = [list EXCEPT !.asked = request]
        /\ lists' = Append(lists, request)
  /\ masked' = TRUE
  /\ UNCHANGED <<app, base, published, asks, pane, ruleAsks, users>>
----------------------------------------------------------------------------
(* The answers.                                                            *)

(* An answer succeeds, or fails: then the store keeps its records, and its *)
(* load event is fired all the same.                                        *)
Outcome(success) ==
  IF success THEN UNCHANGED spent
  ELSE /\ spent.failures < MaxFailures
       /\ spent' = [spent EXCEPT !.failures = @ + 1]

(* onSetOwnerSuccess: whatever the answer was, the policy is asked for.    *)
OwnerStored(i, success) ==
  /\ asks[i].step = "set"
  /\ Outcome(success)
  /\ asks' = [asks EXCEPT ![i].step = "policy"]
  /\ masked' = TRUE
  /\ UNCHANGED <<app, base, published, view, list, lists, pane, ruleAsks,
                 users>>

(* onPolicyLoaded: the policy changes silently, the owner loudly if it is  *)
(* another one, and the list is loaded in any case.                         *)
PolicyLoaded(i, success) ==
  /\ asks[i].step = "policy"
  /\ Outcome(success)
  /\ asks' = RemoveAt(asks, i)
  /\ LET a == IF success /\ published # app.policy
              THEN [app EXCEPT !.policy = published, !.current = TRUE]
              ELSE app
         o == asks[i].owner
         next == [a EXCEPT !.owner = o, !.init = FALSE]
     IN CASE o = app.owner ->
               /\ app' = a
               /\ lists' = Append(lists, ListWithParams(base))
               /\ list' = [list EXCEPT !.asked = ListWithParams(base)]
               /\ masked' = TRUE
               /\ UNCHANGED <<base, pane>>
          [] o # app.owner /\ app.init -> Changed(next, <<Sent(next)>>)
          [] o # app.owner /\ ~app.init ->
               Changed(WithoutNetworks(next),
                       Requests(next) \o <<Sent(WithoutNetworks(next))>>)
  /\ UNCHANGED <<published, view, ruleAsks, users>>

(* The list's load event selects the first service.  Loaded records are    *)
(* new ones; after a failure the old ones may have their first selected yet.*)
ListLoaded(i, success, rows) ==
  /\ Outcome(success)
  /\ success \/ rows = list.rows
  /\ lists' = RemoveAt(lists, i)
  /\ LET first == IF rows = {} THEN NoService ELSE First(rows)
     IN /\ list' = [list EXCEPT !.rows = rows, !.selected = first]
        /\ CASE rows = {} -> ClearDetails
             [] rows # {} /\ (success \/ first # list.selected) ->
                  ShowService(first)
             [] OTHER -> masked' = FALSE /\ UNCHANGED <<pane, ruleAsks, users>>
  /\ UNCHANGED <<app, base, published, asks, view>>

(* The rules' load event selects the first rule.  A record says whether    *)
(* its policy was the current one, and for whom and what it was asked.      *)
RulesLoaded(i, success) ==
  /\ Outcome(success)
  /\ ruleAsks' = RemoveAt(ruleAsks, i)
  /\ LET r == ruleAsks[i]
         rules == IF success
                  THEN [service |-> r.service, owner |-> r.owner,
                        current |-> r.policy = published]
                  ELSE pane.rules
     IN pane' = WithButtons([pane EXCEPT !.rules = rules, !.busy = FALSE,
                                         !.picked = rules # NoRules],
                            app, list.selected)
  /\ masked' = FALSE
  /\ UNCHANGED <<app, base, published, asks, view, list, lists, users>>

(* The users' load event and callback; a queued selection is sent with the *)
(* owner, policy and networks of now.                                       *)
UsersLoaded(success) ==
  /\ Store!Loading
  /\ Outcome(success)
  /\ LET q == users.queued
         again == IF q = NoKey THEN NoKey
                  ELSE [q EXCEPT !.owner = app.owner, !.policy = app.policy,
                                 !.networks = app.networks]
     IN users' = Store!Answered(users, success, again)
  /\ masked' = (users'.request # NoKey)
  /\ UNCHANGED <<app, base, published, asks, view, list, lists, pane,
                 ruleAsks>>

(* Another policy is published.                                            *)
Publish ==
  /\ published < MaxPolicy
  /\ published' = published + 1
  /\ UNCHANGED <<app, base, asks, view, list, lists, pane, ruleAsks, users,
                 masked, spent>>
----------------------------------------------------------------------------
(* The page is launched: the session's owner is known, or the only one is  *)
(* being stored; "Genutzte" is pressed.                                     *)
Init ==
  /\ app = [owner |-> NoOwner, policy |-> 0, current |-> FALSE,
            networks |-> NoNetworks, init |-> TRUE]
  /\ base = BaseParams(app)
  /\ published = 1
  /\ \E o \in Owners, step \in {"set", "policy"} :
       asks = <<[step |-> step, owner |-> o]>>
  /\ view = [pressed |-> "user", relation |-> "", form |-> "none",
             names |-> FALSE, filter |-> TRUE]
  /\ list = [asked |-> ListRequest(base, "", NoTerms), rows |-> {},
             selected |-> NoService]
  /\ lists = <<>>
  /\ pane = [rules |-> NoRules, picked |-> FALSE, busy |-> FALSE,
             enabled |-> FALSE]
  /\ ruleAsks = <<>>
  /\ users = Store!Empty
  /\ masked = TRUE
  /\ spent = [clicks |-> 0, failures |-> 0]

Gesture ==
  \/ \E o \in Owners : SelectOwner(o)
  \/ \E p \in 1 .. published, seen \in 1 .. published :
       p <= seen /\ SelectPolicy(p, seen)
  \/ \E n \in Networks \cup {NoNetworks} : ChooseNetworks(n)
  \/ \E s \in list.rows : SelectService(s)
  \/ OpenUsersTab
  \/ \E box \in {"names", "filter"} : ToggleBox(box)
  \/ PickRule
  \/ \E r \in Relations : ClickRelation(r)
  \/ \E f \in Terms \cup {"blank", "invalid"} : FillForm(f)
  \/ StartSearch

PipelineAnswer == \E i \in DOMAIN asks, success \in BOOLEAN :
                    OwnerStored(i, success) \/ PolicyLoaded(i, success)
ListAnswer == \E i \in DOMAIN lists, success \in BOOLEAN,
                 rows \in Lists \cup {list.rows} : ListLoaded(i, success, rows)
RulesAnswer == \E i \in DOMAIN ruleAsks, success \in BOOLEAN :
                 RulesLoaded(i, success)
UsersAnswer == \E success \in BOOLEAN : UsersLoaded(success)

Next == Gesture \/ PipelineAnswer \/ ListAnswer \/ RulesAnswer
          \/ UsersAnswer \/ Publish

Spec == Init /\ [][Next]_vars

(* Every request is answered; the user owes nothing.                       *)
Fairness == /\ WF_vars(PipelineAnswer) /\ WF_vars(ListAnswer)
            /\ WF_vars(RulesAnswer) /\ WF_vars(UsersAnswer)

FairSpec == Spec /\ Fairness
----------------------------------------------------------------------------
TypeOK ==
  /\ app \in [owner: Owners \cup {NoOwner}, policy: Policies,
              current: BOOLEAN, networks: Networks \cup {NoNetworks},
              init: BOOLEAN]
  /\ base \in Params
  /\ published \in 1 .. MaxPolicy
  /\ asks \in Seq([step: {"set", "policy"}, owner: Owners])
  /\ view \in [pressed: Relations \cup {"", "search"},
               relation: Relations \cup {""},
               form: Terms \cup {"none", "blank", "invalid"},
               names: BOOLEAN, filter: BOOLEAN]
  /\ list \in [asked: ListRequests, rows: SUBSET Services,
               selected: Services \cup {NoService}]
  /\ lists \in Seq(ListRequests) /\ ruleAsks \in Seq(RulesRequests)
  /\ pane \in [rules: [service: Services \cup {NoService},
                       owner: Owners \cup {NoOwner}, current: BOOLEAN],
               picked: BOOLEAN, busy: BOOLEAN, enabled: BOOLEAN]
  /\ Store!TypeOK
  /\ masked \in BOOLEAN

(* Whatever order the answers of lists, rules and users arrive in: a       *)
(* service is selected exactly when the list has one, the users wanted are  *)
(* the selected service's, and once they count as loaded no other service's *)
(* users are on the screen (Service.js:224-238, 758-831).                   *)
UsersFollowSelection ==
  /\ list.selected = NoService <=> list.rows = {}
  /\ list.selected = NoService <=> users.desired = NoKey
  /\ users.desired # NoKey => users.desired.service = list.selected
  /\ users.request = NoKey /\ users.loaded = users.desired
       /\ users.shown # NoKey => users.shown.service = list.selected

(* A change can be requested only for a rule of the selected service that  *)
(* was read for the current owner in a policy that was current, although    *)
(* rules may arrive late, for a service left long ago (Service.js:278-309). *)
ButtonsTellTheTruth ==
  pane.enabled => /\ app.current /\ pane.picked
                  /\ pane.rules.current
                  /\ pane.rules.service = list.selected
                  /\ pane.rules.owner = app.owner

(* The newest request of the list is for the owner and the networks the    *)
(* page is set to, and of the kind its pressed button says, whichever of    *)
(* the overlapping owner changes, policy changes and clicks came last        *)
(* (Main.js:256-278, NetspocState.js:29-45, Service.js:1144-1164).           *)
ListAskedAsShown ==
  ~app.init =>
    /\ list.asked.owner = app.owner
    /\ list.asked.networks = app.networks
    /\ view.pressed \in Relations => list.asked.relation = view.pressed

(* The store's own promise: the page drives it as UserLoads says.          *)
UsersStoreProtocol == Store!Spec
OnlyWantedUsersAppear == Store!OnlyWantedUsersAppear

(* The page is never masked for good (Netspoc.js:29-43).                   *)
PageIsUnmasked == masked ~> ~masked

(* A selection queued behind a running request of the users is requested   *)
(* itself unless another one is wanted by then (Service.js:784-797, 821-825).*)
QueuedUsersAreRequested ==
  \A s \in Services :
    users.queued # NoKey /\ users.queued = users.desired
      /\ users.desired.service = s
    ~> users.desired = NoKey \/ users.desired.service # s
         \/ users.request = users.desired
----------------------------------------------------------------------------
(* "Otherwise when changing owner, a search with leftover params will be   *)
(* performed, although own or used services should be displayed"            *)
(* (Service.js:1155-1158): the list of a pressed relation button is asked   *)
(* for without search terms.                                                *)
NoLeftoverSearch ==
  ~app.init /\ view.pressed \in Relations => list.asked.terms \notin Terms

(* "A failed or discarded request is retried when the user opens the tab.  *)
(* An already loaded/current request is reused" (Service.js:1264-1265): what *)
(* counts as loaded, and is wanted, is in the store.                        *)
DiscardedUsersAreRetried ==
  users.request = NoKey /\ users.loaded = users.desired =>
    users.shown = users.desired
=============================================================================
