----------------------------- MODULE PolicyTabs -----------------------------
(* The tabs beside the service view of the browser client: own networks,   *)
(* differences between policies, responsibilities (app/controller/          *)
(* Network.js, Diff.js, Account.js, the navigation of Main.js).  They share *)
(* owner, policy and chosen networks with the rest of the page, whose loads *)
(* count only because each of them masks and unmasks the page.              *)
EXTENDS Naturals, FiniteSets, Bags

CONSTANTS Owners, Networks,
          Owned,       \* the networks of each owner
          NoOwner,
          MaxPolicy, MaxClicks, MaxTurns, MaxFailures   \* bounds of a run

ASSUME TabsAssumption ==
  /\ Owned \in [Owners -> SUBSET Networks]
  /\ NoOwner \notin Owners
  /\ MaxPolicy \in Nat \ {0} /\ MaxClicks \in Nat /\ MaxTurns \in Nat
  /\ MaxFailures \in Nat

(* Cards of the main panel, in the order of the buttons.                   *)
Tabs == {"service", "networks", "diff", "account"}
Policies == 1 .. MaxPolicy
NoVersion == 0
TabStores == {"networks", "get_mail", "supervisors"}

(* Requests in flight: of which store, for which owner and what.           *)
Requests ==
  [store: TabStores, owner: Owners]
    \cup [store: {"resources"}, owner: Owners, networks: SUBSET Networks]
    \cup [store: {"set_mail"}, owner: Owners, send: BOOLEAN]
    \cup [store: {"diff"}, owner: Owners, version: Policies]

VARIABLES
  app,        \* appstate after its init phase
  published,  \* the server's current policy
  tab,        \* the active card
  net,        \* networks grid: whose rows, the selection, the buttons, and
              \* whether the navigation button says "Ausgewaehlte Netze"
  resources,  \* resources grid: networks asked for, networks shown
  diff,       \* diff tree: the root's version, the answers it shows
  mail,       \* the mail checkbox, and what the server has stored
  asked,      \* the owner each tab's store was last loaded for
  calls,      \* bag of requests in flight
  others,     \* loads in flight that only mask and unmask the page
  masked, spent

vars == <<app, published, tab, net, resources, diff, mail, asked, calls,
          others, masked, spent>>

Rows(o) == IF o = NoOwner THEN {} ELSE Owned[o]
----------------------------------------------------------------------------
(* What the tabs do when they are opened, or when owner or policy change.  *)

StoreOf(t) == CASE t = "networks" -> "networks"
                [] t = "diff" -> "get_mail"
                [] t = "account" -> "supervisors"

(* The tab's store is loaded n times for o.                                *)
LoadTab(t, o, n) ==
  IF t = "service" THEN UNCHANGED <<calls, asked>>
  ELSE LET call == [store |-> StoreOf(t), owner |-> o]
       IN /\ calls' = calls (+) SetToBag({call})
                        (+) IF n = 2 THEN SetToBag({call}) ELSE EmptyBag
          /\ asked' = [asked EXCEPT ![StoreOf(t)] = o]

(* Faulty: the controllers count the cards from one.                       *)
CardFromOne ==
  CASE tab = "diff" -> "networks" [] tab = "account" -> "diff" [] OTHER -> "service"

(* getActiveItemIndex                                                      *)
ActiveCard == tab

(* Faulty: the version compared with is left in the tree's root.           *)
KeepComparison(d) == [d EXCEPT !.shown = {}]

(* The tree is cleared, its root asks to choose a version.                 *)
ResetComparison(d) == [root |-> NoVersion, shown |-> {}]

(* Faulty: the button goes on telling of a choice.                         *)
KeepButton(n) == n

(* setOwnNetworksButton('default')                                         *)
ResetButton(n) == [n EXCEPT !.restricted = FALSE]

(* Another owner or policy.  Network.resetNetworks takes back the choice   *)
(* of networks, a second change inside the first; each of them loads the    *)
(* service list, and the diff or account tab if it is open.                  *)
ChangeContext(o, p) ==
  /\ app' = [owner |-> o, policy |-> p, networks |-> {}]
  /\ net' = ResetButton(net)
  /\ LoadTab(ActiveCard, o,
             IF app.networks # {} /\ ActiveCard # "networks" THEN 2 ELSE 1)
  /\ diff' = IF ActiveCard = "diff" THEN ResetComparison(diff) ELSE diff
  /\ resources' = IF ActiveCard = "networks"
                  THEN [resources EXCEPT !.shown = {}] ELSE resources
  /\ others' = TRUE
  /\ masked' = TRUE
----------------------------------------------------------------------------
(* The gestures of the user; the mask lets none through.                   *)
Click ==
  /\ ~masked
  /\ spent.clicks < MaxClicks
  /\ spent' = [spent EXCEPT !.clicks = @ + 1]

(* Main.onNavButtonClick: the card's beforeactivate handler loads it; that *)
(* of the diff tab resets its root, not what the tree shows.                *)
OpenTab(t) ==
  /\ Click
  /\ t # tab
  /\ tab' = t
  /\ LoadTab(t, app.owner, 1)
  /\ masked' = (t # "service")
  /\ others' = (others \/ t = "account")
  /\ diff' = IF t = "diff"
             THEN [ResetComparison(diff) EXCEPT !.shown = diff.shown] ELSE diff
  /\ UNCHANGED <<app, published, net, resources, mail>>

(* Main.onPolicySelected                                                   *)
SelectPolicy(p) ==
  /\ Click
  /\ p # app.policy
  /\ ChangeContext(app.owner, p)
  /\ UNCHANGED <<published, tab, mail>>

(* The resources grid of a selection.                                      *)
AskResources(picked) ==
  IF picked = {}
  THEN resources' = [resources EXCEPT !.shown = {}] /\ calls' = calls
  ELSE /\ resources' = [resources EXCEPT !.asked = picked]
       /\ calls' = calls (+) SetToBag({[store |-> "resources",
                     owner |-> app.owner, networks |-> picked]})

(* Network.onSelectionChange: n was ticked or unticked.                    *)
PickNetwork(n) ==
  /\ Click
  /\ tab = "networks" /\ n \in Rows(net.of)
  /\ LET picked == IF n \in net.picked THEN net.picked \ {n}
                   ELSE net.picked \cup {n}
     IN /\ net' = [net EXCEPT !.picked = picked, !.confirm = TRUE,
                              !.cancel = TRUE]
        /\ AskResources(picked)
        /\ masked' = (picked # {})
  /\ UNCHANGED <<app, published, tab, diff, mail, asked, others>>

(* appstate.changeNetworks: the service list is loaded.                    *)
ChangeNetworks(chosen) ==
  /\ app' = [app EXCEPT !.networks = chosen]
  /\ IF chosen # app.networks THEN others' = TRUE /\ masked' = TRUE
     ELSE UNCHANGED <<others, masked>>

(* To select all networks, or none, is no restriction.                     *)
Chosen(n) == IF n.picked = Rows(n.of) THEN {} ELSE n.picked

(* Network.onConfirmNetworkSelection                                       *)
ConfirmNetworks ==
  /\ Click
  /\ tab = "networks" /\ net.confirm
  /\ ChangeNetworks(Chosen(net))
  /\ net' = [net EXCEPT !.confirm = FALSE,
               !.restricted = net.picked \notin {{}, Rows(net.of)}]
  /\ UNCHANGED <<published, tab, resources, diff, mail, asked, calls>>

(* Network.onCancelNetworkSelection confirms the empty selection.          *)
CancelNetworks ==
  /\ Click
  /\ tab = "networks" /\ net.cancel
  /\ ChangeNetworks({})
  /\ net' = [net EXCEPT !.picked = {}, !.confirm = FALSE, !.cancel = FALSE,
                        !.restricted = FALSE]
  /\ resources' = [resources EXCEPT !.shown = {}]
  /\ UNCHANGED <<published, tab, diff, mail, asked, calls>>

(* Diff.onBeforeQuery filters what onSelectDiffPolicy gets.  The load of a *)
(* tree clears it first, and masks nothing.                                 *)
CompareWith(v) ==
  /\ Click
  /\ tab = "diff" /\ v < app.policy
  /\ diff' = [root |-> v, shown |-> {}]
  /\ calls' = calls (+) SetToBag({[store |-> "diff", owner |-> app.owner,
                                   version |-> v]})
  /\ UNCHANGED <<app, published, tab, net, resources, mail, asked, others,
                 masked>>

(* The box's change event stores what it says for the current owner.       *)
StoreBox(value) ==
  /\ calls' = calls (+) SetToBag({[store |-> "set_mail", owner |-> app.owner,
                                   send |-> value]})
  /\ masked' = TRUE

TickBox ==
  /\ Click
  /\ tab = "diff"
  /\ mail' = [mail EXCEPT !.box = ~@, !.meant[app.owner] = ~mail.box]
  /\ StoreBox(~mail.box)
  /\ UNCHANGED <<app, published, tab, net, resources, diff, asked, others>>

Gesture == \/ \E t \in Tabs : OpenTab(t)
           \/ \E p \in 1 .. published : SelectPolicy(p)
           \/ \E n \in Networks : PickNetwork(n)
           \/ ConfirmNetworks \/ CancelNetworks
           \/ \E v \in Policies : CompareWith(v)
           \/ TickBox
----------------------------------------------------------------------------
(* The rest of the page and the server.                                    *)

(* Main.onPolicyLoaded: the owner selected earlier, with the current       *)
(* policy.  For the same owner nothing but the policy changes, silently.    *)
OwnerChanges(o, known) ==
  /\ spent.turns < MaxTurns
  /\ spent' = [spent EXCEPT !.turns = @ + 1]
  /\ LET p == IF known THEN published ELSE app.policy
     IN IF o # app.owner THEN ChangeContext(o, p)
        ELSE /\ app' = [app EXCEPT !.policy = p]
             /\ others' = TRUE /\ masked' = TRUE
             /\ UNCHANGED <<net, resources, diff, asked, calls>>
  /\ UNCHANGED <<published, tab, mail>>

Publish ==
  /\ published < MaxPolicy
  /\ published' = published + 1
  /\ UNCHANGED <<app, tab, net, resources, diff, mail, asked, calls, others,
                 masked, spent>>

(* Another load of the page is answered.                                   *)
OtherAnswered ==
  /\ others
  /\ others' \in BOOLEAN
  /\ masked' = FALSE
  /\ UNCHANGED <<app, published, tab, net, resources, diff, mail, asked,
                 calls, spent>>

Outcome(success) ==
  IF success THEN UNCHANGED spent
  ELSE /\ spent.failures < MaxFailures
       /\ spent' = [spent EXCEPT !.failures = @ + 1]

Rest(c) == calls (-) SetToBag({c})

(* Faulty: the networks are selected without a look at their resources.    *)
SelectSilently(n, picked, rest) ==
  /\ resources' = resources
  /\ calls' = rest
  /\ masked' = FALSE

(* ... the resources of the selected networks are loaded.                  *)
SelectAndLoad(n, picked, rest) ==
  IF picked = {}
  THEN /\ resources' = [resources EXCEPT !.shown = {}]
       /\ calls' = rest
       /\ masked' = FALSE
  ELSE /\ resources' = [resources EXCEPT !.asked = picked]
       /\ calls' = rest (+) SetToBag({[store |-> "resources",
                              owner |-> app.owner, networks |-> picked]})
       /\ masked' = TRUE

(* Network.preSelect: the chosen networks, or all of them, are selected    *)
(* without events.  After a failure the rows are the former ones.            *)
NetworksLoaded(c, success) ==
  /\ c.store = "networks" /\ Outcome(success)
  /\ LET of == IF success THEN c.owner ELSE net.of
         picked == IF app.networks = {} THEN Rows(of)
                   ELSE app.networks \cap Rows(of)
     IN /\ net' = [net EXCEPT !.of = of, !.picked = picked]
        /\ SelectAndLoad(net, picked, Rest(c))
  /\ UNCHANGED <<app, published, tab, diff, mail, asked, others>>

ResourcesLoaded(c, success) ==
  /\ c.store = "resources" /\ Outcome(success)
  /\ resources' = IF success THEN [resources EXCEPT !.shown = c.networks]
                  ELSE resources
  /\ calls' = Rest(c) /\ masked' = FALSE
  /\ UNCHANGED <<app, published, tab, net, diff, mail, asked, others>>

(* Account.onLaunch: the first supervisor is selected, its mail addresses  *)
(* are loaded.                                                               *)
SupervisorsLoaded(c, success) ==
  /\ c.store = "supervisors" /\ Outcome(success)
  /\ calls' = Rest(c)
  /\ masked' \in BOOLEAN
  /\ others' = (others \/ masked')
  /\ UNCHANGED <<app, published, tab, net, resources, diff, mail, asked>>

(* Diff.onLaunch: the box is set, and to set it to another value is a      *)
(* change like the user's.  A failed answer has no records: the handler     *)
(* ends with an exception.                                                   *)
MailLoaded(c, success) ==
  /\ c.store = "get_mail" /\ Outcome(success)
  /\ LET value == IF success THEN mail.wants[c.owner] ELSE mail.box
     IN /\ mail' = [mail EXCEPT !.box = value]
        /\ IF value = mail.box THEN calls' = Rest(c) /\ masked' = FALSE
           ELSE /\ calls' = Rest(c) (+) SetToBag({[store |-> "set_mail",
                              owner |-> app.owner, send |-> value]})
                /\ masked' = TRUE
  /\ UNCHANGED <<app, published, tab, net, resources, diff, asked, others>>

MailStored(c, success) ==
  /\ c.store = "set_mail" /\ Outcome(success)
  /\ mail' = IF success THEN [mail EXCEPT !.wants[c.owner] = c.send]
             ELSE mail
  /\ calls' = Rest(c) /\ masked' = FALSE
  /\ UNCHANGED <<app, published, tab, net, resources, diff, asked, others>>

(* The answer's nodes are appended to the root.                            *)
DiffLoaded(c, success) ==
  /\ c.store = "diff" /\ Outcome(success)
  /\ diff' = IF success THEN [diff EXCEPT !.shown = @ \cup {c}] ELSE diff
  /\ calls' = Rest(c)
  /\ UNCHANGED <<app, published, tab, net, resources, mail, asked, others,
                 masked>>
----------------------------------------------------------------------------
(* The page after its start: no tab but the service view was opened.       *)
Init ==
  /\ app \in [owner: Owners, policy: {1}, networks: {{}}]
  /\ published = 1
  /\ tab = "service"
  /\ net = [of |-> NoOwner, picked |-> {}, confirm |-> FALSE,
            cancel |-> FALSE, restricted |-> FALSE]
  /\ resources = [asked |-> {}, shown |-> {}]
  /\ diff = [root |-> NoVersion, shown |-> {}]
  /\ \E w \in [Owners -> BOOLEAN] :
       mail = [box |-> FALSE, wants |-> w, meant |-> w]
  /\ asked = [s \in TabStores |-> NoOwner]
  /\ calls = EmptyBag
  /\ others = TRUE /\ masked = TRUE
  /\ spent = [clicks |-> 0, turns |-> 0, failures |-> 0]

Answer == \E c \in BagToSet(calls), success \in BOOLEAN :
            \/ NetworksLoaded(c, success) \/ ResourcesLoaded(c, success)
            \/ SupervisorsLoaded(c, success) \/ DiffLoaded(c, success)
            \/ MailLoaded(c, success) \/ MailStored(c, success)

Next == \/ Gesture \/ Publish \/ OtherAnswered \/ Answer
        \/ \E o \in Owners, known \in BOOLEAN : OwnerChanges(o, known)

Spec == Init /\ [][Next]_vars
----------------------------------------------------------------------------
TypeOK ==
  /\ app \in [owner: Owners, policy: Policies, networks: SUBSET Networks]
  /\ published \in Policies
  /\ tab \in Tabs
  /\ net \in [of: Owners \cup {NoOwner}, picked: SUBSET Networks,
              confirm: BOOLEAN, cancel: BOOLEAN, restricted: BOOLEAN]
  /\ net.picked \subseteq Rows(net.of)
  /\ resources \in [asked: SUBSET Networks, shown: SUBSET Networks]
  /\ diff.root \in Policies \cup {NoVersion}
  /\ diff.shown \subseteq {r \in Requests : r.store = "diff"}
  /\ mail \in [box: BOOLEAN, wants: [Owners -> BOOLEAN],
               meant: [Owners -> BOOLEAN]]
  /\ asked \in [TabStores -> Owners \cup {NoOwner}]
  /\ IsABag(calls) /\ BagToSet(calls) \subseteq Requests
  /\ others \in BOOLEAN /\ masked \in BOOLEAN

(* The navigation button says "Ausgewaehlte Netze" exactly while the       *)
(* requests of the page are restricted to networks, whatever was confirmed, *)
(* cancelled, reloaded or changed meanwhile (Network.js:96-105, 189-253).   *)
IndicatorTruthful == net.restricted <=> app.networks # {}

(* The open tab's store was last loaded for the owner of the page, though  *)
(* the owner changes while tabs are opened and loads are under way           *)
(* (Network.js:86-113, Diff.js:95-109, Account.js:67-86).                    *)
ActiveTabAskedForOwner ==
  tab # "service" => asked[StoreOf(tab)] = app.owner

(* The version compared with is older than the policy of the page, also    *)
(* when the policy changes after the choice (Diff.js:112-151).              *)
ComparisonIsOlder ==
  tab = "diff" /\ diff.root # NoVersion => diff.root < app.policy

(* The resources were last asked for the networks that are selected, also  *)
(* when the selection is the controller's own (Network.js:131-187).         *)
ResourcesAskedForSelection ==
  net.picked # {} => resources.asked = net.picked
----------------------------------------------------------------------------
(* "Clear tree so no obsolete data is displayed." (Diff.js:101): the tree  *)
(* shows the differences to the version of its root, for the page's owner.  *)
NoObsoleteDiff ==
  tab = "diff" => \A r \in diff.shown :
                    r.version = diff.root /\ r.owner = app.owner

(* "setDiffMail updates the user's preference" (diff.go:181): what is      *)
(* stored for an owner changes to what the user ticked for it.              *)
PreferenceIsTheUsers ==
  [][\A o \in Owners : mail'.wants[o] # mail.wants[o] =>
                         mail'.wants[o] = mail.meant[o]]_vars
=============================================================================
