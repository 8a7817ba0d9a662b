------------------------- MODULE RuleRequestDialog -------------------------
(* Requesting a change of a rule from the browser client: the buttons of   *)
(* the rules grid, the object list fetched for a choice, the dialog and the *)
(* POST it sends (app/controller/Service.js).  What the rest of the page    *)
(* does meanwhile, loads answered late included, is any change of the owner,*)
(* the policy, the selected service and the selected rule.                  *)
EXTENDS Naturals, Sequences, FiniteSets

CONSTANTS Owners, Services, Objects,
          Fqdns,       \* objects that are domain names
          RuleValues,  \* elements of the rule, by policy and field
          Dialogs,     \* dialogs that may be opened (bound)
          NoRule,
          MaxPolicy, MaxTurns, MaxContexts, MaxLost, MaxPosts   \* bounds

Fields == {"sources", "destinations", "protocols"}
Changes == [operation: {"add", "remove"}, field: Fields]
Policies == 1 .. MaxPolicy

ASSUME DialogAssumption ==
  /\ Fqdns \subseteq Objects /\ IsFiniteSet(Objects)
  /\ RuleValues \in [Policies -> [Fields -> SUBSET Objects]]
  /\ {MaxTurns, MaxContexts, MaxLost, MaxPosts} \subseteq Nat
  /\ MaxPolicy \in Nat \ {0}

(* A record of the rules store: what it was loaded for, and whether that   *)
(* policy was the current one then.                                         *)
Rules == [service: Services, owner: Owners, base: Policies, current: BOOLEAN]
Posts == {"sent", "stored", "refused"}

VARIABLES
  page,       \* owner and policy of appstate, service selected in the list
  rule,       \* the rule selected in the grid
  published,  \* the server's current policy
  contexts,   \* requests/context in flight
  dialog,     \* the dialogs
  posts,      \* what became of the POSTs each dialog sent
  turns, lost \* changes of the page, answers lost so far (bounds)

vars == <<page, rule, published, contexts, dialog, posts, turns, lost>>

Unopened == [window |-> "none", rule |-> NoRule, change |-> <<>>,
             values |-> {}, button |-> FALSE, waiting |-> FALSE]

(* The conditions of updateRuleRequestButtons, of a click and of sending.  *)
Fits(r) == /\ page.current
           /\ r.current
           /\ r.service = page.service
           /\ r.owner = page.owner

(* ruleRequestValues                                                       *)
CurrentValues(r, c) == RuleValues[r.base][c.field]
----------------------------------------------------------------------------
(* The page goes on.                                                       *)
Turn(p, r) ==
  /\ turns < MaxTurns
  /\ <<p, r>> # <<page, rule>>
  /\ page' = p
  /\ rule' = r
  /\ turns' = turns + 1
  /\ UNCHANGED <<published, contexts, dialog, posts, lost>>

Publish ==
  /\ published < MaxPolicy
  /\ published' = published + 1
  /\ UNCHANGED <<page, rule, contexts, dialog, posts, turns, lost>>

(* showRuleRequestWindow                                                   *)
Open(d, r, c, values) ==
  /\ dialog[d] = Unopened
  /\ dialog' = [dialog EXCEPT ![d] =
       [window |-> "open", rule |-> r, change |-> c, values |-> values,
        button |-> TRUE, waiting |-> FALSE]]

(* Faulty: the last element may be removed.                                *)
OfferedAnyway(r, c) ==
  IF c.operation = "remove" THEN CurrentValues(r, c) ELSE Objects

(* What the dialog offers when nothing has to be fetched: the last element *)
(* of a field cannot be removed, a protocol is typed.                       *)
Offered(r, c) ==
  IF c.operation = "remove"
  THEN IF Cardinality(CurrentValues(r, c)) < 2 THEN {} ELSE CurrentValues(r, c)
  ELSE Objects

NeedsContext(c) == c.operation = "add" /\ c.field # "protocols"

(* onRuleRequestButtonClick: removing and protocols open the dialog.       *)
ClickDirect(d, c) ==
  /\ rule # NoRule /\ Fits(rule)
  /\ ~NeedsContext(c)
  /\ Offered(rule, c) # {}
  /\ Open(d, rule, c, Offered(rule, c))
  /\ UNCHANGED <<page, rule, published, contexts, posts, turns, lost>>

(* ... adding an object asks for the objects first.  Nothing is masked     *)
(* meanwhile: the button can be clicked again.                              *)
ClickContext(c) ==
  /\ rule # NoRule /\ Fits(rule)
  /\ NeedsContext(c)
  /\ Len(contexts) < MaxContexts
  /\ contexts' = Append(contexts, [rule |-> rule, change |-> c])
  /\ UNCHANGED <<page, rule, published, dialog, posts, turns, lost>>

(* Faulty: the selection the objects were asked for is not looked at again.*)
OptionsAsAsked(q, available) ==
  IF q.rule.base # published THEN {}
  ELSE (IF q.change.field = "sources" THEN available \ Fqdns ELSE available)
         \ CurrentValues(q.rule, q.change)

(* The answer's objects that can be added, none when the policy or the     *)
(* selection is another one by now; a source is no domain name.             *)
Options(q, available) ==
  IF \/ q.rule.base # published
     \/ q.rule.service # page.service \/ q.rule.owner # page.owner
  THEN {}
  ELSE (IF q.change.field = "sources" THEN available \ Fqdns ELSE available)
         \ CurrentValues(q.rule, q.change)

Without(s, i) == SubSeq(s, 1, i - 1) \o SubSeq(s, i + 1, Len(s))

(* requests/context is answered; a failure leaves available empty.         *)
ContextLoaded(i, d, available) ==
  /\ contexts' = Without(contexts, i)
  /\ LET q == contexts[i]
         options == Options(q, available)
     IN IF options = {} THEN UNCHANGED dialog
        ELSE Open(d, q.rule, q.change, options)
  /\ UNCHANGED <<page, rule, published, posts, turns, lost>>
----------------------------------------------------------------------------
(* Faulty: the button stays enabled while the request is on its way.       *)
SendingClickable(x) == [x EXCEPT !.waiting = TRUE]

Sending(x) == [x EXCEPT !.button = FALSE, !.waiting = TRUE]

(* "Antrag senden": submitRuleRequest looks at the page once more.  When   *)
(* it changed the button is enabled again and nothing is sent.              *)
Send(d) ==
  /\ dialog[d].window = "open" /\ dialog[d].button
  /\ Fits(dialog[d].rule)
  /\ Len(posts[d]) < MaxPosts
  /\ dialog' = [dialog EXCEPT ![d] = Sending(@)]
  /\ posts' = [posts EXCEPT ![d] = Append(@, "sent")]
  /\ UNCHANGED <<page, rule, published, contexts, turns, lost>>

(* "Abbrechen" closes the window; a request on its way stays there.        *)
Cancel(d) ==
  /\ dialog[d].window = "open"
  /\ dialog' = [dialog EXCEPT ![d].window = "closed"]
  /\ UNCHANGED <<page, rule, published, contexts, posts, turns, lost>>

(* The server stores a request made for its current policy, or refuses it. *)
Process(d, k, result) ==
  /\ posts[d][k] = "sent"
  /\ result = "stored" => dialog[d].rule.base = published
  /\ posts' = [posts EXCEPT ![d][k] = result]
  /\ UNCHANGED <<page, rule, published, contexts, dialog, turns, lost>>

LastPost(d) == posts[d][Len(posts[d])]

(* The answer: stored closes the window, refused enables the button.       *)
Answered(d) ==
  /\ dialog[d].waiting
  /\ LastPost(d) # "sent"
  /\ dialog' = [dialog EXCEPT
       ![d].waiting = FALSE,
       ![d].window = IF LastPost(d) = "stored" THEN "closed" ELSE @,
       ![d].button = LastPost(d) = "refused"]
  /\ UNCHANGED <<page, rule, published, contexts, posts, turns, lost>>

(* The connection breaks or the answer takes too long: failure, whatever   *)
(* the server did or will do with the request.                              *)
LoseAnswer(d) ==
  /\ dialog[d].waiting
  /\ lost[d] < MaxLost
  /\ lost' = [lost EXCEPT ![d] = @ + 1]
  /\ dialog' = [dialog EXCEPT ![d].waiting = FALSE, ![d].button = TRUE]
  /\ UNCHANGED <<page, rule, published, contexts, posts, turns>>
----------------------------------------------------------------------------
Pages == [owner: Owners, service: Services, current: BOOLEAN]

(* Records that can be loaded while v is the current policy.               *)
Loadable(v) == {r \in Rules : r.base <= v /\ (r.current <=> r.base = v)}

Init ==
  /\ page \in {p \in Pages : p.current}
  /\ rule \in Loadable(1) \cup {NoRule}
  /\ published = 1
  /\ contexts = <<>>
  /\ dialog = [d \in Dialogs |-> Unopened]
  /\ posts = [d \in Dialogs |-> <<>>]
  /\ turns = 0
  /\ lost = [d \in Dialogs |-> 0]

TurnPage == \E p \in Pages, r \in Loadable(published) \cup {rule, NoRule} : Turn(p, r)
Click == \E c \in Changes : ClickContext(c) \/ \E d \in Dialogs : ClickDirect(d, c)
LoadContext == \E i \in DOMAIN contexts, d \in Dialogs, o \in SUBSET Objects :
                 ContextLoaded(i, d, o)
Serve == \E d \in Dialogs, result \in {"stored", "refused"} :
           \E k \in DOMAIN posts[d] : Process(d, k, result)

Next == \/ TurnPage \/ Publish \/ Click \/ LoadContext \/ Serve
        \/ \E d \in Dialogs :
             Send(d) \/ Cancel(d) \/ Answered(d) \/ LoseAnswer(d)

Spec == Init /\ [][Next]_vars
----------------------------------------------------------------------------
Context == [rule: Rules, change: {c \in Changes : NeedsContext(c)}]
DialogType == [window: {"none", "open", "closed"}, rule: Rules \cup {NoRule},
               change: Changes \cup {<<>>}, values: SUBSET Objects,
               button: BOOLEAN, waiting: BOOLEAN]

TypeOK ==
  /\ page \in Pages
  /\ rule \in Rules \cup {NoRule}
  /\ published \in Policies
  /\ contexts \in Seq(Context)
  /\ dialog \in [Dialogs -> DialogType]
  /\ posts \in [Dialogs -> Seq(Posts)]
  /\ turns \in Nat
  /\ lost \in [Dialogs -> Nat]

Stored(d) == {k \in DOMAIN posts[d] : posts[d][k] = "stored"}

(* A dialog stores its change once, and once more only for every answer    *)
(* that was lost: a click too many, a cancelled window or a refusal never   *)
(* duplicates it (Service.js:544-576, 611-625).                             *)
StoredOnce == \A d \in Dialogs : Cardinality(Stored(d)) <= 1 + lost[d]

(* What was asked of the server before the user went on opens no dialog    *)
(* for another service or owner, and a dialog left open sends nothing for   *)
(* another one (Service.js:436-439, 580-592).                               *)
ActsOnSelection ==
  [][\A d \in Dialogs :
       (dialog'[d].window # dialog[d].window /\ dialog'[d].window = "open")
         \/ Len(posts'[d]) > Len(posts[d])
       => /\ dialog'[d].rule.service = page.service
          /\ dialog'[d].rule.owner = page.owner]_vars

(* A stored change is one the server's policy admits: what is added is not *)
(* there yet, what is removed is not the last (Service.js:393-397, 430-435). *)
StoredChangeIsPossible ==
  [][\A d \in Dialogs : Stored(d)' # Stored(d) =>
       LET has == RuleValues[published][dialog[d].change.field]
       IN IF dialog[d].change.operation = "remove"
          THEN /\ dialog[d].values \subseteq has
               /\ Cardinality(has) > 1
          ELSE NeedsContext(dialog[d].change) =>
                 dialog[d].values \cap has = {}]_vars
=============================================================================
