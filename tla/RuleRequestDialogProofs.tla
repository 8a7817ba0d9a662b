---------------------- MODULE RuleRequestDialogProofs ----------------------
(* What holds of the rule request dialog for any rules, any number of       *)
(* dialogs, changes of the page, clicks, lost answers and POSTs.            *)
EXTENDS RuleRequestDialog, FiniteSetTheorems, SequenceTheorems, TLAPS

(* The POSTs of a dialog that are stored or may be yet.                    *)
Live(d) == {k \in DOMAIN posts[d] : posts[d][k] # "refused"}
Earlier(d) == Live(d) \ {Len(posts[d])}

(* The change a dialog was opened for is possible in the policy of its     *)
(* rule.                                                                    *)
Possible(x) ==
  LET has == CurrentValues(x.rule, x.change)
  IN  IF x.change.operation = "remove"
      THEN x.values \subseteq has /\ Cardinality(has) > 1
      ELSE NeedsContext(x.change) => x.values \cap has = {}

Prepared(d) ==
  IF dialog[d].window = "none"
  THEN dialog[d] = Unopened /\ posts[d] = <<>>
  ELSE dialog[d].rule \in Rules /\ dialog[d].change \in Changes /\ Possible(dialog[d])

(* The button is enabled only when every POST that is not refused had its  *)
(* answer lost; while the dialog waits, that holds of all but the last.     *)
Accounted(d) ==
  /\ Cardinality(Live(d)) <= 1 + lost[d]
  /\ dialog[d].waiting =>
       /\ ~dialog[d].button
       /\ posts[d] # <<>>
       /\ Cardinality(Earlier(d)) <= lost[d]
  /\ dialog[d].button => Cardinality(Live(d)) <= lost[d]
  /\ dialog[d].window = "open" => dialog[d].button \/ dialog[d].waiting

DialogInv == TypeOK /\ \A d \in Dialogs : Prepared(d) /\ Accounted(d)

(* An open dialog can be sent or an answer is to come: it is never left    *)
(* with its button disabled (Service.js:544-576).                           *)
NeverStuck ==
  \A d \in Dialogs : dialog[d].window = "open" =>
    dialog[d].button \/ (dialog[d].waiting /\ posts[d] # <<>>)
----------------------------------------------------------------------------
(* The data.                                                               *)
LEMMA ValuesFinite ==
  ASSUME NEW r \in Rules, NEW c \in Changes
  PROVE  /\ CurrentValues(r, c) \subseteq Objects
         /\ IsFiniteSet(CurrentValues(r, c))
         /\ Cardinality(CurrentValues(r, c)) \in Nat
<1>1. r.base \in Policies /\ c.field \in Fields
  BY DEF Rules, Changes
<1>2. CurrentValues(r, c) \subseteq Objects
  BY <1>1, DialogAssumption DEF CurrentValues
<1> QED
  BY <1>2, DialogAssumption, FS_Subset, FS_CardinalityType

LEMMA PostsCounted ==
  ASSUME TypeOK, NEW d \in Dialogs
  PROVE  /\ posts[d] \in Seq(Posts) /\ lost[d] \in Nat
         /\ DOMAIN posts[d] = 1 .. Len(posts[d]) /\ Len(posts[d]) \in Nat
         /\ IsFiniteSet(DOMAIN posts[d])
         /\ IsFiniteSet(Live(d)) /\ IsFiniteSet(Earlier(d))
         /\ Cardinality(Live(d)) \in Nat /\ Cardinality(Earlier(d)) \in Nat
         /\ Cardinality(Live(d)) <= 1 + Cardinality(Earlier(d))
         /\ Len(posts[d]) \notin Live(d) => Earlier(d) = Live(d)
<1>1. /\ posts[d] \in Seq(Posts) /\ lost[d] \in Nat
      /\ DOMAIN posts[d] = 1 .. Len(posts[d]) /\ Len(posts[d]) \in Nat
  BY DEF TypeOK
<1>2. IsFiniteSet(DOMAIN posts[d])
  BY <1>1, FS_Interval
<1>3. IsFiniteSet(Live(d))
  BY <1>2, FS_Subset DEF Live
<1>4. /\ IsFiniteSet(Earlier(d))
      /\ Cardinality(Earlier(d)) = IF Len(posts[d]) \in Live(d)
                                   THEN Cardinality(Live(d)) - 1
                                   ELSE Cardinality(Live(d))
  BY <1>3, FS_RemoveElement DEF Earlier
<1>5. Cardinality(Live(d)) \in Nat /\ Cardinality(Earlier(d)) \in Nat
  BY <1>3, <1>4, FS_CardinalityType
<1>6. Len(posts[d]) \notin Live(d) => Earlier(d) = Live(d)
  BY DEF Earlier
<1> QED
  BY <1>1, <1>2, <1>3, <1>4, <1>5, <1>6

(* A dialog nothing happens to.                                            *)
LEMMA Untouched ==
  ASSUME NEW d \in Dialogs, Prepared(d), Accounted(d),
         dialog'[d] = dialog[d], posts'[d] = posts[d], lost'[d] = lost[d]
  PROVE  Prepared(d)' /\ Accounted(d)'
<1>1. Live(d)' = Live(d) /\ Earlier(d)' = Earlier(d)
  BY DEF Live, Earlier
<1>2. Accounted(d)'
  BY <1>1 DEF Accounted
<1>3. Prepared(d)'
  BY DEF Prepared, Possible, CurrentValues, NeedsContext
<1> QED
  BY <1>2, <1>3

LEMMA Unpicked == Unopened \in DialogType
BY DEF Unopened, DialogType

LEMMA ContextRemoved ==
  ASSUME contexts \in Seq(Context), NEW i \in DOMAIN contexts
  PROVE  Without(contexts, i) \in Seq(Context) /\ contexts[i] \in Context
<1>1. (\A j \in 1 .. (i-1) : contexts[j] \in Context)
        /\ (\A j \in (i+1) .. Len(contexts) : contexts[j] \in Context)
        /\ i \in Int /\ Len(contexts) \in Int /\ contexts[i] \in Context
  OBVIOUS
<1>2. SubSeq(contexts, 1, i-1) \in Seq(Context)
        /\ SubSeq(contexts, i+1, Len(contexts)) \in Seq(Context)
  BY <1>1, SubSeqProperties
<1> QED
  BY <1>1, <1>2, ConcatProperties DEF Without
----------------------------------------------------------------------------
(* The steps.                                                              *)

(* A dialog is opened for a change that is possible.                       *)
LEMMA OpenKeeps ==
  ASSUME DialogInv, NEW d \in Dialogs, NEW r \in Rules, NEW c \in Changes,
         NEW values \in SUBSET Objects, Open(d, r, c, values),
         Possible([rule |-> r, change |-> c, values |-> values]),
         posts' = posts, lost' = lost
  PROVE  /\ dialog' \in [Dialogs -> DialogType]
         /\ \A x \in Dialogs : Prepared(x)' /\ Accounted(x)'
<1>1. /\ dialog \in [Dialogs -> DialogType]
      /\ TypeOK /\ dialog[d] = Unopened /\ posts[d] = <<>>
  BY DEF DialogInv, TypeOK, Open, Prepared, Unopened
<1>2. dialog' = [dialog EXCEPT ![d] =
        [window |-> "open", rule |-> r, change |-> c, values |-> values,
         button |-> TRUE, waiting |-> FALSE]]
  BY DEF Open
<1>3. [window |-> "open", rule |-> r, change |-> c, values |-> values,
       button |-> TRUE, waiting |-> FALSE] \in DialogType
  BY DEF DialogType
<1>4. dialog' \in [Dialogs -> DialogType]
  BY <1>1, <1>2, <1>3
<1>5. dialog'[d] = [window |-> "open", rule |-> r, change |-> c, values |-> values,
                    button |-> TRUE, waiting |-> FALSE]
  BY <1>1, <1>2
<1>6. Prepared(d)'
  BY <1>5 DEF Prepared, Possible, CurrentValues, NeedsContext
<1>7. Live(d)' = {}
  BY <1>1 DEF Live
<1>8. Accounted(d)'
  <2>1. Cardinality({}) = 0 /\ lost'[d] \in Nat
    BY FS_EmptySet, <1>1 DEF TypeOK
  <2> QED
    BY <1>5, <1>7, <2>1 DEF Accounted
<1>9. ASSUME NEW x \in Dialogs \ {d} PROVE Prepared(x)' /\ Accounted(x)'
  <2>1. dialog'[x] = dialog[x]
    BY <1>1, <1>2
  <2> QED
    BY <2>1, Untouched DEF DialogInv
<1> QED
  BY <1>4, <1>6, <1>8, <1>9

LEMMA ClickKeeps ==
  ASSUME DialogInv, NEW c \in Changes, NEW d \in Dialogs, ClickDirect(d, c)
  PROVE  DialogInv'
<1>1. rule \in Rules /\ TypeOK
  BY DEF DialogInv, TypeOK, ClickDirect
<1>2. /\ CurrentValues(rule, c) \subseteq Objects
      /\ Cardinality(CurrentValues(rule, c)) \in Nat
  BY <1>1, ValuesFinite
<1>3. Offered(rule, c) \in SUBSET Objects
  BY <1>2 DEF Offered
<1>4. Possible([rule |-> rule, change |-> c, values |-> Offered(rule, c)])
  BY <1>2 DEF Possible, Offered, ClickDirect
<1>5. /\ dialog' \in [Dialogs -> DialogType]
      /\ \A x \in Dialogs : Prepared(x)' /\ Accounted(x)'
  BY <1>1, <1>3, <1>4, OpenKeeps DEF ClickDirect
<1> QED
  BY <1>1, <1>5 DEF DialogInv, TypeOK, ClickDirect

LEMMA AskKeeps ==
  ASSUME DialogInv, NEW c \in Changes, ClickContext(c)
  PROVE  DialogInv'
<1>1. TypeOK /\ rule \in Rules /\ contexts' = Append(contexts, [rule |-> rule, change |-> c])
  BY DEF DialogInv, TypeOK, ClickContext
<1>2. [rule |-> rule, change |-> c] \in Context
  BY <1>1 DEF Context, ClickContext
<1>3. contexts' \in Seq(Context)
  BY <1>1, <1>2, AppendProperties DEF TypeOK
<1>4. TypeOK'
  BY <1>1, <1>3 DEF TypeOK, ClickContext
<1> QED
  BY <1>4, Untouched DEF DialogInv, ClickContext

LEMMA ContextKeeps ==
  ASSUME DialogInv, NEW i \in DOMAIN contexts, NEW d \in Dialogs,
         NEW available \in SUBSET Objects, ContextLoaded(i, d, available)
  PROVE  DialogInv'
<1> DEFINE q == contexts[i]
<1>1. TypeOK /\ Without(contexts, i) \in Seq(Context) /\ q \in Context
  BY ContextRemoved DEF DialogInv, TypeOK
<1>2. q.rule \in Rules /\ q.change \in Changes
  BY <1>1 DEF Context
<1>3. contexts' \in Seq(Context)
  BY <1>1 DEF ContextLoaded
<1>4. CASE Options(q, available) = {}
  <2>1. UNCHANGED <<dialog, posts, lost>>
    BY <1>4 DEF ContextLoaded
  <2>2. TypeOK'
    BY <1>1, <1>3, <2>1 DEF TypeOK, ContextLoaded
  <2> QED
    BY <2>1, <2>2, Untouched DEF DialogInv
<1>5. CASE Options(q, available) # {}
  <2> DEFINE options == Options(q, available)
  <2>1. Open(d, q.rule, q.change, options) /\ UNCHANGED <<posts, lost>>
    BY <1>5 DEF ContextLoaded
  <2>2. options \in SUBSET Objects
    BY DEF Options
  <2>3. options \cap CurrentValues(q.rule, q.change) = {}
    BY DEF Options
  <2>4. q.change.operation = "add"
    BY <1>1 DEF Context, NeedsContext
  <2>5. Possible([rule |-> q.rule, change |-> q.change, values |-> options])
    <3> HIDE DEF q, options
    <3> QED
      BY <2>3, <2>4 DEF Possible
  <2>6. /\ dialog' \in [Dialogs -> DialogType]
        /\ \A x \in Dialogs : Prepared(x)' /\ Accounted(x)'
    <3> HIDE DEF q, options
    <3> QED
      BY <1>2, <2>1, <2>2, <2>5, OpenKeeps
  <2> QED
    BY <1>1, <1>3, <2>6 DEF DialogInv, TypeOK, ContextLoaded
<1> QED
  BY <1>4, <1>5

(* A dialog changes, its posts and losses with it, and the rest stays.     *)
LEMMA OneDialog ==
  ASSUME DialogInv, NEW d \in Dialogs, NEW x \in DialogType,
         dialog' = [dialog EXCEPT ![d] = x],
         posts' \in [Dialogs -> Seq(Posts)], lost' \in [Dialogs -> Nat],
         \A e \in Dialogs \ {d} : posts'[e] = posts[e] /\ lost'[e] = lost[e],
         UNCHANGED <<page, rule, published, contexts, turns>>,
         Prepared(d)', Accounted(d)'
  PROVE  DialogInv'
<1>1. TypeOK /\ dialog \in [Dialogs -> DialogType]
  BY DEF DialogInv, TypeOK
<1>2. TypeOK'
  BY <1>1 DEF TypeOK
<1>3. ASSUME NEW e \in Dialogs \ {d} PROVE Prepared(e)' /\ Accounted(e)'
  <2>1. dialog'[e] = dialog[e]
    BY <1>1
  <2> QED
    BY <2>1, Untouched DEF DialogInv
<1> QED
  BY <1>2, <1>3 DEF DialogInv

(* A dialog that keeps rule, change and values stays prepared.             *)
LEMMA StaysPrepared ==
  ASSUME NEW d \in Dialogs, Prepared(d), dialog[d].window # "none",
         dialog'[d].window # "none", dialog'[d].rule = dialog[d].rule,
         dialog'[d].change = dialog[d].change, dialog'[d].values = dialog[d].values
  PROVE  Prepared(d)'
BY DEF Prepared, Possible, CurrentValues, NeedsContext

LEMMA SendKeeps ==
  ASSUME DialogInv, NEW d \in Dialogs, Send(d)
  PROVE  DialogInv'
<1> DEFINE x == Sending(dialog[d])
           n == Len(posts[d])
<1>1. /\ TypeOK /\ dialog[d] \in DialogType /\ dialog[d].button
      /\ dialog[d].window = "open" /\ Prepared(d) /\ Accounted(d)
      /\ dialog \in [Dialogs -> DialogType] /\ posts \in [Dialogs -> Seq(Posts)]
      /\ lost \in [Dialogs -> Nat]
  BY DEF DialogInv, TypeOK, Send
<1>2. /\ x \in DialogType /\ x.window = "open" /\ x.button = FALSE /\ x.waiting = TRUE
      /\ x.rule = dialog[d].rule /\ x.change = dialog[d].change
      /\ x.values = dialog[d].values
  BY <1>1 DEF Sending, DialogType
<1>3. dialog' = [dialog EXCEPT ![d] = x] /\ dialog'[d] = x
  BY <1>1 DEF Send
<1>4. posts' = [posts EXCEPT ![d] = Append(posts[d], "sent")]
  BY DEF Send
<1>5. /\ posts[d] \in Seq(Posts) /\ n \in Nat /\ DOMAIN posts[d] = 1 .. n
      /\ IsFiniteSet(Live(d)) /\ Cardinality(Live(d)) <= lost[d]
      /\ Cardinality(Live(d)) \in Nat /\ lost[d] \in Nat
  BY <1>1, PostsCounted DEF Accounted
<1>6. /\ posts'[d] \in Seq(Posts) /\ Len(posts'[d]) = n + 1 /\ posts'[d] # <<>>
      /\ posts'[d][n+1] = "sent" /\ \A k \in 1 .. n : posts'[d][k] = posts[d][k]
      /\ DOMAIN posts'[d] = 1 .. (n+1)
  <2>1. "sent" \in Posts
    BY DEF Posts
  <2>2. posts'[d] = Append(posts[d], "sent")
    BY <1>1, <1>4
  <2>3. /\ posts'[d] \in Seq(Posts) /\ Len(posts'[d]) = n + 1 /\ posts'[d] # <<>>
        /\ posts'[d][n+1] = "sent" /\ \A k \in 1 .. n : posts'[d][k] = posts[d][k]
    BY <1>5, <2>1, <2>2, AppendProperties
  <2> QED
    BY <2>3
<1>7. posts' \in [Dialogs -> Seq(Posts)]
  BY <1>1, <1>4, <1>6
<1> HIDE DEF x, n
<1>8. Live(d)' = Live(d) \cup {n+1} /\ n + 1 \notin Live(d)
  BY <1>5, <1>6 DEF Live
<1>9. Earlier(d)' = Live(d)
  BY <1>6, <1>8 DEF Earlier
<1>10. Cardinality(Live(d)') = Cardinality(Live(d)) + 1
  BY <1>5, <1>8, FS_AddElement
<1>11. lost' = lost
  BY DEF Send
<1>12. Accounted(d)'
  BY <1>2, <1>3, <1>5, <1>6, <1>9, <1>10, <1>11 DEF Accounted
<1>13. Prepared(d)'
  BY <1>1, <1>2, <1>3, StaysPrepared
<1>14. /\ \A e \in Dialogs \ {d} : posts'[e] = posts[e] /\ lost'[e] = lost[e]
       /\ UNCHANGED <<page, rule, published, contexts, turns>>
  BY <1>1, <1>4, <1>11 DEF Send
<1>15. lost' \in [Dialogs -> Nat]
  BY <1>1, <1>11
<1> QED
  BY <1>2, <1>3, <1>7, <1>12, <1>13, <1>14, <1>15, OneDialog

LEMMA CancelKeeps ==
  ASSUME DialogInv, NEW d \in Dialogs, Cancel(d)
  PROVE  DialogInv'
<1> DEFINE x == [dialog[d] EXCEPT !.window = "closed"]
<1>1. /\ TypeOK /\ dialog[d] \in DialogType /\ dialog[d].window = "open"
      /\ Prepared(d) /\ Accounted(d) /\ dialog \in [Dialogs -> DialogType]
      /\ posts \in [Dialogs -> Seq(Posts)] /\ lost \in [Dialogs -> Nat]
  BY DEF DialogInv, TypeOK, Cancel
<1>2. dialog' = [dialog EXCEPT ![d] = x] /\ dialog'[d] = x
  BY <1>1 DEF Cancel
<1>3. /\ x \in DialogType /\ x.window = "closed" /\ x.button = dialog[d].button
      /\ x.waiting = dialog[d].waiting /\ x.rule = dialog[d].rule
      /\ x.change = dialog[d].change /\ x.values = dialog[d].values
  BY <1>1 DEF DialogType
<1>4. UNCHANGED <<page, rule, published, contexts, posts, turns, lost>>
  BY DEF Cancel
<1> HIDE DEF x
<1>5. Live(d)' = Live(d) /\ Earlier(d)' = Earlier(d)
  BY <1>4 DEF Live, Earlier
<1>6. Accounted(d)'
  BY <1>1, <1>2, <1>3, <1>4, <1>5 DEF Accounted
<1>7. Prepared(d)'
  BY <1>1, <1>2, <1>3, StaysPrepared
<1> QED
  BY <1>1, <1>2, <1>3, <1>4, <1>6, <1>7, OneDialog

(* The dialog waits no longer: an answer came, or was lost.                *)
LEMMA AnsweredKeeps ==
  ASSUME DialogInv, NEW d \in Dialogs, Answered(d)
  PROVE  DialogInv'
<1> DEFINE x == [dialog[d] EXCEPT
                   !.waiting = FALSE,
                   !.window = IF LastPost(d) = "stored" THEN "closed" ELSE @,
                   !.button = LastPost(d) = "refused"]
<1>1. /\ TypeOK /\ dialog[d] \in DialogType /\ dialog[d].waiting
      /\ Prepared(d) /\ Accounted(d) /\ dialog \in [Dialogs -> DialogType]
      /\ posts \in [Dialogs -> Seq(Posts)] /\ lost \in [Dialogs -> Nat]
  BY DEF DialogInv, TypeOK, Answered
<1>2. dialog' = [dialog EXCEPT ![d] = x] /\ dialog'[d] = x
  BY <1>1 DEF Answered
<1>3. /\ x \in DialogType /\ x.waiting = FALSE
      /\ x.window = IF LastPost(d) = "stored" THEN "closed" ELSE dialog[d].window
      /\ x.button = (LastPost(d) = "refused") /\ x.rule = dialog[d].rule
      /\ x.change = dialog[d].change /\ x.values = dialog[d].values
  BY <1>1 DEF DialogType
<1>4. UNCHANGED <<page, rule, published, contexts, posts, turns, lost>>
  BY DEF Answered
<1> HIDE DEF x
<1>5. Live(d)' = Live(d) /\ Earlier(d)' = Earlier(d)
  BY <1>4 DEF Live, Earlier
<1>6. posts[d] # <<>> /\ dialog[d].window # "none"
  BY <1>1 DEF Accounted, Prepared
<1>7. Len(posts[d]) \in DOMAIN posts[d] /\ LastPost(d) \in {"stored", "refused"}
  <2>1. posts[d] \in Seq(Posts)
    BY <1>1
  <2>2. Len(posts[d]) \in 1 .. Len(posts[d])
    BY <1>6, <2>1, EmptySeq
  <2> QED
    BY <2>1, <2>2 DEF LastPost, Posts, Answered
<1>8. LastPost(d) = "refused" => Cardinality(Live(d)) <= lost[d]
  <2>1. LastPost(d) = "refused" => Len(posts[d]) \notin Live(d)
    BY DEF Live, LastPost
  <2> QED
    BY <1>1, <2>1, PostsCounted DEF Accounted
<1>9. Accounted(d)'
  BY <1>1, <1>2, <1>3, <1>4, <1>5, <1>7, <1>8 DEF Accounted
<1>10. Prepared(d)'
  BY <1>1, <1>2, <1>3, <1>6, StaysPrepared
<1> QED
  BY <1>1, <1>2, <1>3, <1>4, <1>9, <1>10, OneDialog

LEMMA LossKeeps ==
  ASSUME DialogInv, NEW d \in Dialogs, LoseAnswer(d)
  PROVE  DialogInv'
<1> DEFINE x == [dialog[d] EXCEPT !.waiting = FALSE, !.button = TRUE]
<1>1. /\ TypeOK /\ dialog[d] \in DialogType /\ dialog[d].waiting
      /\ Prepared(d) /\ Accounted(d) /\ dialog \in [Dialogs -> DialogType]
      /\ posts \in [Dialogs -> Seq(Posts)] /\ lost \in [Dialogs -> Nat]
  BY DEF DialogInv, TypeOK, LoseAnswer
<1>2. dialog' = [dialog EXCEPT ![d] = x] /\ dialog'[d] = x
  BY <1>1 DEF LoseAnswer
<1>3. /\ x \in DialogType /\ x.waiting = FALSE /\ x.window = dialog[d].window
      /\ x.button = TRUE /\ x.rule = dialog[d].rule
      /\ x.change = dialog[d].change /\ x.values = dialog[d].values
  BY <1>1 DEF DialogType
<1>4. UNCHANGED <<page, rule, published, contexts, posts, turns>>
  BY DEF LoseAnswer
<1>5. /\ lost' \in [Dialogs -> Nat] /\ lost'[d] = lost[d] + 1
      /\ \A e \in Dialogs \ {d} : lost'[e] = lost[e]
  BY <1>1 DEF LoseAnswer
<1> HIDE DEF x
<1>6. Live(d)' = Live(d) /\ Earlier(d)' = Earlier(d)
  BY <1>4 DEF Live, Earlier
<1>7. /\ Cardinality(Live(d)) <= 1 + lost[d] /\ dialog[d].window # "none"
      /\ Cardinality(Live(d)) \in Nat /\ lost[d] \in Nat
  BY <1>1, PostsCounted DEF Accounted, Prepared
<1>8. Accounted(d)'
  BY <1>2, <1>3, <1>5, <1>6, <1>7 DEF Accounted
<1>9. Prepared(d)'
  BY <1>1, <1>2, <1>3, <1>7, StaysPrepared
<1> QED
  BY <1>1, <1>2, <1>3, <1>4, <1>5, <1>8, <1>9, OneDialog

(* The server decides on a POST: nothing but that POST changes.            *)
LEMMA ProcessMarks ==
  ASSUME TypeOK, NEW d \in Dialogs, NEW k \in DOMAIN posts[d],
         NEW result \in {"stored", "refused"}, Process(d, k, result)
  PROVE  /\ posts' \in [Dialogs -> Seq(Posts)]
         /\ posts'[d] \in Seq(Posts) /\ Len(posts'[d]) = Len(posts[d])
         /\ DOMAIN posts'[d] = DOMAIN posts[d]
         /\ posts'[d][k] = result /\ posts[d][k] = "sent"
         /\ \A j \in DOMAIN posts[d] \ {k} : posts'[d][j] = posts[d][j]
         /\ \A e \in Dialogs \ {d} : posts'[e] = posts[e]
         /\ UNCHANGED <<page, rule, published, contexts, dialog, turns, lost>>
<1>1. posts \in [Dialogs -> Seq(Posts)] /\ posts[d] \in Seq(Posts)
  BY DEF TypeOK
<1>2. posts' = [posts EXCEPT ![d] = [posts[d] EXCEPT ![k] = result]]
  BY <1>1 DEF Process
<1>3. result \in Posts
  BY DEF Posts
<1>4. /\ [posts[d] EXCEPT ![k] = result] \in Seq(Posts)
      /\ Len([posts[d] EXCEPT ![k] = result]) = Len(posts[d])
      /\ DOMAIN [posts[d] EXCEPT ![k] = result] = DOMAIN posts[d]
  BY <1>1, <1>3, ExceptSeq
<1>5. posts'[d] = [posts[d] EXCEPT ![k] = result]
  BY <1>1, <1>2
<1> QED
  BY <1>1, <1>2, <1>4, <1>5 DEF Process

LEMMA ProcessKeeps ==
  ASSUME DialogInv, NEW d \in Dialogs, NEW k \in DOMAIN posts[d],
         NEW result \in {"stored", "refused"}, Process(d, k, result)
  PROVE  DialogInv'
<1>1. TypeOK /\ Prepared(d) /\ Accounted(d) /\ lost[d] \in Nat
  BY PostsCounted DEF DialogInv
<1>2. /\ posts' \in [Dialogs -> Seq(Posts)]
      /\ Len(posts'[d]) = Len(posts[d]) /\ DOMAIN posts'[d] = DOMAIN posts[d]
      /\ posts'[d][k] = result /\ posts[d][k] = "sent"
      /\ \A j \in DOMAIN posts[d] \ {k} : posts'[d][j] = posts[d][j]
      /\ \A e \in Dialogs \ {d} : posts'[e] = posts[e]
      /\ UNCHANGED <<page, rule, published, contexts, dialog, turns, lost>>
  BY <1>1, ProcessMarks
<1>3. TypeOK'
  BY <1>1, <1>2 DEF TypeOK
<1>4. Live(d)' \subseteq Live(d) /\ Earlier(d)' \subseteq Earlier(d)
  BY <1>2 DEF Live, Earlier
<1>5. /\ Cardinality(Live(d)') \in Nat /\ Cardinality(Earlier(d)') \in Nat
      /\ Cardinality(Live(d)) \in Nat /\ Cardinality(Earlier(d)) \in Nat
      /\ Cardinality(Live(d)') <= Cardinality(Live(d))
      /\ Cardinality(Earlier(d)') <= Cardinality(Earlier(d))
  BY <1>1, <1>4, PostsCounted, FS_Subset, FS_CardinalityType
<1>6. posts[d] # <<>> /\ posts'[d] # <<>>
  BY <1>2
<1>7. Accounted(d)'
  BY <1>1, <1>2, <1>5, <1>6 DEF Accounted
<1>8. Prepared(d)'
  BY <1>1, <1>2, <1>6, StaysPrepared DEF Prepared
<1>9. ASSUME NEW e \in Dialogs \ {d} PROVE Prepared(e)' /\ Accounted(e)'
  BY <1>2, Untouched DEF DialogInv
<1> QED
  BY <1>3, <1>7, <1>8, <1>9 DEF DialogInv

(* The page goes on, or a policy is published.                             *)
LEMMA SurroundingsKeep ==
  ASSUME DialogInv, TurnPage \/ Publish
  PROVE  DialogInv'
<1>1. UNCHANGED <<contexts, dialog, posts, lost>>
  BY DEF TurnPage, Turn, Publish
<1>2. TypeOK'
  <2>1. CASE TurnPage
    <3>1. PICK p \in Pages, r \in Loadable(published) \cup {rule, NoRule} : Turn(p, r)
      BY <2>1 DEF TurnPage
    <3>2. r \in Rules \cup {NoRule}
      BY DEF Loadable, DialogInv, TypeOK
    <3> QED
      BY <3>1, <3>2 DEF Turn, DialogInv, TypeOK
  <2>2. CASE Publish
    BY <2>2, DialogAssumption DEF Publish, DialogInv, TypeOK, Policies
  <2> QED
    BY <2>1, <2>2
<1> QED
  BY <1>1, <1>2, Untouched DEF DialogInv

LEMMA DialogStep == DialogInv /\ [Next]_vars => DialogInv'
<1> SUFFICES ASSUME DialogInv, [Next]_vars PROVE DialogInv'
  OBVIOUS
<1>1. CASE TurnPage \/ Publish
  BY <1>1, SurroundingsKeep
<1>2. CASE Click
  BY <1>2, ClickKeeps, AskKeeps DEF Click
<1>3. CASE LoadContext
  BY <1>3, ContextKeeps DEF LoadContext
<1>4. CASE Serve
  BY <1>4, ProcessKeeps DEF Serve
<1>5. ASSUME NEW d \in Dialogs,
             Send(d) \/ Cancel(d) \/ Answered(d) \/ LoseAnswer(d)
      PROVE  DialogInv'
  BY <1>5, SendKeeps, CancelKeeps, AnsweredKeeps, LossKeeps
<1>6. CASE UNCHANGED vars
  <2>1. TypeOK'
    BY <1>6 DEF vars, DialogInv, TypeOK
  <2> QED
    BY <1>6, <2>1, Untouched DEF vars, DialogInv
<1> QED
  BY <1>1, <1>2, <1>3, <1>4, <1>5, <1>6 DEF Next

LEMMA DialogStart == Init => DialogInv
<1> SUFFICES ASSUME Init PROVE DialogInv
  OBVIOUS
<1>1. TypeOK
  <2>1. rule \in Rules \cup {NoRule} /\ page \in Pages /\ 1 \in Policies
    BY DialogAssumption DEF Init, Loadable, Policies
  <2>2. <<>> \in Seq(Context) /\ <<>> \in Seq(Posts)
    BY EmptySeq
  <2> QED
    BY <2>1, <2>2, Unpicked DEF Init, TypeOK
<1>2. ASSUME NEW d \in Dialogs PROVE Prepared(d) /\ Accounted(d)
  <2>1. dialog[d] = Unopened /\ posts[d] = <<>> /\ lost[d] = 0
    BY DEF Init
  <2>2. Live(d) = {}
    BY <2>1 DEF Live
  <2> QED
    BY <2>1, <2>2, FS_EmptySet DEF Prepared, Accounted, Unopened
<1> QED
  BY <1>1, <1>2 DEF DialogInv

LEMMA DialogInductive == Spec => []DialogInv
BY DialogStart, DialogStep, PTL DEF Spec
----------------------------------------------------------------------------
(* The variables keep their types, and objects are only asked for to be    *)
(* added.                                                                   *)
THEOREM DialogTyped == Spec => []TypeOK
BY DialogInductive, PTL DEF DialogInv

(* However many clicks, cancelled windows, refusals and lost answers there *)
(* are: a dialog stores its change once, and once more per lost answer.     *)
THEOREM ChangesStoredOnce == Spec => []StoredOnce
<1>1. DialogInv => StoredOnce
  <2> SUFFICES ASSUME DialogInv, NEW d \in Dialogs
               PROVE  Cardinality(Stored(d)) <= 1 + lost[d]
    BY DEF StoredOnce
  <2>1. IsFiniteSet(Live(d)) /\ Cardinality(Live(d)) \in Nat /\ lost[d] \in Nat
    BY PostsCounted DEF DialogInv
  <2>2. Cardinality(Live(d)) <= 1 + lost[d]
    BY DEF DialogInv, Accounted
  <2>3. Stored(d) \subseteq Live(d)
    BY DEF Stored, Live
  <2>4. Cardinality(Stored(d)) <= Cardinality(Live(d)) /\ Cardinality(Stored(d)) \in Nat
    BY <2>1, <2>3, FS_Subset, FS_CardinalityType
  <2> QED
    BY <2>1, <2>2, <2>4
<1> QED
  BY <1>1, DialogInductive, PTL

(* No open dialog is left with its button disabled and no answer to come.  *)
THEOREM DialogsNeverStuck == Spec => []NeverStuck
<1>1. DialogInv => NeverStuck
  BY DEF DialogInv, Accounted, NeverStuck
<1> QED
  BY <1>1, DialogInductive, PTL

(* Steps that open a window or send are clicks, answers of the object list *)
(* and "Antrag senden", and each of them looks at the selection.            *)
LEMMA ActsStep ==
  ASSUME DialogInv, Next, NEW d \in Dialogs,
         \/ dialog'[d].window # dialog[d].window /\ dialog'[d].window = "open"
         \/ Len(posts'[d]) > Len(posts[d])
  PROVE  /\ dialog'[d].rule.service = page.service
         /\ dialog'[d].rule.owner = page.owner
<1>1. TypeOK /\ dialog \in [Dialogs -> DialogType]
  BY DEF DialogInv, TypeOK
<1>2. ASSUME NEW c \in Changes, NEW e \in Dialogs, ClickDirect(e, c)
      PROVE  dialog'[d].rule.service = page.service /\ dialog'[d].rule.owner = page.owner
  <2>1. Fits(rule) /\ Open(e, rule, c, Offered(rule, c)) /\ posts' = posts
    BY <1>2 DEF ClickDirect
  <2>2. e = d
    BY <1>1, <2>1 DEF Open
  <2>3. dialog'[d].rule = rule
    BY <1>1, <2>1, <2>2 DEF Open
  <2> QED
    BY <2>1, <2>3 DEF Fits
<1>3. ASSUME NEW i \in DOMAIN contexts, NEW e \in Dialogs, NEW o \in SUBSET Objects,
             ContextLoaded(i, e, o)
      PROVE  dialog'[d].rule.service = page.service /\ dialog'[d].rule.owner = page.owner
  <2> DEFINE q == contexts[i]
  <2>1. /\ Options(q, o) # {} /\ Open(e, q.rule, q.change, Options(q, o))
        /\ posts' = posts
    BY <1>3 DEF ContextLoaded
  <2>2. e = d
    BY <1>1, <2>1 DEF Open
  <2>3. dialog'[d].rule = q.rule
    BY <1>1, <2>1, <2>2 DEF Open
  <2> QED
    BY <2>1, <2>3 DEF Options
<1>4. ASSUME NEW e \in Dialogs, Send(e)
      PROVE  dialog'[d].rule.service = page.service /\ dialog'[d].rule.owner = page.owner
  <2>1. /\ Fits(dialog[e].rule) /\ dialog' = [dialog EXCEPT ![e] = Sending(dialog[e])]
        /\ posts' = [posts EXCEPT ![e] = Append(posts[e], "sent")]
        /\ dialog[e] \in DialogType
    BY <1>1, <1>4 DEF Send
  <2>2. e = d
    BY <1>1, <2>1 DEF TypeOK
  <2>3. dialog'[d].rule = dialog[d].rule
    BY <1>1, <2>1, <2>2 DEF Sending, DialogType
  <2> QED
    BY <2>1, <2>2, <2>3 DEF Fits
<1>5. ASSUME NEW e \in Dialogs, Cancel(e) \/ Answered(e) \/ LoseAnswer(e) PROVE FALSE
  <2>1. posts' = posts /\ dialog'[d].window \in {dialog[d].window, "closed"}
    BY <1>1, <1>5 DEF Cancel, Answered, LoseAnswer, DialogType
  <2> QED
    BY <2>1 DEF TypeOK
<1>6. CASE Serve
  <2>1. PICK e \in Dialogs, result \in {"stored", "refused"} :
          \E k \in DOMAIN posts[e] : Process(e, k, result)
    BY <1>6 DEF Serve
  <2>2. dialog' = dialog /\ Len(posts'[d]) = Len(posts[d])
    BY <1>1, <2>1, ProcessMarks
  <2> QED
    BY <2>2, PostsCounted, <1>1
<1>7. CASE TurnPage \/ Publish \/ \E c \in Changes : ClickContext(c)
  <2>1. dialog' = dialog /\ posts' = posts
    BY <1>7 DEF TurnPage, Turn, Publish, ClickContext
  <2> QED
    BY <2>1, <1>1, PostsCounted
<1> QED
  BY <1>2, <1>3, <1>4, <1>5, <1>6, <1>7 DEF Next, Click, LoadContext

(* Whatever was clicked or asked for before: what is opened or sent is for *)
(* the service and the owner on the page.                                   *)
THEOREM DialogsActOnSelection == Spec => ActsOnSelection
<1>1. DialogInv /\ [Next]_vars =>
        [\A d \in Dialogs :
           (dialog'[d].window # dialog[d].window /\ dialog'[d].window = "open")
             \/ Len(posts'[d]) > Len(posts[d])
           => /\ dialog'[d].rule.service = page.service
              /\ dialog'[d].rule.owner = page.owner]_vars
  BY ActsStep
<1> QED
  BY <1>1, DialogInductive, PTL DEF Spec, ActsOnSelection

(* Only the server stores, what the dialog was prepared for and in its     *)
(* policy.                                                                  *)
LEMMA StoredStep ==
  ASSUME DialogInv, Next, NEW d \in Dialogs, Stored(d)' # Stored(d)
  PROVE  /\ dialog[d].window # "none"
         /\ dialog[d].rule.base = published
<1>1. TypeOK /\ posts[d] \in Seq(Posts)
  BY DEF DialogInv, TypeOK
<1>2. posts'[d] # posts[d]
  BY DEF Stored
<1>3. ~\E e \in Dialogs : Send(e)
  <2> SUFFICES ASSUME NEW e \in Dialogs, Send(e) PROVE FALSE
    OBVIOUS
  <2>1. posts' = [posts EXCEPT ![e] = Append(posts[e], "sent")]
    BY DEF Send
  <2>2. posts'[d] = Append(posts[d], "sent")
    BY <1>1, <1>2, <2>1 DEF TypeOK
  <2>3. "sent" \in Posts
    BY DEF Posts
  <2>4. /\ posts'[d] \in Seq(Posts) /\ Len(posts'[d]) = Len(posts[d]) + 1
        /\ \A i \in 1 .. Len(posts[d]) : posts'[d][i] = posts[d][i]
        /\ posts'[d][Len(posts[d]) + 1] = "sent"
    BY <1>1, <2>2, <2>3, AppendProperties
  <2>5. Stored(d)' = Stored(d)
    BY <1>1, <2>4 DEF Stored
  <2> QED
    BY <2>5
<1>4. PICK e \in Dialogs, result \in {"stored", "refused"} :
        \E k \in DOMAIN posts[e] : Process(e, k, result)
  BY <1>2, <1>3 DEF Next, TurnPage, Turn, Publish, Click, ClickDirect, ClickContext,
     LoadContext, ContextLoaded, Serve, Cancel, Answered, LoseAnswer
<1>5. PICK k \in DOMAIN posts[e] : Process(e, k, result)
  BY <1>4
<1>6. e = d
  BY <1>1, <1>2, <1>5, ProcessMarks
<1>7. result = "stored"
  <2>1. ASSUME result = "refused" PROVE Stored(d)' = Stored(d)
    BY <1>1, <1>5, <1>6, <2>1, ProcessMarks DEF Stored
  <2> QED
    BY <2>1
<1>8. posts[d] # <<>>
  BY <1>5, <1>6
<1> QED
  BY <1>5, <1>6, <1>7, <1>8 DEF Process, DialogInv, Prepared

(* Every stored change is possible in the policy it is stored for, though  *)
(* it was prepared, asked and sent under whatever policy there was then.    *)
THEOREM StoredChangesPossible == Spec => StoredChangeIsPossible
<1>1. ASSUME DialogInv, Next, NEW d \in Dialogs, Stored(d)' # Stored(d)
      PROVE  LET has == RuleValues[published][dialog[d].change.field]
             IN IF dialog[d].change.operation = "remove"
                THEN /\ dialog[d].values \subseteq has
                     /\ Cardinality(has) > 1
                ELSE NeedsContext(dialog[d].change) =>
                       dialog[d].values \cap has = {}
  <2>1. dialog[d].window # "none" /\ dialog[d].rule.base = published
    BY <1>1, StoredStep
  <2>2. Possible(dialog[d])
    BY <1>1, <2>1 DEF DialogInv, Prepared
  <2> QED
    BY <2>1, <2>2 DEF Possible, CurrentValues
<1>2. DialogInv /\ [Next]_vars =>
        [\A d \in Dialogs : Stored(d)' # Stored(d) =>
           LET has == RuleValues[published][dialog[d].change.field]
           IN IF dialog[d].change.operation = "remove"
              THEN /\ dialog[d].values \subseteq has
                   /\ Cardinality(has) > 1
              ELSE NeedsContext(dialog[d].change) =>
                     dialog[d].values \cap has = {}]_vars
  BY <1>1
<1> QED
  BY <1>2, DialogInductive, PTL DEF Spec, StoredChangeIsPossible
============================================================================
