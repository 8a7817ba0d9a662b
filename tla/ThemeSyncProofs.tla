-------------------------- MODULE ThemeSyncProofs --------------------------
(* What holds of the theme in any number of pages, for any bounds.         *)
EXTENDS ThemeSync, SequenceTheorems, TLAPS

PageRecord == [stage: {"closed", "parsing", "ready"}, theme: Shown,
               html: Shown, body: Shown, switch: Shown, button: Shown,
               seen: Shown]

(* A page record that shows one theme everywhere.                          *)
Consistent(r) ==
  /\ r \in PageRecord
  /\ r.stage = "closed" => r.button = "none"
  /\ r.stage # "closed" => /\ r.theme \in Themes /\ r.html = r.theme
                           /\ r.seen \in Themes
  /\ r.stage = "parsing" => r.switch = "none" /\ r.button = "none"
  /\ r.stage = "ready" => r.body = r.theme /\ r.switch = r.theme
  /\ r.button \in {"none", r.theme}

Typed == /\ stored \in Values /\ system \in Themes
         /\ page \in [Pages -> PageRecord]
         /\ news \in [Pages -> Seq(Values)]
         /\ writes \in Nat /\ turns \in Nat

PagesConsistent == \A p \in Pages : Consistent(page[p])

(* Events are queued for pages that can hear them.                         *)
NewsForReached == \A p \in Pages : news[p] # <<>> => Reached(p)

(* What page p shows follows from the news it has and what is stored.      *)
FollowsStored(p) ==
  Reached(p) =>
    /\ news[p] # <<>> => news[p][Len(news[p])] = stored
    /\ news[p] = <<>> /\ stored \in Themes => page[p].theme = stored
    /\ news[p] = <<>> /\ stored \notin Themes /\ page[p].seen = system =>
         page[p].theme = system

PagesInv == Typed /\ PagesConsistent /\ NewsForReached
----------------------------------------------------------------------------
(* Painting a page and applying a theme keep a page consistent.            *)
LEMMA PaintedParsing ==
  ASSUME NEW sys \in Themes, NEW theme \in Themes
  PROVE  LET r == Painted([Unloaded EXCEPT !.stage = "parsing",
                                           !.seen = sys], theme)
         IN Consistent(r) /\ r.stage = "parsing" /\ r.theme = theme
              /\ r.seen = sys
BY DEF Painted, Unloaded, Consistent, PageRecord, Shown, Themes

LEMMA AppliedConsistent ==
  ASSUME NEW r, Consistent(r), r.stage # "closed", NEW theme \in Themes
  PROVE  /\ Consistent(Applied(r, theme))
         /\ Applied(r, theme).stage = r.stage
         /\ Applied(r, theme).theme = theme
         /\ Applied(r, theme).seen = r.seen
BY DEF Applied, Painted, Consistent, PageRecord, Shown, Themes

(* The queues after a write.                                               *)
LEMMA ToldQueues ==
  ASSUME Typed, NEW p \in Pages, NEW value \in Values
  PROVE  /\ Told(p, value) \in [Pages -> Seq(Values)]
         /\ \A q \in Pages :
              Told(p, value)[q] = IF q # p /\ Reached(q)
                                  THEN Append(news[q], value) ELSE news[q]
BY DEF Told, Typed

LEMMA WriteTyped ==
  ASSUME Typed, NEW p \in Pages, NEW value \in Values, Write(p, value)
  PROVE  /\ stored' \in Values /\ news' \in [Pages -> Seq(Values)]
         /\ \A q \in Pages : news'[q] = news[q] \/ Reached(q)
BY ToldQueues DEF Write, Typed

LEMMA ThemesKnown ==
  ASSUME Typed, NEW p \in Pages
  PROVE  /\ Resolved(p) \in Themes
         /\ \A value \in Values : ThemeOf(p, value) \in Themes
         /\ \A theme \in Themes : Opposite(theme) \in Themes
BY DEF Typed, Resolved, ReadStored, ThemeOf, Values, Opposite, Themes
----------------------------------------------------------------------------
(* A step that changes the record of one page only.                        *)
LEMMA OnePage ==
  ASSUME PagesInv, NEW p \in Pages, NEW r,
         page' = [page EXCEPT ![p] = r], Consistent(r),
         stored' \in Values, system' \in Themes,
         news' \in [Pages -> Seq(Values)], writes' \in Nat, turns' \in Nat,
         \A q \in Pages : news'[q] # <<>> =>
            (IF q = p THEN p \notin Blocked /\ r.stage # "closed"
             ELSE Reached(q))
  PROVE  PagesInv'
<1>1. r \in PageRecord
  BY DEF Consistent
<1>2. Typed'
  BY <1>1 DEF PagesInv, Typed
<1>3. \A q \in Pages : page'[q] = IF q = p THEN r ELSE page[q]
  BY DEF PagesInv, Typed
<1>4. PagesConsistent'
  BY <1>3 DEF PagesInv, PagesConsistent
<1>5. NewsForReached'
  BY <1>3 DEF NewsForReached, Reached, Loaded
<1> QED
  BY <1>2, <1>4, <1>5 DEF PagesInv

LEMMA LoadKeeps ==
  ASSUME PagesInv, NEW p \in Pages, Load(p) PROVE PagesInv'
<1> DEFINE r == Painted([Unloaded EXCEPT !.stage = "parsing", !.seen = system],
                        Resolved(p))
<1>1. Consistent(r)
  BY PaintedParsing, ThemesKnown DEF PagesInv, Typed
<1>2. page' = [page EXCEPT ![p] = r]
  BY DEF Load
<1>3. news[p] = <<>>
  BY DEF PagesInv, NewsForReached, Reached, Loaded, Load
<1> HIDE DEF r
<1>4. \A q \in Pages : news[q] # <<>> => q # p /\ Reached(q)
  BY <1>3 DEF PagesInv, NewsForReached
<1> QED
  BY <1>1, <1>2, <1>4, OnePage DEF Load, PagesInv, Typed

LEMMA ParsedKeeps ==
  ASSUME PagesInv, NEW p \in Pages, Parsed(p) PROVE PagesInv'
<1> DEFINE r == [Painted([page[p] EXCEPT !.stage = "ready"], page[p].theme)
                   EXCEPT !.switch = page[p].theme]
<1>1. Consistent(page[p]) /\ page[p].stage = "parsing"
  BY DEF Parsed, PagesInv, PagesConsistent
<1>2. Consistent(r) /\ r.stage = "ready"
  BY <1>1 DEF Painted, Consistent, PageRecord, Shown, Themes
<1>3. page' = [page EXCEPT ![p] = r]
  BY DEF Parsed
<1> HIDE DEF r
<1>4. \A q \in Pages : news[q] # <<>> => Reached(q)
  BY DEF PagesInv, NewsForReached
<1> QED
  BY <1>2, <1>3, <1>4, OnePage DEF Parsed, PagesInv, Typed, Reached

LEMMA LaunchKeeps ==
  ASSUME PagesInv, NEW p \in Pages, LaunchApplication(p) PROVE PagesInv'
<1> DEFINE r == [page[p] EXCEPT !.button = page[p].theme]
<1>1. Consistent(page[p]) /\ page[p].stage = "ready"
  BY DEF LaunchApplication, PagesInv, PagesConsistent
<1>2. Consistent(r) /\ r.stage = "ready"
  BY <1>1 DEF Consistent, PageRecord, Shown, Themes
<1>3. page' = [page EXCEPT ![p] = r]
  BY DEF LaunchApplication
<1> HIDE DEF r
<1>4. \A q \in Pages : news[q] # <<>> => Reached(q)
  BY DEF PagesInv, NewsForReached
<1> QED
  BY <1>2, <1>3, <1>4, OnePage DEF LaunchApplication, PagesInv, Typed, Reached

LEMMA CloseKeeps ==
  ASSUME PagesInv, NEW p \in Pages, Close(p) PROVE PagesInv'
<1>1. Consistent(Unloaded)
  BY DEF Consistent, Unloaded, PageRecord, Shown
<1>2. \A q \in Pages : news'[q] = IF q = p THEN <<>> ELSE news[q]
  BY DEF Close, PagesInv, Typed
<1>3. news' \in [Pages -> Seq(Values)]
  BY DEF Close, PagesInv, Typed
<1>4. page' = [page EXCEPT ![p] = Unloaded]
  BY DEF Close
<1>5. \A q \in Pages : news'[q] # <<>> => q # p /\ Reached(q)
  BY <1>2 DEF PagesInv, NewsForReached
<1> QED
  BY <1>1, <1>3, <1>4, <1>5, OnePage DEF Close, PagesInv, Typed

(* Both choices of the user apply a theme and write a value.               *)
LEMMA ChoiceKeeps ==
  ASSUME PagesInv, NEW p \in Pages, NEW theme \in Themes, NEW value \in Values,
         page[p].stage = "ready", Budget, Write(p, value),
         page' = [page EXCEPT ![p] = Applied(@, theme)],
         UNCHANGED <<system, turns>>
  PROVE  PagesInv'
<1> DEFINE r == Applied(page[p], theme)
<1>1. Consistent(r) /\ r.stage = "ready"
  BY AppliedConsistent DEF PagesInv, PagesConsistent
<1>2. page' = [page EXCEPT ![p] = r]
  OBVIOUS
<1> HIDE DEF r
<1>3. /\ stored' \in Values /\ news' \in [Pages -> Seq(Values)]
      /\ \A q \in Pages : news'[q] = news[q] \/ Reached(q)
  BY WriteTyped DEF PagesInv
<1>4. \A q \in Pages : news'[q] # <<>> => Reached(q)
  BY <1>3 DEF PagesInv, NewsForReached
<1>5. \A q \in Pages : news'[q] # <<>> =>
        (IF q = p THEN p \notin Blocked /\ r.stage # "closed" ELSE Reached(q))
  BY <1>1, <1>4 DEF Reached
<1>6. system' \in Themes /\ writes' \in Nat /\ turns' \in Nat
  BY DEF PagesInv, Typed, Budget
<1> QED
  BY <1>1, <1>2, <1>3, <1>5, <1>6, OnePage

LEMMA HearStorageKeeps ==
  ASSUME PagesInv, NEW p \in Pages, HearStorage(p) PROVE PagesInv'
<1> DEFINE r == Applied(page[p], ThemeOf(p, Head(news[p])))
<1>1. Reached(p) /\ news[p] \in Seq(Values) /\ news[p] # <<>>
  BY DEF HearStorage, PagesInv, NewsForReached, Typed
<1>2. Head(news[p]) \in Values /\ Tail(news[p]) \in Seq(Values)
  BY <1>1
<1>3. Consistent(r) /\ r.stage # "closed"
  BY <1>1, <1>2, ThemesKnown, AppliedConsistent
     DEF PagesInv, PagesConsistent, Reached, Loaded
<1>4. page' = [page EXCEPT ![p] = r]
  BY DEF HearStorage
<1> HIDE DEF r
<1>5. news' \in [Pages -> Seq(Values)]
  BY <1>2 DEF HearStorage, PagesInv, Typed
<1>6. \A q \in Pages : news'[q] # <<>> => Reached(q)
  BY <1>1 DEF HearStorage, PagesInv, NewsForReached, Typed
<1> QED
  BY <1>3, <1>4, <1>5, <1>6, OnePage DEF HearStorage, PagesInv, Typed, Reached

LEMMA HearSystemKeeps ==
  ASSUME PagesInv, NEW p \in Pages, HearSystem(p) PROVE PagesInv'
<1> DEFINE told == [page[p] EXCEPT !.seen = system]
           r == IF FollowsSystem(p) THEN Applied(told, system) ELSE told
<1>1. Consistent(page[p]) /\ page[p].stage # "closed" /\ system \in Themes
  BY DEF HearSystem, PagesInv, PagesConsistent, Loaded, Typed
<1>2. Consistent(told) /\ told.stage = page[p].stage
  BY <1>1 DEF Consistent, PageRecord, Shown
<1> HIDE DEF told
<1>3. Consistent(r) /\ r.stage # "closed"
  BY <1>1, <1>2, AppliedConsistent
<1>4. page' = [page EXCEPT ![p] = r]
  BY DEF HearSystem, told
<1> HIDE DEF r
<1>5. \A q \in Pages : news[q] # <<>> => Reached(q)
  BY DEF PagesInv, NewsForReached
<1> QED
  BY <1>1, <1>3, <1>4, <1>5, OnePage DEF HearSystem, PagesInv, Typed, Reached

(* Steps that leave the pages alone.                                       *)
LEMMA TamperKeeps == ASSUME PagesInv, Tamper PROVE PagesInv'
<1>1. \A q \in Pages : news'[q] = news[q] \/ Reached(q)
  BY DEF Tamper
<1>2. Typed'
  BY DEF Tamper, PagesInv, Typed, Budget, Values
<1>3. PagesConsistent'
  BY DEF Tamper, PagesInv, PagesConsistent
<1>4. NewsForReached'
  BY <1>1 DEF Tamper, PagesInv, NewsForReached, Reached, Loaded
<1> QED
  BY <1>2, <1>3, <1>4 DEF PagesInv

LEMMA SystemTurnsKeeps == ASSUME PagesInv, SystemTurns PROVE PagesInv'
BY DEF SystemTurns, Opposite, Themes, PagesInv, Typed, PagesConsistent,
       NewsForReached, Reached, Loaded

LEMMA PagesInductive == Spec => []PagesInv
<1>1. Init => PagesInv
  BY DEF Init, PagesInv, Typed, PagesConsistent, Consistent, NewsForReached,
         Unloaded, PageRecord, Shown
<1>2. PagesInv /\ [Next]_vars => PagesInv'
  <2> SUFFICES ASSUME PagesInv, [Next]_vars
               PROVE  PagesInv'
    OBVIOUS
  <2>1. CASE UNCHANGED vars
    BY <2>1 DEF vars, PagesInv, Typed, PagesConsistent, NewsForReached,
                Reached, Loaded
  <2>2. ASSUME NEW p \in Pages,
               Load(p) \/ Parsed(p) \/ LaunchApplication(p) \/ Close(p)
        PROVE  PagesInv'
    BY <2>2, LoadKeeps, ParsedKeeps, LaunchKeeps, CloseKeeps
  <2>3. ASSUME NEW p \in Pages, Toggle(p)
        PROVE  PagesInv'
    <3>1. Opposite(page[p].theme) \in Themes
      BY DEF Opposite, Themes
    <3> QED
      BY <2>3, <3>1, ChoiceKeeps DEF Toggle, Values
  <2>4. ASSUME NEW p \in Pages, UseSystemPreference(p)
        PROVE  PagesInv'
    BY <2>4, ChoiceKeeps DEF UseSystemPreference, Values, PagesInv, Typed
  <2>5. ASSUME NEW p \in Pages, HearStorage(p) \/ HearSystem(p)
        PROVE  PagesInv'
    BY <2>5, HearStorageKeeps, HearSystemKeeps
  <2>6. CASE Tamper \/ SystemTurns
    BY <2>6, TamperKeeps, SystemTurnsKeeps
  <2> QED
    BY <2>1, <2>2, <2>3, <2>4, <2>5, <2>6 DEF Next
<1> QED
  BY <1>1, <1>2, PTL DEF Spec
----------------------------------------------------------------------------
(* All values stay in their domains, however pages load, close and choose. *)
THEOREM PagesTyped == Spec => []TypeOK
<1>1. PagesInv => TypeOK
  BY DEF PagesInv, Typed, TypeOK, PageRecord
<1> QED
  BY <1>1, PagesInductive, PTL

(* In every page the document and both kinds of buttons show the theme the *)
(* page's script believes in, at every moment, for any number of pages.     *)
THEOREM SwitchesTruthful == Spec => []SwitchesTellTheTruth
<1>1. PagesInv => SwitchesTellTheTruth
  BY DEF PagesInv, PagesConsistent, Consistent, SwitchesTellTheTruth, Loaded
<1> QED
  BY <1>1, PagesInductive, PTL
----------------------------------------------------------------------------
(* From here on: no click outruns the news.                                *)

(* A page's claim is not touched by a step that leaves its record and its  *)
(* news, the stored value and the system's preference alone.                *)
LEMMA CalmPage ==
  ASSUME NEW q \in Pages, FollowsStored(q), page'[q] = page[q],
         news'[q] = news[q], stored' = stored, system' = system
  PROVE  FollowsStored(q)'
BY DEF FollowsStored, Reached, Loaded

(* A page told of a new value.                                             *)
LEMMA NewsOfValue ==
  ASSUME NEW q \in Pages, NEW value \in Values, news[q] \in Seq(Values),
         news'[q] = Append(news[q], value), stored' = value
  PROVE  FollowsStored(q)'
<1>1. news'[q] # <<>> /\ news'[q][Len(news'[q])] = value
  OBVIOUS
<1> QED
  BY <1>1 DEF FollowsStored

(* A choice made in p, which has heard all the news.                       *)
LEMMA ChoiceFollowed ==
  ASSUME PagesInv, \A q \in Pages : FollowsStored(q),
         NEW p \in Pages, NEW theme \in Themes, NEW value \in Values,
         value = theme \/ (value = "none" /\ theme = system),
         page[p].stage = "ready", news[p] = <<>>, Write(p, value),
         page' = [page EXCEPT ![p] = Applied(@, theme)], system' = system
  PROVE  \A q \in Pages : FollowsStored(q)'
<1> SUFFICES ASSUME NEW q \in Pages PROVE FollowsStored(q)'
  OBVIOUS
<1> DEFINE r == Applied(page[p], theme)
<1>1. r.theme = theme /\ r.stage = "ready"
  BY AppliedConsistent DEF PagesInv, PagesConsistent
<1>2. page'[q] = IF q = p THEN r ELSE page[q]
  BY DEF PagesInv, Typed
<1> HIDE DEF r
<1>3. news[q] \in Seq(Values) /\ FollowsStored(q)
  BY DEF PagesInv, Typed
<1>4. CASE p \in Blocked
  <2>1. stored' = stored /\ news' = news
    BY <1>4 DEF Write
  <2>2. CASE q = p
    BY <2>2, <1>4 DEF FollowsStored, Reached
  <2>3. CASE q # p
    BY <2>3, <2>1, <1>2, <1>3, CalmPage
  <2> QED
    BY <2>2, <2>3
<1>5. CASE p \notin Blocked /\ value = stored
  <2>1. stored' = stored /\ news' = news
    BY <1>5 DEF Write
  <2>2. CASE q = p
    <3>1. page'[q].theme = theme /\ news'[q] = <<>>
      BY <2>1, <2>2, <1>1, <1>2
    <3> QED
      BY <3>1, <2>1, <1>5 DEF FollowsStored, Themes
  <2>3. CASE q # p
    BY <2>3, <2>1, <1>2, <1>3, CalmPage
  <2> QED
    BY <2>2, <2>3
<1>6. CASE p \notin Blocked /\ value # stored
  <2>1. /\ stored' = value
        /\ news'[q] = IF q # p /\ Reached(q) THEN Append(news[q], value)
                      ELSE news[q]
    BY <1>6, ToldQueues DEF Write, PagesInv
  <2>2. CASE q = p
    <3>1. page'[q].theme = theme /\ news'[q] = <<>>
      BY <2>1, <2>2, <1>1, <1>2
    <3> QED
      BY <3>1, <2>1 DEF FollowsStored, Themes
  <2>3. CASE q # p /\ Reached(q)
    BY <2>1, <2>3, <1>3, NewsOfValue
  <2>4. CASE q # p /\ ~Reached(q)
    <3>1. ~Reached(q)'
      BY <2>4, <1>2 DEF Reached, Loaded
    <3> QED
      BY <3>1 DEF FollowsStored
  <2> QED
    BY <2>2, <2>3, <2>4
<1> QED
  BY <1>4, <1>5, <1>6

LEMMA LoadFollowed ==
  ASSUME PagesInv, \A q \in Pages : FollowsStored(q),
         NEW p \in Pages, Load(p)
  PROVE  \A q \in Pages : FollowsStored(q)'
<1> SUFFICES ASSUME NEW q \in Pages PROVE FollowsStored(q)'
  OBVIOUS
<1> DEFINE r == Painted([Unloaded EXCEPT !.stage = "parsing", !.seen = system],
                        Resolved(p))
<1>1. r.theme = Resolved(p)
  BY PaintedParsing, ThemesKnown DEF PagesInv, Typed
<1>2. page'[q] = IF q = p THEN r ELSE page[q]
  BY DEF Load, PagesInv, Typed
<1>3. news[p] = <<>>
  BY DEF PagesInv, NewsForReached, Reached, Loaded, Load
<1> HIDE DEF r
<1>4. CASE q = p
  <2>1. page'[q].theme = Resolved(p) /\ news'[q] = <<>>
    BY <1>1, <1>2, <1>3, <1>4 DEF Load
  <2> QED
    BY <2>1, <1>4
       DEF FollowsStored, Reached, Resolved, ReadStored, Load, Themes
<1>5. CASE q # p
  BY <1>2, <1>5, CalmPage DEF Load
<1> QED
  BY <1>4, <1>5

(* The body, the buttons and a page that closes matter to no claim.        *)
LEMMA DisplayFollowed ==
  ASSUME PagesInv, \A q \in Pages : FollowsStored(q), NEW p \in Pages,
         Parsed(p) \/ LaunchApplication(p) \/ Close(p)
  PROVE  \A q \in Pages : FollowsStored(q)'
<1> SUFFICES ASSUME NEW q \in Pages PROVE FollowsStored(q)'
  OBVIOUS
<1>1. page[p] \in PageRecord /\ page \in [Pages -> PageRecord]
        /\ news \in [Pages -> Seq(Values)]
  BY DEF PagesInv, Typed
<1>2. stored' = stored /\ system' = system
  BY DEF Parsed, LaunchApplication, Close
<1>3. CASE q # p
  <2>1. page'[q] = page[q] /\ news'[q] = news[q]
    BY <1>1, <1>3 DEF Parsed, LaunchApplication, Close
  <2> QED
    BY <2>1, <1>2, CalmPage
<1>4. CASE q = p /\ Close(p)
  <2>1. page'[q] = Unloaded
    BY <1>1, <1>4 DEF Close
  <2> QED
    BY <2>1 DEF FollowsStored, Reached, Loaded, Unloaded
<1>5. CASE q = p /\ (Parsed(p) \/ LaunchApplication(p))
  <2>1. /\ page'[q].theme = page[q].theme
        /\ page'[q].seen = page[q].seen
        /\ page[q].stage # "closed"
        /\ news' = news
    <3>1. CASE Parsed(p)
      <4>1. page'[p] = [Painted([page[p] EXCEPT !.stage = "ready"], page[p].theme)
                          EXCEPT !.switch = page[p].theme]
        BY <1>1, <3>1 DEF Parsed
      <4> QED
        BY <4>1, <1>1, <1>5, <3>1 DEF Parsed, Painted, PageRecord
    <3>2. CASE LaunchApplication(p)
      <4>1. page'[p] = [page[p] EXCEPT !.button = page[p].theme]
        BY <1>1, <3>2 DEF LaunchApplication
      <4> QED
        BY <4>1, <1>1, <1>5, <3>2 DEF LaunchApplication, PageRecord
    <3> QED
      BY <3>1, <3>2, <1>5
  <2> QED
    BY <2>1, <1>2, <1>5 DEF FollowsStored, Reached, Loaded
<1> QED
  BY <1>3, <1>4, <1>5

LEMMA HearStorageFollowed ==
  ASSUME PagesInv, \A q \in Pages : FollowsStored(q),
         NEW p \in Pages, HearStorage(p)
  PROVE  \A q \in Pages : FollowsStored(q)'
<1> SUFFICES ASSUME NEW q \in Pages PROVE FollowsStored(q)'
  OBVIOUS
<1> DEFINE n == news[p]
           r == Applied(page[p], ThemeOf(p, Head(n)))
<1>1. n \in Seq(Values) /\ n # <<>> /\ Reached(p)
  BY DEF HearStorage, PagesInv, Typed, NewsForReached
<1>2. r.theme = ThemeOf(p, Head(n))
  BY <1>1, ThemesKnown, AppliedConsistent
     DEF PagesInv, PagesConsistent, Reached, Loaded
<1>3. /\ page'[q] = IF q = p THEN r ELSE page[q]
      /\ news'[q] = IF q = p THEN Tail(n) ELSE news[q]
      /\ stored' = stored /\ system' = system
  BY DEF HearStorage, PagesInv, Typed
<1> HIDE DEF r
<1>4. CASE q # p
  BY <1>3, <1>4, CalmPage
<1>5. CASE q = p
  <2>1. n[Len(n)] = stored
    BY <1>1 DEF FollowsStored
  <2> HIDE DEF n
  <2>2. Tail(n) # <<>> => Tail(n)[Len(Tail(n))] = stored
    BY <2>1, <1>1
  <2>3. Tail(n) = <<>> => Head(n) = stored
    <3>1. Len(Tail(n)) = Len(n) - 1 /\ Len(n) \in Nat /\ Head(n) = n[1]
      BY <1>1
    <3>2. Tail(n) = <<>> => Len(Tail(n)) = 0
      BY <1>1, EmptySeq
    <3>3. Tail(n) = <<>> => Len(n) = 1
      BY <3>1, <3>2
    <3> QED
      BY <3>1, <3>3, <2>1
  <2>4. page'[q].theme = ThemeOf(p, Head(n)) /\ news'[q] = Tail(n)
    BY <1>2, <1>3, <1>5
  <2> QED
    BY <2>2, <2>3, <2>4, <1>3 DEF FollowsStored, ThemeOf
<1> QED
  BY <1>4, <1>5

LEMMA HearSystemFollowed ==
  ASSUME PagesInv, \A q \in Pages : FollowsStored(q),
         NEW p \in Pages, HearSystem(p)
  PROVE  \A q \in Pages : FollowsStored(q)'
<1> SUFFICES ASSUME NEW q \in Pages PROVE FollowsStored(q)'
  OBVIOUS
<1> DEFINE told == [page[p] EXCEPT !.seen = system]
           r == IF FollowsSystem(p) THEN Applied(told, system) ELSE told
<1>1. Consistent(page[p]) /\ page[p].stage # "closed" /\ system \in Themes
  BY DEF HearSystem, PagesInv, PagesConsistent, Loaded, Typed
<1>2. /\ Consistent(told) /\ told.stage # "closed" /\ told.seen = system
      /\ told.theme = page[p].theme
  BY <1>1 DEF Consistent, PageRecord, Shown
<1>3. page'[q] = IF q = p THEN r ELSE page[q]
  BY DEF HearSystem, PagesInv, Typed
<1> HIDE DEF told
<1>4. r.theme = IF FollowsSystem(p) THEN system ELSE page[p].theme
  BY <1>1, <1>2, AppliedConsistent
<1> HIDE DEF r
<1>5. news' = news /\ stored' = stored /\ system' = system
  BY DEF HearSystem
<1>6. CASE q # p
  BY <1>3, <1>5, <1>6, CalmPage
<1>7. CASE q = p
  <2>1. page'[q].theme = IF FollowsSystem(p) THEN system ELSE page[q].theme
    BY <1>3, <1>4, <1>7
  <2>2. FollowsStored(q) /\ Loaded(q)
    BY <1>7 DEF HearSystem
  <2> QED
    BY <2>1, <2>2, <1>5, <1>7
       DEF FollowsStored, FollowsSystem, ReadStored, Reached, Themes
<1> QED
  BY <1>6, <1>7

LEMMA TamperFollowed ==
  ASSUME PagesInv, Tamper
  PROVE  \A q \in Pages : FollowsStored(q)'
<1> SUFFICES ASSUME NEW q \in Pages PROVE FollowsStored(q)'
  OBVIOUS
<1>1. CASE Reached(q)
  BY <1>1, NewsOfValue DEF Tamper, PagesInv, Typed, Values
<1>2. CASE ~Reached(q)
  BY <1>2 DEF Tamper, FollowsStored, Reached, Loaded
<1> QED
  BY <1>1, <1>2

LEMMA SystemTurnsFollowed ==
  ASSUME PagesInv, \A q \in Pages : FollowsStored(q), SystemTurns
  PROVE  \A q \in Pages : FollowsStored(q)'
<1> SUFFICES ASSUME NEW q \in Pages PROVE FollowsStored(q)'
  OBVIOUS
<1>1. system' # system /\ page' = page /\ news' = news /\ stored' = stored
  BY DEF SystemTurns, Opposite, PagesInv, Typed, Themes
<1>2. Loaded(q) => page[q].seen = system
  BY DEF SystemTurns
<1> QED
  BY <1>1, <1>2 DEF FollowsStored, Reached, Loaded

(* While clicks wait for the news of other pages, every page that has the  *)
(* storage is on its way to what is stored, however many pages there are.   *)
THEOREM NewsLead == ~Hasty => (Spec => []NewsLeadToStored)
<1> SUFFICES ASSUME ~Hasty PROVE Spec => []NewsLeadToStored
  OBVIOUS
<1> DEFINE Inv == PagesInv /\ \A q \in Pages : FollowsStored(q)
<1>1. Init => Inv
  <2>1. Init => \A q \in Pages : FollowsStored(q)
    BY DEF Init, FollowsStored, Reached, Loaded, Unloaded
  <2>2. Init => PagesInv
    BY DEF Init, PagesInv, Typed, PagesConsistent, Consistent, NewsForReached,
           Unloaded, PageRecord, Shown
  <2> QED
    BY <2>1, <2>2
<1>2. Inv /\ PagesInv' /\ [Next]_vars => Inv'
  <2> SUFFICES ASSUME PagesInv, \A q \in Pages : FollowsStored(q), [Next]_vars
               PROVE  \A q \in Pages : FollowsStored(q)'
    OBVIOUS
  <2>1. CASE UNCHANGED vars
    BY <2>1, CalmPage DEF vars
  <2>2. ASSUME NEW p \in Pages, Load(p)
        PROVE  \A q \in Pages : FollowsStored(q)'
    BY <2>2, LoadFollowed
  <2>3. ASSUME NEW p \in Pages, Parsed(p) \/ LaunchApplication(p) \/ Close(p)
        PROVE  \A q \in Pages : FollowsStored(q)'
    BY <2>3, DisplayFollowed
  <2>4. ASSUME NEW p \in Pages, Toggle(p)
        PROVE  \A q \in Pages : FollowsStored(q)'
    <3>1. Opposite(page[p].theme) \in Themes
      BY DEF Opposite, Themes
    <3> QED
      BY <2>4, <3>1, ChoiceFollowed DEF Toggle, Unhurried, Values
  <2>5. ASSUME NEW p \in Pages, UseSystemPreference(p)
        PROVE  \A q \in Pages : FollowsStored(q)'
    BY <2>5, ChoiceFollowed
       DEF UseSystemPreference, Unhurried, Values, PagesInv, Typed
  <2>6. ASSUME NEW p \in Pages, HearStorage(p) \/ HearSystem(p)
        PROVE  \A q \in Pages : FollowsStored(q)'
    BY <2>6, HearStorageFollowed, HearSystemFollowed
  <2>7. CASE Tamper \/ SystemTurns
    BY <2>7, TamperFollowed, SystemTurnsFollowed
  <2> QED
    BY <2>1, <2>2, <2>3, <2>4, <2>5, <2>6, <2>7 DEF Next
<1>3. Inv => NewsLeadToStored
  BY DEF FollowsStored, NewsLeadToStored
<1> QED
  BY <1>1, <1>2, <1>3, PagesInductive, PTL DEF Spec
=============================================================================
