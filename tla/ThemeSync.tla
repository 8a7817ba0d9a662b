----------------------------- MODULE ThemeSync -----------------------------
(* Light and dark mode in several pages of one browser                     *)
(* (resources/js/theme.js; the button of app/controller/Main.js).  The      *)
(* pages share localStorage: a write in one of them is read by the others   *)
(* at once, and told to them by a storage event they handle later.          *)
EXTENDS Naturals, Sequences

CONSTANTS Pages,
          Blocked,     \* pages whose localStorage throws
          Hasty,       \* clicks may precede news that are on their way
          MaxWrites,   \* bound: choices made, stored values tampered with
          MaxTurns     \* bound: changes of the system's preference

ASSUME PagesAssumption ==
  Blocked \subseteq Pages /\ Hasty \in BOOLEAN
    /\ MaxWrites \in Nat /\ MaxTurns \in Nat

Themes == {"light", "dark"}
Values == Themes \cup {"none", "junk"}   \* "none": the key is not there

VARIABLES
  stored,   \* localStorage: policyweb-theme
  system,   \* prefers-color-scheme
  page,     \* the pages
  news,     \* storage events on their way to each page
  writes, turns   \* counters of the bounds

vars == <<stored, system, page, news, writes, turns>>

(* A page not loaded.  theme is currentTheme, html and body what the        *)
(* document shows, switch what its toggle buttons show, button the button   *)
(* of the Ext application, seen the system's preference last told to it.    *)
Unloaded == [stage |-> "closed", theme |-> "none", html |-> "none",
             body |-> "none", switch |-> "none", button |-> "none",
             seen |-> "none"]

Loaded(p) == page[p].stage # "closed"
Reached(p) == p \notin Blocked /\ Loaded(p)
----------------------------------------------------------------------------
(* Faulty: the stored text is taken as it is.                              *)
ReadAnything(p) == IF p \in Blocked THEN "none" ELSE stored

(* readStoredTheme                                                         *)
ReadStored(p) == IF p \in Blocked \/ stored \notin Themes THEN "none"
                 ELSE stored

(* resolvedTheme                                                           *)
Resolved(p) == IF ReadStored(p) = "none" THEN system ELSE ReadStored(p)

(* setDocumentTheme: body is there once the document was parsed.           *)
Painted(r, theme) ==
  [r EXCEPT !.theme = theme, !.html = theme,
            !.body = IF r.stage = "parsing" THEN "none" ELSE theme]

(* Faulty: the listeners are asked after currentTheme was set.             *)
AppliedUnnoticed(r, theme) == Painted(r, theme)

(* apply: the listeners, toggle buttons and the application's button, are  *)
(* told of a theme that differs from the current one.                       *)
Applied(r, theme) ==
  LET shows(x) == IF x # "none" /\ r.theme # theme THEN theme ELSE x
  IN [Painted(r, theme) EXCEPT !.switch = shows(r.switch),
                               !.button = shows(r.button)]

(* The browser queues an event for every other page that has the storage.  *)
Told(p, value) ==
  [q \in Pages |-> IF q # p /\ Reached(q) THEN Append(news[q], value)
                   ELSE news[q]]

(* store, and the browser's part of it: nothing happens when storage is    *)
(* unavailable, no event when the value is the old one.                     *)
Write(p, value) ==
  IF p \in Blocked \/ value = stored THEN UNCHANGED <<stored, news>>
  ELSE stored' = value /\ news' = Told(p, value)

Budget == writes < MaxWrites /\ writes' = writes + 1
----------------------------------------------------------------------------
(* The script runs in the head of the document: apply(resolvedTheme()).    *)
Load(p) ==
  /\ page[p].stage = "closed"
  /\ page' = [page EXCEPT ![p] =
       Painted([Unloaded EXCEPT !.stage = "parsing", !.seen = system],
               Resolved(p))]
  /\ UNCHANGED <<stored, system, news, writes, turns>>

(* DOMContentLoaded: the body is painted, toggles are bound and synced.    *)
Parsed(p) ==
  /\ page[p].stage = "parsing"
  /\ page' = [page EXCEPT ![p] =
       [Painted([@ EXCEPT !.stage = "ready"], @.theme)
         EXCEPT !.switch = page[p].theme]]
  /\ UNCHANGED <<stored, system, news, writes, turns>>

(* Main.onLaunch, Viewport.buildViewport: the application's button.        *)
LaunchApplication(p) ==
  /\ page[p].stage = "ready" /\ page[p].button = "none"
  /\ page' = [page EXCEPT ![p].button = page[p].theme]
  /\ UNCHANGED <<stored, system, news, writes, turns>>

Close(p) ==
  /\ Loaded(p)
  /\ page' = [page EXCEPT ![p] = Unloaded]
  /\ news' = [news EXCEPT ![p] = <<>>]
  /\ UNCHANGED <<stored, system, writes, turns>>

Unhurried(p) == Hasty \/ news[p] = <<>>

Opposite(theme) == IF theme = "dark" THEN "light" ELSE "dark"

(* toggle: a click on a toggle button, or on the application's.            *)
Toggle(p) ==
  /\ page[p].stage = "ready"
  /\ Unhurried(p) /\ Budget
  /\ LET theme == Opposite(page[p].theme)
     IN /\ Write(p, theme)
        /\ page' = [page EXCEPT ![p] = Applied(@, theme)]
  /\ UNCHANGED <<system, turns>>

(* useSystemPreference: the key is removed.                                *)
UseSystemPreference(p) ==
  /\ page[p].stage = "ready"
  /\ Unhurried(p) /\ Budget
  /\ Write(p, "none")
  /\ page' = [page EXCEPT ![p] = Applied(@, system)]
  /\ UNCHANGED <<system, turns>>

(* Another script of the origin stores something else.                     *)
Tamper ==
  /\ stored # "junk" /\ Budget
  /\ stored' = "junk"
  /\ news' = [q \in Pages |-> IF Reached(q) THEN Append(news[q], "junk")
                              ELSE news[q]]
  /\ UNCHANGED <<system, page, turns>>

(* Faulty: an event without a theme is ignored.                            *)
ThemeOfSetKey(p, value) == IF value \in Themes THEN value ELSE page[p].theme

ThemeOf(p, value) == IF value \in Themes THEN value ELSE system

(* onStorageChange                                                         *)
HearStorage(p) ==
  /\ news[p] # <<>>
  /\ page' = [page EXCEPT ![p] = Applied(@, ThemeOf(p, Head(news[p])))]
  /\ news' = [news EXCEPT ![p] = Tail(@)]
  /\ UNCHANGED <<stored, system, writes, turns>>

(* The system's preference changes, slower than pages notice.              *)
SystemTurns ==
  /\ turns < MaxTurns
  /\ \A p \in Pages : Loaded(p) => page[p].seen = system
  /\ turns' = turns + 1
  /\ system' = Opposite(system)
  /\ UNCHANGED <<stored, page, news, writes>>

(* Faulty: the system's preference is followed whatever was chosen.        *)
FollowsAlways(p) == TRUE

FollowsSystem(p) == ReadStored(p) = "none"

(* onSystemThemeChange                                                     *)
HearSystem(p) ==
  /\ Loaded(p) /\ page[p].seen # system
  /\ LET told == [page[p] EXCEPT !.seen = system]
     IN page' = [page EXCEPT ![p] = IF FollowsSystem(p)
                                    THEN Applied(told, system) ELSE told]
  /\ UNCHANGED <<stored, system, news, writes, turns>>
----------------------------------------------------------------------------
Init ==
  /\ stored \in Values
  /\ system \in Themes
  /\ page = [p \in Pages |-> Unloaded]
  /\ news = [p \in Pages |-> <<>>]
  /\ writes = 0 /\ turns = 0

Next ==
  \/ \E p \in Pages :
       \/ Load(p) \/ Parsed(p) \/ LaunchApplication(p) \/ Close(p)
       \/ Toggle(p) \/ UseSystemPreference(p)
       \/ HearStorage(p) \/ HearSystem(p)
  \/ Tamper \/ SystemTurns

Spec == Init /\ [][Next]_vars

(* The browser delivers the events.                                        *)
FairSpec == Spec /\ \A p \in Pages : WF_vars(HearStorage(p) \/ HearSystem(p))
----------------------------------------------------------------------------
Shown == Themes \cup {"none"}

TypeOK ==
  /\ stored \in Values
  /\ system \in Themes
  /\ page \in [Pages -> [stage: {"closed", "parsing", "ready"}, theme: Shown,
                         html: Shown, body: Shown, switch: Shown,
                         button: Shown, seen: Shown]]
  /\ news \in [Pages -> Seq(Values)]
  /\ writes \in Nat /\ turns \in Nat

(* Whoever changed the theme, a parsed page, its toggle buttons and the    *)
(* application's button show the current one, so that a click always does   *)
(* what the button says (theme.js:52-68, 165-188).                          *)
SwitchesTellTheTruth ==
  \A p \in Pages :
    /\ Loaded(p) => page[p].theme \in Themes /\ page[p].html = page[p].theme
    /\ page[p].stage = "ready" => page[p].body = page[p].theme
                                    /\ page[p].switch = page[p].theme
    /\ page[p].button \in {"none", page[p].theme}

(* When no click outruns the news: what a page was told last is what is    *)
(* stored, and a page that has no news to come shows the stored theme, or   *)
(* the system's once it was told of it, if no theme is stored               *)
(* (theme.js:31-33, 123-133).                                                *)
NewsLeadToStored ==
  \A p \in Pages : Reached(p) =>
    /\ news[p] # <<>> => news[p][Len(news[p])] = stored
    /\ news[p] = <<>> /\ stored \in Themes => page[p].theme = stored
    /\ news[p] = <<>> /\ stored \notin Themes /\ page[p].seen = system =>
         page[p].theme = system

(* When the user is done all pages with storage agree on the theme a new   *)
(* page would have: "storage changes synchronize theme instances and        *)
(* invalid values use the system" (theme.test.mjs:184).                     *)
PagesAgree ==
  <>[](\A p \in Pages : Reached(p) => page[p].theme = Resolved(p))
=============================================================================
