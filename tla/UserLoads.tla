----------------------------- MODULE UserLoads -----------------------------
(* The users store of the browser client's service view                    *)
(* (loadSelectedServiceUsers of app/controller/Service.js).  The store      *)
(* never has two requests in flight: a selection made while one is running  *)
(* is queued, and only the newest one.  A key stands for the JSON text of   *)
(* all parameters of a request: service, owner, policy, networks, filter.   *)
CONSTANTS Keys,        \* the requests that can be asked for
          NoKey        \* null

(* Required of an instance.                                                *)
NoKeyApart == NoKey \notin Keys

VARIABLE users
(* desired: policyWebDesiredKey, what the view should show;                *)
(* request: policyWebRequestKey, the request in flight (the store is        *)
(*          loading exactly while there is one);                            *)
(* queued:  policyWebQueuedLoad; loaded: policyWebLoadedKey;                *)
(* shown:   the request whose answer the store holds, NoKey when it is      *)
(*          empty.                                                          *)

vars == <<users>>

MaybeKey == Keys \cup {NoKey}

TypeOK == users \in [desired: MaybeKey, request: MaybeKey, queued: MaybeKey,
                     loaded: MaybeKey, shown: MaybeKey]

Loading == users.request # NoKey

Empty == [desired |-> NoKey, request |-> NoKey, queued |-> NoKey,
          loaded |-> NoKey, shown |-> NoKey]

Init == users = Empty

(* Asking for k: what is loaded already is reused unless the load is       *)
(* forced, a running request makes k wait, an idle store requests it.       *)
Wanted(u, k, force) ==
  CASE ~force /\ u.loaded = k -> [u EXCEPT !.desired = k]
    [] (force \/ u.loaded # k) /\ u.request = k -> [u EXCEPT !.desired = k]
    [] (force \/ u.loaded # k) /\ u.request \notin {k, NoKey} ->
         [u EXCEPT !.desired = k, !.queued = k, !.shown = NoKey]
    [] OTHER -> [u EXCEPT !.desired = k, !.queued = NoKey, !.request = k]

(* No service is selected; a request in flight goes on.                    *)
Dropped(u) == [Empty EXCEPT !.request = u.request]

(* Faulty: an answer nobody waits for any more stays in the store.         *)
ReceivedUnchecked(u, success) ==
  [u EXCEPT !.request = NoKey, !.queued = NoKey,
            !.loaded = IF success THEN u.request ELSE NoKey,
            !.shown = IF success THEN u.request ELSE @]

(* Faulty: the store is never told that its request has ended.             *)
ReceivedStillLoading(u, success) == [u EXCEPT !.queued = NoKey]

(* The load event and the callback of the answer: the records replace the  *)
(* store's unless the request failed, and are removed again when something  *)
(* else is wanted by now.                                                    *)
Received(u, success) ==
  LET wanted == u.desired = u.request
  IN [desired |-> u.desired, request |-> NoKey, queued |-> NoKey,
      loaded  |-> CASE wanted /\ success -> u.request
                    [] wanted /\ ~success -> NoKey
                    [] OTHER -> u.loaded,
      shown   |-> CASE wanted /\ success -> u.request
                    [] wanted /\ ~success -> u.shown
                    [] OTHER -> NoKey]

(* Faulty: the queue is emptied but not served.                            *)
AnsweredForgetsQueue(u, success, again) == Received(u, success)

(* ... and the queued request, when it is still the wanted one, is sent    *)
(* with the owner, policy and networks of this moment: again is its key.    *)
Answered(u, success, again) ==
  IF u.queued # NoKey /\ u.queued = u.desired
  THEN Wanted(Received(u, success), again, TRUE)
  ELSE Received(u, success)

Want(k, force) == users' = Wanted(users, k, force)

Drop == users' = Dropped(users)

Answer(success, again) ==
  /\ Loading
  /\ users' = Answered(users, success, again)

Next == \/ \E k \in Keys, force \in BOOLEAN : Want(k, force)
        \/ Drop
        \/ \E success \in BOOLEAN, again \in Keys : Answer(success, again)

Spec == Init /\ [][Next]_vars
----------------------------------------------------------------------------
(* Nothing waits without a request in flight, and nothing waits for what   *)
(* is in flight already: the queue cannot be forgotten by an idle store.    *)
QueueBehindRequest ==
  users.queued # NoKey => users.request \notin {NoKey, users.queued}

(* Once the newest selection counts as loaded and nothing is in flight,    *)
(* the users on the screen are its users, whatever was selected, queued or  *)
(* failed before.  They may be missing, never another selection's.          *)
LoadedUsersAreTheirs ==
  users.request = NoKey /\ users.loaded = users.desired =>
    users.shown \in {NoKey, users.desired}

(* "Do not expose results belonging to that previous service": an answer   *)
(* fills the store only with what is wanted when it arrives.                *)
OnlyWantedUsersAppear ==
  [][users'.shown # users.shown =>
       users'.shown \in {NoKey, users'.desired}]_vars
=============================================================================
