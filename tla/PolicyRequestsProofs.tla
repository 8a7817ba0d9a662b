------------------------- MODULE PolicyRequestsProofs -------------------------
(***************************************************************************)
(* Theorems about PolicyRequests, for every number of users, requests,     *)
(* pages, publications, deployments and crashes.                           *)
(*                                                                         *)
(* Typed adds to TypeOK that handlers refer to requests and users.  The    *)
(* invariant of the decisions is Agreed: requests and their revisions move *)
(* together (DecisionsAgree), what can be acted on is on the latest base   *)
(* (ActionableOnLatestBase), and a page that carries the current revision  *)
(* number carries the current row (Copies), which is why one conditional   *)
(* UPDATE suffices.  Deploying adds what a complete protocol means, and    *)
(* PathOf what a trail is.                                                 *)
(***************************************************************************)
EXTENDS PolicyRequests, TLAPS, FiniteSetTheorems

Handlers ==
  /\ \A h \in Desks : desk[h].pc # "idle" =>
       desk[h].request \in Requests /\ desk[h].actor \in Users
  /\ \A h \in Desks : desk[h].pc \in {"staging", "planned", "unusable"} =>
       desk[h].seen.status = "submitted"
  /\ \A h \in Desks : desk[h].pc = "rejecting" =>
       desk[h].seen.status \in {"submitted", "staged", "conflict"}
  /\ \A k \in Submitters : submitter[k].pc = "admitted" => submitter[k].actor \in Users

Typed == TypeOK /\ Handlers

Copied(h) ==
  LET q == request[desk[h].request]
  IN  /\ q.status # "none"
      /\ ~desk[h].seen.recent
      /\ desk[h].seen.revision <= q.revision
      /\ desk[h].seen.revision = q.revision =>
           /\ desk[h].seen.status = q.status
           /\ desk[h].seen.requester = q.requester
           /\ desk[h].seen.base = q.base
           /\ desk[h].seen.linked = q.linked

Copies == \A h \in Desks : desk[h].pc # "idle" => Copied(h)

Agreed == Typed /\ Copies /\ ActionableOnLatestBase /\ DecisionsAgree

Settled == Statuses \ {"none", "processing"}

(***************************************************************************)
(* The operators.                                                          *)
(***************************************************************************)

LEMMA MovedFields ==
  ASSUME NEW q \in RequestType, NEW s \in Settled
  PROVE  /\ Moved(q, s) \in RequestType
         /\ Moved(q, s).status = s
         /\ Moved(q, s).revision = q.revision + 1
         /\ Moved(q, s).requester = q.requester
         /\ Moved(q, s).base = q.base
         /\ Moved(q, s).linked = q.linked
<1>1. s \in Statuses \ {"processing"} /\ q.revision + 1 \in Nat
  BY DEF Settled, RequestType
<1>2. [q EXCEPT !.status = s] \in RequestType
  BY <1>1 DEF RequestType
<1>3. Moved(q, s) = [[q EXCEPT !.status = s] EXCEPT !.revision = q.revision + 1]
  BY DEF Moved
<1>4. Moved(q, s) \in RequestType
  BY <1>1, <1>2, <1>3 DEF RequestType
<1> QED
  BY <1>4 DEF Moved, RequestType

(* A move changes exactly the status and the revision number of the        *)
(* requests it names.                                                      *)
LEMMA MoveFields ==
  ASSUME TypeOK, NEW moves, DOMAIN moves \subseteq Requests,
         \A r \in DOMAIN moves : moves[r] \in Settled, Move(moves)
  PROVE  /\ request' \in [Requests -> RequestType]
         /\ trail' \in [Requests -> Seq(Statuses \X Statuses)]
         /\ \A r \in DOMAIN moves :
              /\ request'[r].status = moves[r]
              /\ request'[r].revision = request[r].revision + 1
              /\ request'[r].requester = request[r].requester
              /\ request'[r].base = request[r].base
              /\ request'[r].linked = request[r].linked
         /\ \A r \in Requests \ DOMAIN moves : request'[r] = request[r]
<1>1. request \in [Requests -> RequestType] /\ trail \in [Requests -> Seq(Statuses \X Statuses)]
  BY DEF TypeOK
<1>2. ASSUME NEW r \in DOMAIN moves
      PROVE  /\ request'[r] \in RequestType
             /\ trail'[r] \in Seq(Statuses \X Statuses)
  <2>1. r \in Requests /\ moves[r] \in Settled
    OBVIOUS
  <2>2. /\ request'[r] = Moved(request[r], moves[r])
        /\ trail'[r] = Append(trail[r], <<request[r].status, moves[r]>>)
    BY <2>1 DEF Move
  <2>3. request[r] \in RequestType
    BY <2>1, <1>1
  <2>4. request'[r] \in RequestType
    BY <2>1, <2>2, <2>3, MovedFields
  <2>5. <<request[r].status, moves[r]>> \in Statuses \X Statuses
    BY <2>1, <2>3 DEF RequestType, Settled
  <2> QED
    BY <1>1, <2>1, <2>2, <2>4, <2>5
<1>3. \A r \in Requests \ DOMAIN moves : request'[r] = request[r] /\ trail'[r] = trail[r]
  BY DEF Move
<1>4. \A r \in DOMAIN moves :
         /\ request'[r].status = moves[r]
         /\ request'[r].revision = request[r].revision + 1
         /\ request'[r].requester = request[r].requester
         /\ request'[r].base = request[r].base
         /\ request'[r].linked = request[r].linked
  <2> SUFFICES ASSUME NEW r \in DOMAIN moves
               PROVE  /\ request'[r].status = moves[r]
                      /\ request'[r].revision = request[r].revision + 1
                      /\ request'[r].requester = request[r].requester
                      /\ request'[r].base = request[r].base
                      /\ request'[r].linked = request[r].linked
    OBVIOUS
  <2>1. request[r] \in RequestType /\ moves[r] \in Settled
    BY <1>1
  <2>2. request'[r] = Moved(request[r], moves[r])
    BY DEF Move
  <2> QED
    BY <2>1, <2>2, MovedFields
<1>5. /\ request' = [r \in Requests |-> request'[r]]
      /\ trail' = [r \in Requests |-> trail'[r]]
  BY DEF Move
<1> QED
  BY <1>1, <1>2, <1>3, <1>4, <1>5

LEMMA OneMove ==
  ASSUME NEW r, NEW s
  PROVE  DOMAIN One(r, s) = {r} /\ One(r, s)[r] = s
BY DEF One

(* A set of settled policies keeps the table's shape.                      *)
LEMMA SettleFields ==
  ASSUME TypeOK, NEW V, NEW s \in {"published", "rejected"}, SettlePolicies(V, s)
  PROVE  /\ policy' \in Seq(PolicyType) /\ Len(policy') = Len(policy)
         /\ \A v \in 1..Len(policy) :
              /\ policy'[v].request = policy[v].request
              /\ policy'[v].creator = policy[v].creator
              /\ policy'[v].status = IF v \in V THEN s ELSE policy[v].status
<1>1. policy \in Seq(PolicyType) /\ Len(policy) \in Nat
  BY DEF TypeOK
<1>2. \A v \in 1..Len(policy) : policy[v] \in PolicyType
  BY <1>1
<1>3. \A v \in 1..Len(policy) :
         policy'[v] = IF v \in V THEN [policy[v] EXCEPT !.status = s] ELSE policy[v]
  BY DEF SettlePolicies
<1>4. \A v \in 1..Len(policy) : policy'[v] \in PolicyType
  BY <1>2, <1>3 DEF PolicyType
<1>5. policy' \in [1..Len(policy) -> PolicyType]
  BY <1>4 DEF SettlePolicies
<1>6. policy' \in Seq(PolicyType) /\ Len(policy') = Len(policy)
  BY <1>1, <1>5
<1> QED
  BY <1>2, <1>3, <1>6 DEF PolicyType

-----------------------------------------------------------------------------
(***************************************************************************)
(* What a step does to the tables: nothing that matters here, or one of    *)
(* the eight decisions below.                                              *)
(***************************************************************************)

Still(r) ==
  /\ request'[r].status = request[r].status
  /\ request'[r].revision = request[r].revision
  /\ request'[r].requester = request[r].requester
  /\ request'[r].base = request[r].base
  /\ request'[r].linked = request[r].linked

Moves(r, s) ==
  /\ request'[r].status = s
  /\ request'[r].revision = request[r].revision + 1
  /\ request'[r].requester = request[r].requester
  /\ request'[r].base = request[r].base
  /\ request'[r].linked = request[r].linked

Only(r) == \A x \in Requests \ {r} : Still(x)

NoDecision == (\A r \in Requests : Still(r)) /\ UNCHANGED <<policy, latest>>

Submitted(r) ==
  /\ request[r].status = "none"
  /\ request'[r].status = "submitted" /\ request'[r].base = latest
  /\ request'[r].linked = 0
  /\ Only(r) /\ UNCHANGED <<policy, latest>>

Conflicted(r) ==
  /\ request[r].status = "submitted"
  /\ Moves(r, "conflict")
  /\ Only(r) /\ UNCHANGED <<policy, latest>>

Staged(r) ==
  /\ request[r].status = "submitted" /\ request[r].base = latest
  /\ request'[r].status = "staged" /\ request'[r].base = latest
  /\ request'[r].linked = Len(policy) + 1
  /\ request'[r].revision > request[r].revision
  /\ Only(r)
  /\ policy' \in Seq(PolicyType) /\ Len(policy') = Len(policy) + 1
  /\ policy'[Len(policy) + 1].request = r /\ policy'[Len(policy) + 1].status = "pending"
  /\ \A v \in 1..Len(policy) : policy'[v] = policy[v]
  /\ UNCHANGED latest

(* The revisions in V are settled with status s, the others kept.          *)
Settling(V, s) ==
  \A v \in 1..Len(policy) :
    /\ policy'[v].request = policy[v].request
    /\ policy'[v].status = IF v \in V THEN s ELSE policy[v].status

Rejected(r) ==
  /\ request[r].status \in {"submitted", "staged", "conflict"}
  /\ Moves(r, "rejected")
  /\ Only(r)
  /\ policy' \in Seq(PolicyType) /\ Len(policy') = Len(policy)
  /\ Settling({request[r].linked}, "rejected")
  /\ UNCHANGED latest

Swept(R) == \A r \in R : Moves(r, "conflict")

PublishedFor(own, v) ==
  LET R == Obsolete(v) \ {own}
  IN  /\ v \in 1..Len(policy)
      /\ policy[v].status = "pending" /\ policy[v].request = own /\ own \in Requests
      /\ request[own].status = "staged"
      /\ Moves(own, "approved") /\ Swept(R)
      /\ \A r \in Requests \ (R \cup {own}) : Still(r)
      /\ policy' \in Seq(PolicyType) /\ Len(policy') = Len(policy)
      /\ policy'[v].status = "published" /\ policy'[v].request = own
      /\ \A w \in 1..Len(policy) \ {v} :
           /\ policy'[w].request = policy[w].request
           /\ policy'[w].status = IF w \in {request[r].linked : r \in R} THEN "rejected"
                                  ELSE policy[w].status
      /\ latest' = v

PublishedAlone ==
  LET v == Len(policy) + 1
      R == Obsolete(v)
  IN  /\ Swept(R) /\ \A r \in Requests \ R : Still(r)
      /\ policy' \in Seq(PolicyType) /\ Len(policy') = v
      /\ policy'[v].request = NoRequest
      /\ Settling({request[r].linked : r \in R}, "rejected")
      /\ latest' = v

Deployed(r) ==
  /\ request[r].status = "approved"
  /\ Moves(r, "deployed")
  /\ Only(r) /\ UNCHANGED <<policy, latest>>

Decision ==
  \/ NoDecision \/ PublishedAlone
  \/ \E r \in Requests : Submitted(r) \/ Conflicted(r) \/ Staged(r) \/ Rejected(r)
                         \/ Deployed(r)
  \/ \E own \in Requests, v \in 1..Len(policy) : PublishedFor(own, v)

(* The invariant at one request and at one revision.                       *)
RequestAgrees(r) ==
  /\ request[r].status \in {"submitted", "staged"} => request[r].base = latest
  /\ request[r].status \in {"none", "submitted"} => request[r].linked = 0
  /\ request[r].status \in {"staged", "approved", "deployed"} => request[r].linked # 0
  /\ request[r].linked # 0 => /\ request[r].linked \in 1..Len(policy)
                             /\ policy[request[r].linked].request = r

RevisionAgrees(v) ==
  policy[v].request # NoRequest =>
    LET q == request[policy[v].request]
    IN  /\ q.linked = v
        /\ policy[v].status = "pending" <=> q.status = "staged"
        /\ policy[v].status = "published" <=> q.status \in {"approved", "deployed"}
        /\ policy[v].status = "rejected" <=> q.status \in {"rejected", "conflict"}

EachRequestAlone ==
  (\A r \in Requests : RequestAgrees(r)) /\ (\A v \in 1..Len(policy) : RevisionAgrees(v))

LEMMA PointwiseAgreement ==
  EachRequestAlone <=> ActionableOnLatestBase /\ DecisionsAgree
<1>1. ASSUME EachRequestAlone PROVE ActionableOnLatestBase /\ DecisionsAgree
  <2>1. ActionableOnLatestBase
    BY <1>1 DEF EachRequestAlone, RequestAgrees, ActionableOnLatestBase
  <2>2. \A r \in Requests :
          /\ request[r].status \in {"none", "submitted"} => request[r].linked = 0
          /\ request[r].status \in {"staged", "approved", "deployed"} => request[r].linked # 0
          /\ request[r].linked # 0 => /\ request[r].linked \in 1..Len(policy)
                                     /\ policy[request[r].linked].request = r
    BY <1>1 DEF EachRequestAlone, RequestAgrees
  <2>3. \A v \in 1..Len(policy) : RevisionAgrees(v)
    BY <1>1 DEF EachRequestAlone
  <2> QED
    BY <2>1, <2>2, <2>3, Zenon DEF RevisionAgrees, DecisionsAgree
<1>2. ASSUME ActionableOnLatestBase, DecisionsAgree PROVE EachRequestAlone
  <2>1. ASSUME NEW r \in Requests PROVE RequestAgrees(r)
    BY <1>2 DEF RequestAgrees, ActionableOnLatestBase, DecisionsAgree
  <2>2. ASSUME NEW v \in 1..Len(policy) PROVE RevisionAgrees(v)
    BY <1>2 DEF RevisionAgrees, DecisionsAgree
  <2> QED
    BY <2>1, <2>2 DEF EachRequestAlone
<1> QED
  BY <1>1, <1>2

LEMMA FieldTypes ==
  ASSUME TypeOK
  PROVE  /\ \A r \in Requests : request[r].linked \in Nat
         /\ \A v \in 1..Len(policy) : policy[v].request \in Requests \cup {NoRequest}
         /\ Len(policy) \in Nat
<1>1. ASSUME NEW r \in Requests PROVE request[r].linked \in Nat
  BY DEF TypeOK, RequestType
<1>2. ASSUME NEW v \in 1..Len(policy) PROVE policy[v].request \in Requests \cup {NoRequest}
  <2>1. policy[v] \in PolicyType
    BY DEF TypeOK
  <2> QED
    BY <2>1 DEF PolicyType
<1>3. Len(policy) \in Nat
  BY DEF TypeOK
<1> QED
  BY <1>1, <1>2, <1>3

(* Every decision keeps requests and revisions together and what can be    *)
(* acted on, on the latest base.                                           *)
LEMMA DecisionsKept ==
  ASSUME Agreed, TypeOK', Decision
  PROVE  ActionableOnLatestBase' /\ DecisionsAgree'
<1>0. NoRequest \notin Requests
  BY RequestsAssumption
<1>1. /\ \A r \in Requests : request[r].linked \in Nat /\ RequestAgrees(r)
      /\ \A v \in 1..Len(policy) :
           policy[v].request \in Requests \cup {NoRequest} /\ RevisionAgrees(v)
      /\ Len(policy) \in Nat
  BY FieldTypes, PointwiseAgreement DEF EachRequestAlone, Agreed, Typed
<1>2. EachRequestAlone' => ActionableOnLatestBase' /\ DecisionsAgree'
  BY PointwiseAgreement, PTL
<1> SUFFICES (\A r \in Requests : RequestAgrees(r)')
             /\ (\A v \in 1..Len(policy') : RevisionAgrees(v)')
  BY <1>2 DEF EachRequestAlone
<1> USE DEF RequestAgrees, RevisionAgrees
<1>3. CASE NoDecision
  BY <1>3, <1>1 DEF NoDecision, Still
<1>4. ASSUME NEW r \in Requests, Submitted(r)
      PROVE  (\A x \in Requests : RequestAgrees(x)')
             /\ (\A v \in 1..Len(policy') : RevisionAgrees(v)')
  BY <1>4, <1>1 DEF Submitted, Only, Still
<1>5. ASSUME NEW r \in Requests, Conflicted(r)
      PROVE  (\A x \in Requests : RequestAgrees(x)')
             /\ (\A v \in 1..Len(policy') : RevisionAgrees(v)')
  BY <1>5, <1>1 DEF Conflicted, Moves, Only, Still
<1>6. ASSUME NEW r \in Requests, Staged(r)
      PROVE  (\A x \in Requests : RequestAgrees(x)')
             /\ (\A v \in 1..Len(policy') : RevisionAgrees(v)')
  <2>1. ASSUME NEW x \in Requests PROVE RequestAgrees(x)'
    BY <1>6, <1>1, <2>1 DEF Staged, Only, Still
  <2>2. ASSUME NEW v \in 1..Len(policy') PROVE RevisionAgrees(v)'
    <3>1. CASE v = Len(policy) + 1
      BY <1>6, <1>1, <3>1 DEF Staged, Only, Still
    <3>2. CASE v # Len(policy) + 1
      <4>1. v \in 1..Len(policy) /\ policy'[v] = policy[v]
        BY <1>6, <1>1, <3>2 DEF Staged
      <4>2. policy[v].request # r
        BY <1>6, <1>0, <1>1, <4>1 DEF Staged
      <4>3. CASE policy[v].request = NoRequest
        BY <4>1, <4>3
      <4>4. CASE policy[v].request # NoRequest
        <5>1. policy[v].request \in Requests \ {r}
          BY <1>1, <4>1, <4>2, <4>4
        <5>2. Still(policy[v].request)
          BY <1>6, <5>1 DEF Staged, Only
        <5>3. RevisionAgrees(v)
          BY <1>1, <4>1
        <5> QED
          BY <4>1, <4>4, <5>2, <5>3 DEF Still
      <4> QED
        BY <4>3, <4>4
    <3> QED
      BY <3>1, <3>2
  <2> QED
    BY <2>1, <2>2
<1>7. ASSUME NEW r \in Requests, Rejected(r)
      PROVE  (\A x \in Requests : RequestAgrees(x)')
             /\ (\A v \in 1..Len(policy') : RevisionAgrees(v)')
  <2>1. ASSUME NEW x \in Requests PROVE RequestAgrees(x)'
    BY <1>7, <1>1, <2>1 DEF Rejected, Settling, Moves, Only, Still
  <2>2. ASSUME NEW v \in 1..Len(policy') PROVE RevisionAgrees(v)'
    <3>1. v \in 1..Len(policy) /\ policy'[v].request = policy[v].request
      BY <1>7 DEF Rejected, Settling
    <3>2. CASE policy[v].request = r
      BY <1>7, <1>1, <3>1, <3>2 DEF Rejected, Settling, Moves
    <3>3. CASE policy[v].request # r
      <4>1. v # request[r].linked
        BY <1>1, <3>1, <3>3
      <4> QED
        BY <1>7, <1>1, <3>1, <3>3, <4>1 DEF Rejected, Settling, Only, Still
    <3> QED
      BY <3>2, <3>3
  <2> QED
    BY <2>1, <2>2
<1>8. ASSUME NEW r \in Requests, Deployed(r)
      PROVE  (\A x \in Requests : RequestAgrees(x)')
             /\ (\A v \in 1..Len(policy') : RevisionAgrees(v)')
  BY <1>8, <1>1 DEF Deployed, Moves, Only, Still
<1>9. ASSUME NEW own \in Requests, NEW v \in 1..Len(policy), PublishedFor(own, v)
      PROVE  (\A x \in Requests : RequestAgrees(x)')
             /\ (\A w \in 1..Len(policy') : RevisionAgrees(w)')
  <2> DEFINE R == Obsolete(v) \ {own}
  <2>0. /\ policy[v].request = own /\ request[own].linked = v
        /\ Moves(own, "approved") /\ Len(policy') = Len(policy) /\ latest' = v
        /\ policy'[v].status = "published" /\ policy'[v].request = own
        /\ \A w \in 1..Len(policy) : policy'[w].request = policy[w].request
    BY <1>9, <1>0, <1>1 DEF PublishedFor
  <2>1. ASSUME NEW x \in Requests PROVE RequestAgrees(x)'
    <3>1. CASE x = own
      BY <1>1, <2>0, <3>1 DEF Moves
    <3>2. CASE x \in R
      <4>1. Moves(x, "conflict")
        BY <1>9, <3>2 DEF PublishedFor, Swept
      <4> QED
        BY <1>1, <2>0, <4>1 DEF Moves
    <3>3. CASE x \notin R /\ x # own
      <4>1. Still(x)
        BY <1>9, <3>3 DEF PublishedFor
      <4>2. request[x].status \in {"submitted", "staged"} => request[x].base = v
        BY <3>3 DEF Obsolete
      <4> QED
        BY <1>1, <2>0, <4>1, <4>2 DEF Still
    <3> QED
      BY <3>1, <3>2, <3>3
  <2>2. ASSUME NEW w \in 1..Len(policy'), policy'[w].request # NoRequest
        PROVE  RevisionAgrees(w)'
    <3> DEFINE x == policy[w].request
    <3>1. /\ w \in 1..Len(policy) /\ x \in Requests /\ policy'[w].request = x
          /\ request[x].linked = w
      BY <1>1, <2>0, <2>2
    <3>2. CASE w = v
      BY <1>1, <2>0, <3>1, <3>2 DEF Moves
    <3>3. CASE w # v
      <4>1. x # own
        BY <2>0, <3>1, <3>3
      <4>2. /\ x \in R => policy'[w].status = "rejected"
            /\ x \notin R => policy'[w].status = policy[w].status
        <5>1. policy'[w].status = IF w \in {request[r].linked : r \in R} THEN "rejected"
                                  ELSE policy[w].status
          BY <1>9, <3>1, <3>3 DEF PublishedFor
        <5>2. x \in R => w \in {request[r].linked : r \in R}
          BY <3>1
        <5>3. ASSUME w \in {request[r].linked : r \in R} PROVE x \in R
          <6>1. PICK r \in R : w = request[r].linked
            BY <5>3
          <6>2. r \in Requests
            BY DEF Obsolete
          <6>3. w # 0
            BY <1>1, <3>1
          <6>4. policy[w].request = r
            BY <1>1, <6>1, <6>2, <6>3
          <6> QED
            BY <6>4
        <5> QED
          BY <5>1, <5>2, <5>3
      <4>3. CASE x \in R
        <5>1. Moves(x, "conflict")
          BY <1>9, <4>3 DEF PublishedFor, Swept
        <5> QED
          BY <3>1, <4>2, <4>3, <5>1 DEF Moves
      <4>4. CASE x \notin R
        <5>1. Still(x)
          BY <1>9, <4>1, <4>4, <3>1 DEF PublishedFor
        <5> QED
          BY <1>1, <3>1, <4>2, <4>4, <5>1, <2>2 DEF Still
      <4> QED
        BY <4>3, <4>4
    <3> QED
      BY <3>2, <3>3
  <2> QED
    BY <2>1, <2>2
<1>10. CASE PublishedAlone
  <2> DEFINE v == Len(policy) + 1
             R == Obsolete(v)
  <2>0. /\ Len(policy') = v /\ latest' = v
        /\ policy'[v].request = NoRequest
        /\ \A w \in 1..Len(policy) : policy'[w].request = policy[w].request
        /\ v \in 1..Len(policy')
    BY <1>10, <1>1 DEF PublishedAlone, Settling
  <2>1. ASSUME NEW x \in Requests PROVE RequestAgrees(x)'
    <3>1. request[x].linked # 0 => request[x].linked \in 1..Len(policy')
                                   /\ policy'[request[x].linked].request = x
      BY <1>1, <2>0
    <3>2. CASE x \in R
      <4>1. Moves(x, "conflict")
        BY <1>10, <3>2 DEF PublishedAlone, Swept
      <4> QED
        BY <3>1, <4>1 DEF Moves
    <3>3. CASE x \notin R
      <4>1. Still(x)
        BY <1>10, <3>3 DEF PublishedAlone
      <4>2. request[x].status \in {"submitted", "staged"} => request[x].base = v
        BY <3>3 DEF Obsolete
      <4> QED
        BY <1>1, <2>0, <3>1, <4>1, <4>2 DEF Still
    <3> QED
      BY <3>2, <3>3
  <2>2. ASSUME NEW w \in 1..Len(policy'), policy'[w].request # NoRequest
        PROVE  RevisionAgrees(w)'
    <3> DEFINE x == policy[w].request
    <3>1. /\ w \in 1..Len(policy) /\ x \in Requests /\ policy'[w].request = x
          /\ request[x].linked = w
      BY <1>1, <2>0, <2>2
    <3>2. /\ x \in R => policy'[w].status = "rejected"
          /\ x \notin R => policy'[w].status = policy[w].status
      <4>1. policy'[w].status = IF w \in {request[r].linked : r \in R} THEN "rejected"
                                ELSE policy[w].status
        BY <1>10, <3>1 DEF PublishedAlone, Settling
      <4>2. x \in R => w \in {request[r].linked : r \in R}
        BY <3>1
      <4>3. ASSUME w \in {request[r].linked : r \in R} PROVE x \in R
        <5>1. PICK r \in R : w = request[r].linked
          BY <4>3
        <5>2. r \in Requests
          BY DEF Obsolete
        <5>3. w # 0
          BY <1>1, <3>1
        <5>4. policy[w].request = r
          BY <1>1, <5>1, <5>2, <5>3
        <5> QED
          BY <5>4
      <4> QED
        BY <4>1, <4>2, <4>3
    <3>3. CASE x \in R
      <4>1. Moves(x, "conflict")
        BY <1>10, <3>3 DEF PublishedAlone, Swept
      <4> QED
        BY <3>1, <3>2, <3>3, <4>1 DEF Moves
    <3>4. CASE x \notin R
      <4>1. Still(x)
        BY <1>10, <3>1, <3>4 DEF PublishedAlone
      <4> QED
        BY <1>1, <3>1, <3>2, <3>4, <4>1, <2>2 DEF Still
    <3> QED
      BY <3>3, <3>4
  <2> QED
    BY <2>1, <2>2
<1> QED
  BY <1>3, <1>4, <1>5, <1>6, <1>7, <1>8, <1>9, <1>10 DEF Decision

-----------------------------------------------------------------------------
(***************************************************************************)
(* Every action takes one of these decisions.                              *)
(***************************************************************************)

LEMMA MovesAre ==
  ASSUME TypeOK, NEW moves, DOMAIN moves \subseteq Requests,
         \A r \in DOMAIN moves : moves[r] \in Settled, Move(moves)
  PROVE  /\ \A r \in DOMAIN moves : Moves(r, moves[r])
         /\ \A r \in Requests \ DOMAIN moves : Still(r)
<1>1. ASSUME NEW r \in DOMAIN moves PROVE Moves(r, moves[r])
  BY MoveFields DEF Moves
<1>2. ASSUME NEW r \in Requests \ DOMAIN moves PROVE Still(r)
  <2>1. request'[r] = request[r]
    BY MoveFields
  <2> QED
    BY <2>1 DEF Still
<1> QED
  BY <1>1, <1>2

LEMMA OneMoveIs ==
  ASSUME TypeOK, NEW r \in Requests, NEW s \in Settled, Move(One(r, s))
  PROVE  /\ Moves(r, s) /\ Only(r)
         /\ request' \in [Requests -> RequestType]
         /\ trail' \in [Requests -> Seq(Statuses \X Statuses)]
<1>1. DOMAIN One(r, s) = {r} /\ One(r, s)[r] = s
  BY OneMove
<1>2. /\ DOMAIN One(r, s) \subseteq Requests
      /\ \A x \in DOMAIN One(r, s) : One(r, s)[x] \in Settled
  BY <1>1
<1>3. /\ \A x \in DOMAIN One(r, s) : Moves(x, One(r, s)[x])
      /\ \A x \in Requests \ DOMAIN One(r, s) : Still(x)
  BY <1>2, MovesAre
<1>4. Moves(r, s) /\ Only(r)
  BY <1>1, <1>3 DEF Only
<1> QED
  BY <1>2, <1>4, MoveFields

LEMMA Untouched ==
  ASSUME UNCHANGED <<request, policy, latest>>
  PROVE  Decision
<1>1. \A r \in Requests : Still(r)
  BY DEF Still
<1> QED
  BY <1>1 DEF NoDecision, Decision

-----------------------------------------------------------------------------
(***************************************************************************)
(* What a step leaves of the pages and handlers.                           *)
(***************************************************************************)

DeskKept(h) ==
  desk'[h].pc # "idle" =>
    /\ desk[h].pc # "idle"
    /\ desk'[h].actor = desk[h].actor
    /\ desk'[h].request = desk[h].request
    /\ desk'[h].seen = desk[h].seen
    /\ desk'[h].pc \in {"staging", "planned", "unusable"} => desk[h].seen.status = "submitted"
    /\ desk'[h].pc = "rejecting" => desk[h].seen.status \in {"submitted", "staged", "conflict"}

DesksKept == \A h \in Desks : DeskKept(h)

SubmittersKept == \A k \in Submitters : submitter'[k].pc = "admitted" => submitter'[k].actor \in Users

Kept == TypeOK' /\ Decision /\ DesksKept /\ SubmittersKept

(* A row changes only with its revision number.                            *)
Forward(r) ==
  request[r].status # "none" =>
    Still(r) \/ (request'[r].revision > request[r].revision /\ request'[r].status # "none")

LEMMA DecisionsGoForward ==
  ASSUME Agreed, TypeOK', Decision, NEW r \in Requests
  PROVE  Forward(r)
<1>1. request[r].revision \in Nat /\ request'[r].revision \in Nat
  BY DEF Agreed, Typed, TypeOK, RequestType
<1>2. \A s \in Settled : Moves(r, s) => Forward(r)
  BY <1>1 DEF Moves, Forward, Settled
<1>3. {"submitted", "staged", "rejected", "approved", "deployed", "conflict"} \subseteq Settled
  BY DEF Settled, Statuses
<1>4. Still(r) => Forward(r)
  BY DEF Forward
<1>5. CASE NoDecision
  BY <1>4, <1>5 DEF NoDecision
<1>6. CASE PublishedAlone
  BY <1>2, <1>3, <1>4, <1>6 DEF PublishedAlone, Swept
<1>7. ASSUME NEW x \in Requests, Submitted(x) PROVE Forward(r)
  BY <1>4, <1>7 DEF Submitted, Only, Forward
<1>8. ASSUME NEW x \in Requests, Conflicted(x) PROVE Forward(r)
  BY <1>2, <1>3, <1>4, <1>8 DEF Conflicted, Only
<1>9. ASSUME NEW x \in Requests, Staged(x) PROVE Forward(r)
  <2>1. x = r => Forward(r)
    BY <1>9 DEF Staged, Forward
  <2>2. x # r => Forward(r)
    BY <1>4, <1>9 DEF Staged, Only
  <2> QED
    BY <2>1, <2>2
<1>10. ASSUME NEW x \in Requests, Rejected(x) PROVE Forward(r)
  BY <1>2, <1>3, <1>4, <1>10 DEF Rejected, Only
<1>11. ASSUME NEW x \in Requests, Deployed(x) PROVE Forward(r)
  BY <1>2, <1>3, <1>4, <1>11 DEF Deployed, Only
<1>12. ASSUME NEW own \in Requests, NEW v \in 1..Len(policy), PublishedFor(own, v)
       PROVE  Forward(r)
  BY <1>2, <1>3, <1>4, <1>12 DEF PublishedFor, Swept
<1> QED
  BY <1>5, <1>6, <1>7, <1>8, <1>9, <1>10, <1>11, <1>12 DEF Decision

LEMMA KeptAgreed ==
  ASSUME Agreed, Kept
  PROVE  Agreed'
<1>1. ActionableOnLatestBase' /\ DecisionsAgree'
  BY DecisionsKept DEF Kept
<1>2. ASSUME NEW h \in Desks, desk'[h].pc # "idle"
      PROVE  /\ desk'[h].request \in Requests /\ desk'[h].actor \in Users
             /\ desk'[h].pc \in {"staging", "planned", "unusable"} =>
                  desk'[h].seen.status = "submitted"
             /\ desk'[h].pc = "rejecting" =>
                  desk'[h].seen.status \in {"submitted", "staged", "conflict"}
             /\ Copied(h)'
  <2>1. /\ desk[h].pc # "idle" /\ Copied(h)
        /\ desk[h].request \in Requests /\ desk[h].actor \in Users
    BY <1>2 DEF Kept, DesksKept, DeskKept, Agreed, Typed, Handlers, Copies
  <2>2. /\ desk'[h].actor = desk[h].actor /\ desk'[h].request = desk[h].request
        /\ desk'[h].seen = desk[h].seen
        /\ desk'[h].pc \in {"staging", "planned", "unusable"} => desk[h].seen.status = "submitted"
        /\ desk'[h].pc = "rejecting" =>
             desk[h].seen.status \in {"submitted", "staged", "conflict"}
    BY <1>2 DEF Kept, DesksKept, DeskKept
  <2>3. Forward(desk[h].request)
    BY <2>1, DecisionsGoForward DEF Kept
  <2>4. /\ desk[h].seen.revision \in Nat
        /\ request[desk[h].request].revision \in Nat
        /\ request'[desk[h].request].revision \in Nat
    <3>1. desk[h] \in DeskType /\ request[desk[h].request] \in RequestType
      BY <2>1 DEF Agreed, Typed, TypeOK
    <3>2. request'[desk[h].request] \in RequestType
      BY <2>1 DEF Kept, TypeOK
    <3> QED
      BY <3>1, <3>2 DEF DeskType, RequestType
  <2>5. Copied(h)'
    <3>1. CASE Still(desk[h].request)
      BY <2>1, <2>2, <3>1 DEF Copied, Still
    <3>2. CASE ~Still(desk[h].request)
      BY <2>1, <2>2, <2>3, <2>4, <3>2 DEF Copied, Forward
    <3> QED
      BY <3>1, <3>2
  <2> QED
    BY <2>1, <2>2, <2>5
<1>3. Handlers' /\ Copies'
  BY <1>2 DEF Kept, SubmittersKept, Handlers, Copies
<1> QED
  BY <1>1, <1>3 DEF Kept, Agreed, Typed

LEMMA IdleTypes ==
  /\ Unsubmitted \in RequestType /\ IdleDesk \in DeskType
  /\ IdleDesk.pc = "idle" /\ IdleDesk.request = NoRequest /\ IdleSubmitter.pc = "idle"
  /\ IdleSubmitter \in [pc : {"idle", "admitted"}, actor : Users \cup {NoUser}, base : Nat]
<1>1. Unsubmitted \in RequestType
  BY DEF Unsubmitted, RequestType, Statuses
<1> QED
  BY <1>1 DEF IdleDesk, DeskType, IdleSubmitter

LEMMA DesksUntouched ==
  ASSUME Agreed, UNCHANGED desk
  PROVE  DesksKept
BY DEF Agreed, Typed, Handlers, DesksKept, DeskKept

LEMMA SubmittersUntouched ==
  ASSUME Agreed, UNCHANGED submitter
  PROVE  SubmittersKept
BY DEF Agreed, Typed, Handlers, SubmittersKept

LEMMA Left ==
  ASSUME Agreed, NEW h \in Desks, Leave(h)
  PROVE  desk' \in [Desks -> DeskType] /\ DesksKept
<1>1. desk \in [Desks -> DeskType]
  BY DEF Agreed, Typed, TypeOK
<1>2. desk' = [desk EXCEPT ![h] = IdleDesk]
  BY DEF Leave
<1>3. desk' \in [Desks -> DeskType]
  BY <1>1, <1>2, IdleTypes
<1>4. ASSUME NEW g \in Desks PROVE DeskKept(g)
  <2>1. CASE g = h
    BY <1>1, <1>2, <2>1, IdleTypes DEF DeskKept
  <2>2. CASE g # h
    BY <1>1, <1>2, <2>2 DEF DeskKept, Agreed, Typed, Handlers
  <2> QED
    BY <2>1, <2>2
<1> QED
  BY <1>3, <1>4 DEF DesksKept

(* A handler goes on: only its pc, and what it read, change.               *)
LEMMA WentOn ==
  ASSUME Agreed, NEW h \in Desks, desk[h].pc # "idle",
         desk' = [desk EXCEPT ![h] = desk'[h]], desk'[h] \in DeskType,
         desk'[h].actor = desk[h].actor, desk'[h].request = desk[h].request,
         desk'[h].seen = desk[h].seen,
         desk'[h].pc \in {"staging", "planned", "unusable"} => desk[h].seen.status = "submitted",
         desk'[h].pc = "rejecting" => desk[h].seen.status \in {"submitted", "staged", "conflict"}
  PROVE  desk' \in [Desks -> DeskType] /\ DesksKept
<1>1. desk \in [Desks -> DeskType]
  BY DEF Agreed, Typed, TypeOK
<1>2. desk' \in [Desks -> DeskType]
  BY <1>1
<1>3. ASSUME NEW g \in Desks PROVE DeskKept(g)
  <2>1. CASE g = h
    BY <2>1 DEF DeskKept
  <2>2. CASE g # h
    BY <1>1, <2>2 DEF DeskKept, Agreed, Typed, Handlers
  <2> QED
    BY <2>1, <2>2
<1> QED
  BY <1>2, <1>3 DEF DesksKept

LEMMA GoneTo ==
  ASSUME Agreed, NEW h \in Desks, desk[h].pc # "idle",
         NEW pc \in {"staging", "unusable"}, desk[h].seen.status = "submitted", GoTo(h, pc)
  PROVE  desk' \in [Desks -> DeskType] /\ DesksKept
<1>1. desk \in [Desks -> DeskType]
  BY DEF Agreed, Typed, TypeOK
<1>2. desk'[h] = [desk[h] EXCEPT !.pc = pc] /\ desk' = [desk EXCEPT ![h] = desk'[h]]
  BY <1>1 DEF GoTo
<1>3. desk[h] \in DeskType
  BY <1>1
<1>4. /\ desk'[h] \in DeskType /\ desk'[h].actor = desk[h].actor
      /\ desk'[h].request = desk[h].request /\ desk'[h].seen = desk[h].seen
      /\ desk'[h].pc = pc
  BY <1>2, <1>3 DEF DeskType
<1> QED
  BY <1>2, <1>4, WentOn

-----------------------------------------------------------------------------
(***************************************************************************)
(* The actions.                                                            *)
(***************************************************************************)

LEMMA AdmitSubmissionStep ==
  ASSUME Agreed, NEW k \in Submitters, NEW u \in Users, AdmitSubmission(k, u)
  PROVE  Kept
<1>1. TypeOK /\ latest \in Nat
  BY DEF Agreed, Typed, TypeOK
<1>2. /\ submitter' = [submitter EXCEPT ![k] = [pc |-> "admitted", actor |-> u, base |-> latest]]
      /\ UNCHANGED <<role, accountsVersion, request, trail, policy, latest, protocol, run,
                     desk, runs, crashes>>
  BY DEF AdmitSubmission, tables
<1>3. TypeOK'
  BY <1>1, <1>2 DEF TypeOK
<1>4. SubmittersKept
  BY <1>1, <1>2 DEF SubmittersKept, TypeOK, Agreed, Typed, Handlers
<1> QED
  BY <1>2, <1>3, <1>4, Untouched, DesksUntouched DEF Kept

LEMMA StoreSubmittedStep ==
  ASSUME Agreed, NEW k \in Submitters, NEW r \in Requests, StoreSubmitted(k, r)
  PROVE  Kept
<1>1. /\ TypeOK /\ submitter[k].actor \in Users /\ submitter[k].base \in Nat
      /\ request[r].status = "none" /\ request \in [Requests -> RequestType]
      /\ trail \in [Requests -> Seq(Statuses \X Statuses)]
  BY DEF StoreSubmitted, Agreed, Typed, TypeOK, Handlers
<1>2. /\ submitter' = [submitter EXCEPT ![k] = IdleSubmitter]
      /\ UNCHANGED <<role, accountsVersion, policy, latest, protocol, run, desk, runs, crashes>>
  BY DEF StoreSubmitted
<1>3. SubmittersKept
  BY <1>1, <1>2, IdleTypes DEF SubmittersKept, TypeOK, Agreed, Typed, Handlers
<1>4. submitter' \in [Submitters -> [pc : {"idle", "admitted"}, actor : Users \cup {NoUser},
                                base : Nat]]
  BY <1>1, <1>2, IdleTypes DEF TypeOK
<1>5. CASE Insertable(k)
  <2> DEFINE q == [status |-> "submitted", requester |-> submitter[k].actor,
                   base |-> submitter[k].base, revision |-> 1, linked |-> 0, recent |-> TRUE]
  <2>1. /\ request' = [request EXCEPT ![r] = q]
        /\ trail' = [trail EXCEPT ![r] = << <<"none", "submitted">> >>]
    BY <1>5 DEF StoreSubmitted
  <2>3. q \in RequestType /\ q.status = "submitted" /\ q.linked = 0
        /\ q.base = submitter[k].base
    BY <1>1 DEF RequestType, Statuses
  <2>4. request' \in [Requests -> RequestType]
    BY <1>1, <2>1, <2>3
  <2>5. <<"none", "submitted">> \in Statuses \X Statuses
    BY DEF Statuses
  <2>6. trail' \in [Requests -> Seq(Statuses \X Statuses)]
    BY <1>1, <2>1, <2>5
  <2>7. TypeOK'
    BY <1>1, <1>2, <1>4, <2>4, <2>6 DEF TypeOK
  <2>8. /\ request'[r] = q
        /\ \A x \in Requests \ {r} : request'[x] = request[x]
    BY <1>1, <2>1
  <2>9. Submitted(r)
    BY <1>1, <1>2, <1>5, <2>3, <2>8 DEF Submitted, Only, Still, Insertable
  <2> QED
    BY <1>2, <1>3, <2>7, <2>9, DesksUntouched DEF Kept, Decision
<1>6. CASE ~Insertable(k)
  <2>1. UNCHANGED <<request, trail>>
    BY <1>6 DEF StoreSubmitted
  <2>2. TypeOK'
    BY <1>1, <1>2, <1>4, <2>1 DEF TypeOK
  <2> QED
    BY <1>2, <1>3, <2>1, <2>2, Untouched, DesksUntouched DEF Kept
<1> QED
  BY <1>5, <1>6

LEMMA LeaveWindowStep ==
  ASSUME Agreed, NEW r \in Requests, LeaveWindow(r)
  PROVE  Kept
<1>1. TypeOK /\ request \in [Requests -> RequestType]
  BY DEF Agreed, Typed, TypeOK
<1>2. /\ request' = [request EXCEPT ![r].recent = FALSE]
      /\ UNCHANGED <<role, accountsVersion, trail, policy, latest, protocol, run,
                     submitter, desk, runs, crashes>>
  BY DEF LeaveWindow
<1>3. request'[r] = [request[r] EXCEPT !.recent = FALSE]
      /\ \A x \in Requests \ {r} : request'[x] = request[x]
  BY <1>1, <1>2
<1>4. request[r] \in RequestType
  BY <1>1
<1>8. request'[r] \in RequestType
  BY <1>3, <1>4 DEF RequestType
<1>9. Still(r)
  BY <1>3, <1>4 DEF RequestType, Still
<1>5. request' \in [Requests -> RequestType]
  BY <1>1, <1>2, <1>3, <1>8
<1>6. TypeOK'
  BY <1>1, <1>2, <1>5 DEF TypeOK
<1>7. NoDecision
  BY <1>2, <1>3, <1>9 DEF NoDecision, Still
<1> QED
  BY <1>2, <1>6, <1>7, DesksUntouched, SubmittersUntouched DEF Kept, Decision

(* A page is a copy of the row.                                            *)
LEMMA ListRequestsStep ==
  ASSUME Agreed, NEW h \in Desks, NEW u \in Users, NEW r \in Requests, ListRequests(h, u, r)
  PROVE  Agreed'
<1> DEFINE page == [pc |-> "viewing", actor |-> u, request |-> r,
                   seen |-> [request[r] EXCEPT !.recent = FALSE],
                   accounts |-> 0, bypass |-> FALSE]
<1>1. /\ TypeOK /\ request \in [Requests -> RequestType] /\ desk \in [Desks -> DeskType]
  BY DEF Agreed, Typed, TypeOK
<1>2. /\ request[r].status # "none"
      /\ desk' = [desk EXCEPT ![h] = page]
      /\ UNCHANGED <<role, accountsVersion, request, trail, policy, latest, protocol, run,
                     submitter, runs, crashes>>
  BY DEF ListRequests, tables
<1>4. /\ request[r] \in RequestType
      /\ [request[r] EXCEPT !.recent = FALSE] \in RequestType
  BY <1>1 DEF RequestType
<1>5. page \in DeskType
  BY <1>4 DEF DeskType
<1>6. TypeOK'
  BY <1>1, <1>2, <1>5 DEF TypeOK
<1>7. desk'[h] = page /\ \A g \in Desks \ {h} : desk'[g] = desk[g]
  BY <1>1, <1>2
<1>8. Handlers'
  BY <1>2, <1>7 DEF Agreed, Typed, Handlers
<1>9. ASSUME NEW g \in Desks, desk'[g].pc # "idle" PROVE Copied(g)'
  <2>1. CASE g = h
    <3>1. /\ desk'[h].request = r
          /\ desk'[h].seen = [request[r] EXCEPT !.recent = FALSE]
      BY <1>7
    <3> QED
      BY <1>2, <1>4, <2>1, <3>1 DEF Copied, RequestType
  <2>2. CASE g # h
    <3>1. desk'[g] = desk[g] /\ Copied(g)
      BY <1>7, <1>9, <2>2 DEF Agreed, Copies
    <3> QED
      BY <1>2, <3>1 DEF Copied
  <2> QED
    BY <2>1, <2>2
<1>10. ActionableOnLatestBase' /\ DecisionsAgree'
  BY <1>2 DEF Agreed, ActionableOnLatestBase, DecisionsAgree
<1> QED
  BY <1>6, <1>8, <1>9, <1>10 DEF Agreed, Typed, Copies

LEMMA LoadForStagingStep ==
  ASSUME Agreed, NEW h \in Desks, LoadForStaging(h)
  PROVE  Kept
<1>1. /\ desk[h].pc # "idle" /\ desk[h].seen.status = "submitted" /\ GoTo(h, "staging")
      /\ UNCHANGED <<role, accountsVersion, request, trail, policy, latest, protocol, run,
                     submitter, runs, crashes>>
  BY DEF LoadForStaging, tables
<1>2. desk' \in [Desks -> DeskType] /\ DesksKept
  BY <1>1, GoneTo
<1>3. TypeOK'
  BY <1>1, <1>2 DEF Agreed, Typed, TypeOK
<1> QED
  BY <1>1, <1>2, <1>3, Untouched, SubmittersUntouched DEF Kept

LEMMA BuildCandidateStep ==
  ASSUME Agreed, NEW h \in Desks, BuildCandidate(h)
  PROVE  Kept
<1>1. /\ desk[h].pc # "idle" /\ desk[h].seen.status = "submitted"
      /\ UNCHANGED <<role, accountsVersion, request, trail, policy, latest, protocol, run,
                     submitter, runs, crashes>>
  BY DEF BuildCandidate, tables, Agreed, Typed, Handlers
<1>2. desk' \in [Desks -> DeskType] /\ DesksKept
  <2>1. CASE GoTo(h, "unusable")
    BY <1>1, <2>1, GoneTo
  <2>2. CASE desk' = [desk EXCEPT ![h].pc = "planned", ![h].accounts = accountsVersion]
    <3>1. desk \in [Desks -> DeskType] /\ accountsVersion \in Nat
      BY DEF Agreed, Typed, TypeOK
    <3> DEFINE d == [desk[h] EXCEPT !.pc = "planned"]
    <3>2. d \in DeskType /\ d.pc = "planned" /\ d.actor = desk[h].actor
          /\ d.request = desk[h].request /\ d.seen = desk[h].seen
      BY <3>1 DEF DeskType
    <3>3. desk'[h] = [d EXCEPT !.accounts = accountsVersion]
      BY <2>2, <3>1
    <3>4. desk' = [desk EXCEPT ![h] = desk'[h]]
      BY <2>2, <3>1
    <3> HIDE DEF d
    <3>5. /\ desk'[h] \in DeskType /\ desk'[h].actor = desk[h].actor
          /\ desk'[h].request = desk[h].request /\ desk'[h].seen = desk[h].seen
          /\ desk'[h].pc = "planned"
      BY <3>1, <3>2, <3>3 DEF DeskType
    <3> QED
      BY <1>1, <3>4, <3>5, WentOn
  <2> QED
    BY <2>1, <2>2 DEF BuildCandidate
<1>3. TypeOK'
  BY <1>1, <1>2 DEF Agreed, Typed, TypeOK
<1> QED
  BY <1>1, <1>2, <1>3, Untouched, SubmittersUntouched DEF Kept

LEMMA MarkRequestConflictStep ==
  ASSUME Agreed, NEW h \in Desks, MarkRequestConflict(h)
  PROVE  Kept
<1> DEFINE r == desk[h].request
<1>1. /\ r \in Requests /\ desk[h].seen.status = "submitted" /\ Leave(h)
      /\ UNCHANGED <<role, accountsVersion, policy, latest, protocol, run, submitter, runs,
                     crashes>>
  BY DEF MarkRequestConflict, Agreed, Typed, Handlers
<1>2. desk' \in [Desks -> DeskType] /\ DesksKept
  BY <1>1, Left
<1>3. CASE UnchangedSince(h)
  <2>1. request[r].status = "submitted" /\ Move(One(r, "conflict"))
    BY <1>1, <1>3 DEF MarkRequestConflict, UnchangedSince
  <2>2. /\ Moves(r, "conflict") /\ Only(r)
        /\ request' \in [Requests -> RequestType]
        /\ trail' \in [Requests -> Seq(Statuses \X Statuses)]
    BY <1>1, <2>1, OneMoveIs DEF Agreed, Typed, Settled, Statuses
  <2>3. TypeOK'
    BY <1>1, <1>2, <2>2 DEF Agreed, Typed, TypeOK
  <2>4. Conflicted(r)
    BY <1>1, <2>1, <2>2 DEF Conflicted
  <2> QED
    BY <1>1, <1>2, <2>3, <2>4, SubmittersUntouched DEF Kept, Decision
<1>4. CASE ~UnchangedSince(h)
  <2>1. UNCHANGED <<request, trail>>
    BY <1>4 DEF MarkRequestConflict
  <2>2. TypeOK'
    BY <1>1, <1>2, <2>1 DEF Agreed, Typed, TypeOK
  <2> QED
    BY <1>1, <1>2, <2>1, <2>2, Untouched, SubmittersUntouched DEF Kept
<1> QED
  BY <1>3, <1>4

LEMMA LoadForRejectionStep ==
  ASSUME Agreed, NEW h \in Desks, LoadForRejection(h)
  PROVE  Kept
<1>1. /\ desk[h].pc # "idle" /\ desk[h].seen.status \in {"submitted", "staged", "conflict"}
      /\ desk' = [desk EXCEPT ![h].pc = "rejecting", ![h].bypass = BypassesFourEyes(desk[h].actor)]
      /\ UNCHANGED <<role, accountsVersion, request, trail, policy, latest, protocol, run,
                     submitter, runs, crashes>>
  BY DEF LoadForRejection, tables
<1>2. desk' \in [Desks -> DeskType] /\ DesksKept
  <2> DEFINE d == [desk[h] EXCEPT !.pc = "rejecting"]
             bp == BypassesFourEyes(desk[h].actor)
  <2>1. desk \in [Desks -> DeskType] /\ bp \in BOOLEAN
    BY DEF Agreed, Typed, TypeOK, BypassesFourEyes
  <2>2. d \in DeskType /\ d.pc = "rejecting" /\ d.actor = desk[h].actor
        /\ d.request = desk[h].request /\ d.seen = desk[h].seen
    BY <2>1 DEF DeskType
  <2>3. /\ desk'[h] = [d EXCEPT !.bypass = bp]
        /\ desk' = [desk EXCEPT ![h] = desk'[h]]
    BY <1>1, <2>1
  <2> HIDE DEF d, bp
  <2>4. /\ desk'[h] \in DeskType /\ desk'[h].actor = desk[h].actor
        /\ desk'[h].request = desk[h].request /\ desk'[h].seen = desk[h].seen
        /\ desk'[h].pc = "rejecting"
    BY <2>1, <2>2, <2>3 DEF DeskType
  <2> QED
    BY <1>1, <2>3, <2>4, WentOn
<1>3. TypeOK'
  BY <1>1, <1>2 DEF Agreed, Typed, TypeOK
<1> QED
  BY <1>1, <1>2, <1>3, Untouched, SubmittersUntouched DEF Kept

LEMMA RejectRequestStep ==
  ASSUME Agreed, NEW h \in Desks, RejectRequest(h)
  PROVE  Kept
<1> DEFINE r == desk[h].request
           decided == UnchangedSince(h) /\ (desk[h].seen.linked # 0 => RevisionRejectable(h))
<1>1. /\ r \in Requests /\ desk[h].pc # "idle"
      /\ desk[h].seen.status \in {"submitted", "staged", "conflict"} /\ Leave(h)
      /\ UNCHANGED <<role, accountsVersion, latest, protocol, run, submitter, runs, crashes>>
  BY DEF RejectRequest, Agreed, Typed, Handlers
<1>2. desk' \in [Desks -> DeskType] /\ DesksKept
  BY <1>1, Left
<1>3. CASE decided
  <2>1. /\ Move(One(r, "rejected")) /\ SettlePolicies({desk[h].seen.linked}, "rejected")
        /\ UnchangedSince(h)
    BY <1>3 DEF RejectRequest
  <2>2. /\ request[r].status \in {"submitted", "staged", "conflict"}
        /\ desk[h].seen.linked = request[r].linked
    BY <1>1, <2>1 DEF UnchangedSince, Agreed, Copies, Copied
  <2>3. /\ Moves(r, "rejected") /\ Only(r)
        /\ request' \in [Requests -> RequestType]
        /\ trail' \in [Requests -> Seq(Statuses \X Statuses)]
    BY <1>1, <2>1, OneMoveIs DEF Agreed, Typed, Settled, Statuses
  <2>4. /\ policy' \in Seq(PolicyType) /\ Len(policy') = Len(policy)
        /\ Settling({request[r].linked}, "rejected")
    BY <2>1, <2>2, SettleFields DEF Agreed, Typed, Settling
  <2>5. TypeOK'
    BY <1>1, <1>2, <2>3, <2>4 DEF Agreed, Typed, TypeOK
  <2>6. Rejected(r)
    BY <1>1, <2>2, <2>3, <2>4 DEF Rejected
  <2> QED
    BY <1>1, <1>2, <2>5, <2>6, SubmittersUntouched DEF Kept, Decision
<1>4. CASE ~decided
  <2>1. UNCHANGED <<request, trail, policy>>
    BY <1>4 DEF RejectRequest
  <2>2. TypeOK'
    BY <1>1, <1>2, <2>1 DEF Agreed, Typed, TypeOK
  <2> QED
    BY <1>1, <1>2, <2>1, <2>2, Untouched, SubmittersUntouched DEF Kept
<1> QED
  BY <1>3, <1>4

LEMMA RejectRevisionStep ==
  ASSUME Agreed, NEW u \in Users, NEW v \in 1..Len(policy), RejectRevision(u, v)
  PROVE  Kept
<1> DEFINE r == policy[v].request
<1>1. /\ r \in Requests /\ request[r].status \in {"staged", "conflict"}
      /\ Move(One(r, "rejected")) /\ SettlePolicies({v}, "rejected")
      /\ UNCHANGED <<role, accountsVersion, latest, protocol, run, submitter, desk, runs, crashes>>
  BY FieldTypes DEF RejectRevision, Agreed, Typed
<1>2. request[r].linked = v
  BY <1>1, RequestsAssumption DEF Agreed, DecisionsAgree
<1>3. /\ Moves(r, "rejected") /\ Only(r)
      /\ request' \in [Requests -> RequestType]
      /\ trail' \in [Requests -> Seq(Statuses \X Statuses)]
  BY <1>1, OneMoveIs DEF Agreed, Typed, Settled, Statuses
<1>4. /\ policy' \in Seq(PolicyType) /\ Len(policy') = Len(policy)
      /\ Settling({request[r].linked}, "rejected")
  BY <1>1, <1>2, SettleFields DEF Agreed, Typed, Settling
<1>5. TypeOK'
  BY <1>1, <1>3, <1>4 DEF Agreed, Typed, TypeOK
<1>6. Rejected(r)
  BY <1>1, <1>3, <1>4 DEF Rejected
<1> QED
  BY <1>1, <1>5, <1>6, SubmittersUntouched, DesksUntouched DEF Kept, Decision

LEMMA StartRunStep ==
  ASSUME Agreed, NEW u \in Users, StartRun(u)
  PROVE  Kept
<1>1. /\ run' = TRUE /\ protocol' = "incomplete" /\ runs' = runs + 1
      /\ UNCHANGED <<role, accountsVersion, request, trail, policy, latest, submitter, desk,
                     crashes>>
  BY DEF StartRun, tables
<1>2. TypeOK'
  BY <1>1 DEF Agreed, Typed, TypeOK
<1> QED
  BY <1>1, <1>2, Untouched, SubmittersUntouched, DesksUntouched DEF Kept

LEMMA MutateAccountStep ==
  ASSUME Agreed, NEW a \in Users, NEW u \in Users, NEW r \in Roles, MutateAccount(a, u, r)
  PROVE  Kept
<1>1. /\ role' = [role EXCEPT ![u] = r] /\ accountsVersion' = accountsVersion + 1
      /\ UNCHANGED <<request, trail, policy, latest, protocol, run, submitter, desk, runs,
                     crashes>>
  BY DEF MutateAccount, tables
<1>2. TypeOK'
  BY <1>1 DEF Agreed, Typed, TypeOK
<1> QED
  BY <1>1, <1>2, Untouched, SubmittersUntouched, DesksUntouched DEF Kept

LEMMA CrashStep ==
  ASSUME Agreed, Crash
  PROVE  Kept
<1>1. /\ crashes' = crashes + 1 /\ run' = FALSE
      /\ submitter' = [k \in Submitters |-> IdleSubmitter]
      /\ desk' = [h \in Desks |-> IF desk[h].pc = "viewing" THEN desk[h] ELSE IdleDesk]
      /\ UNCHANGED <<role, accountsVersion, request, trail, policy, latest, protocol, runs>>
  BY DEF Crash, tables
<1>2. desk \in [Desks -> DeskType]
  BY DEF Agreed, Typed, TypeOK
<1>3. desk' \in [Desks -> DeskType]
  BY <1>1, <1>2, IdleTypes
<1>4. submitter' \in [Submitters -> [pc : {"idle", "admitted"}, actor : Users \cup {NoUser},
                                base : Nat]]
  BY <1>1, IdleTypes
<1>5. TypeOK'
  <2>1. /\ crashes' = crashes + 1 /\ run' = FALSE
        /\ UNCHANGED <<role, accountsVersion, request, trail, policy, latest, protocol, runs>>
    BY <1>1
  <2>2. run' \in BOOLEAN
    BY <2>1
  <2>3. crashes' \in Nat
    BY <2>1 DEF Agreed, Typed, TypeOK
  <2>4. UNCHANGED <<role, accountsVersion, request, trail, policy, latest, protocol, runs>>
    BY <2>1
  <2> QED
    BY <1>3, <1>4, <2>2, <2>3, <2>4 DEF Agreed, Typed, TypeOK
<1>6. SubmittersKept
  BY <1>1, IdleTypes DEF SubmittersKept
<1>7. ASSUME NEW h \in Desks PROVE DeskKept(h)
  <2>1. CASE desk[h].pc = "viewing"
    BY <1>1, <2>1 DEF DeskKept
  <2>2. CASE desk[h].pc # "viewing"
    BY <1>1, <2>2, IdleTypes DEF DeskKept
  <2> QED
    BY <2>1, <2>2
<1> QED
  BY <1>1, <1>5, <1>6, <1>7, Untouched DEF Kept, DesksKept

LEMMA FinishRunStep ==
  ASSUME Agreed, NEW complete \in BOOLEAN, FinishRun(complete)
  PROVE  Kept
<1> DEFINE r == policy[latest].request
<1>1. /\ protocol' \in {"incomplete", "complete"} /\ run' = FALSE
      /\ UNCHANGED <<role, accountsVersion, policy, latest, submitter, desk, runs, crashes>>
  <2>1. protocol' = (IF complete /\ Loggable(complete) THEN "complete" ELSE "incomplete")
        /\ run' = FALSE
        /\ UNCHANGED <<role, accountsVersion, policy, latest, submitter, desk, runs, crashes>>
    BY DEF FinishRun
  <2> QED
    BY <2>1
<1>2. /\ request \in [Requests -> RequestType]
      /\ trail \in [Requests -> Seq(Statuses \X Statuses)]
  BY DEF Agreed, Typed, TypeOK
<1>3. SUFFICES /\ request' \in [Requests -> RequestType]
               /\ trail' \in [Requests -> Seq(Statuses \X Statuses)]
               /\ Decision
  BY <1>1, SubmittersUntouched, DesksUntouched DEF Kept, Agreed, Typed, TypeOK
<1>4. CASE ~(Loggable(complete) /\ r # NoRequest)
  <2>1. UNCHANGED <<request, trail>>
    BY <1>4 DEF FinishRun
  <2> QED
    BY <1>1, <1>2, <2>1, Untouched
<1>5. CASE LogRun(r, complete) /\ complete /\ request[r].status = "approved"
  <2>1. Move(One(r, "deployed"))
    BY <1>5 DEF LogRun
  <2>2. CASE r \in Requests
    <3>1. /\ Moves(r, "deployed") /\ Only(r)
          /\ request' \in [Requests -> RequestType]
          /\ trail' \in [Requests -> Seq(Statuses \X Statuses)]
      BY <2>1, <2>2, OneMoveIs DEF Agreed, Typed, Settled, Statuses
    <3>2. Deployed(r)
      BY <1>1, <1>5, <3>1 DEF Deployed
    <3> QED
      BY <2>2, <3>1, <3>2 DEF Decision
  <2>3. CASE r \notin Requests
    <3>1. request' = request /\ trail' = trail
      <4> DEFINE m == One(r, "deployed")
      <4>1. DOMAIN m = {r}
        BY OneMove
      <4>2. /\ request' = [x \in Requests |->
                 IF x \in DOMAIN m THEN Moved(request[x], m[x]) ELSE request[x]]
            /\ trail' = [x \in Requests |->
                 IF x \in DOMAIN m THEN Append(trail[x], <<request[x].status, m[x]>>)
                 ELSE trail[x]]
        BY <2>1 DEF Move
      <4> HIDE DEF m
      <4>3. \A x \in Requests : x \notin DOMAIN m
        BY <2>3, <4>1
      <4>4. request' = [x \in Requests |-> request[x]]
        BY <4>2, <4>3
      <4>5. trail' = [x \in Requests |-> trail[x]]
        BY <4>2, <4>3
      <4> QED
        BY <1>2, <4>4, <4>5
    <3> QED
      BY <1>1, <1>2, <3>1, Untouched
  <2> QED
    BY <2>2, <2>3
<1>6. CASE LogRun(r, complete) /\ ~(complete /\ request[r].status = "approved")
  <2>1. /\ UNCHANGED request
        /\ trail' = IF complete THEN trail
                    ELSE [trail EXCEPT ![r] = Append(@, <<request[r].status, request[r].status>>)]
    BY <1>6 DEF LogRun
  <2>2. ASSUME NEW x \in Requests PROVE <<request[x].status, request[x].status>> \in Statuses \X Statuses
    BY <1>2 DEF RequestType
  <2>3. trail' \in [Requests -> Seq(Statuses \X Statuses)]
    <3>1. ASSUME r \in Requests
          PROVE  Append(trail[r], <<request[r].status, request[r].status>>)
                   \in Seq(Statuses \X Statuses)
      <4>1. trail[r] \in Seq(Statuses \X Statuses)
        BY <1>2, <3>1
      <4>2. <<request[r].status, request[r].status>> \in Statuses \X Statuses
        BY <2>2, <3>1
      <4> QED
        BY <4>1, <4>2
    <3> QED
      BY <1>2, <2>1, <3>1
  <2> QED
    BY <1>1, <1>2, <2>1, <2>3, Untouched
<1> QED
  BY <1>4, <1>5, <1>6 DEF FinishRun

(* Rows as they are inside a transaction, "processing" included.           *)
RowType == [status : Statuses, requester : Users \cup {NoUser}, base : Nat, revision : Nat,
            linked : Nat, recent : BOOLEAN]

LEMMA MovedRow ==
  ASSUME NEW q \in RowType, NEW s \in Statuses
  PROVE  /\ Moved(q, s) \in RowType
         /\ Moved(q, s).status = s
         /\ Moved(q, s).revision = q.revision + 1
         /\ Moved(q, s).requester = q.requester
         /\ Moved(q, s).base = q.base
<1>1. [q EXCEPT !.status = s] \in RowType /\ q.revision + 1 \in Nat
  BY DEF RowType
<1>2. Moved(q, s) = [[q EXCEPT !.status = s] EXCEPT !.revision = q.revision + 1]
  BY DEF Moved
<1>3. Moved(q, s) \in RowType
  BY <1>1, <1>2 DEF RowType
<1> QED
  BY <1>3 DEF Moved, RowType

(* Staging: the row as it is after the transaction.                        *)
LEMMA StagedRow ==
  ASSUME NEW q \in RequestType, NEW n \in Nat
  PROVE  LET x == [Moved(Moved(q, "processing"), "staged") EXCEPT !.linked = n]
         IN  /\ x \in RequestType
             /\ x.status = "staged" /\ x.linked = n /\ x.base = q.base
             /\ x.revision = q.revision + 2
<1>1. q \in RowType /\ q.revision \in Nat
  BY DEF RequestType, RowType
<1> DEFINE p == Moved(q, "processing")
           m == Moved(p, "staged")
           x == [m EXCEPT !.linked = n]
<1>2. p \in RowType /\ p.revision = q.revision + 1 /\ p.base = q.base
  BY <1>1, MovedRow DEF Statuses
<1>3. m \in RowType /\ m.revision = p.revision + 1 /\ m.base = p.base /\ m.status = "staged"
  <2> HIDE DEF p
  <2> QED
    BY <1>2, MovedRow DEF Statuses
<1> HIDE DEF m
<1>4. /\ x \in RowType /\ x.status = "staged" /\ x.linked = n /\ x.base = m.base
      /\ x.revision = m.revision
  BY <1>3 DEF RowType
<1> HIDE DEF p, x
<1>5. x \in RequestType
  BY <1>4 DEF RowType, RequestType
<1>6. /\ x \in RequestType
      /\ x.status = "staged" /\ x.linked = n /\ x.base = q.base
      /\ x.revision = q.revision + 2
  BY <1>1, <1>2, <1>3, <1>4, <1>5
<1> QED
  BY <1>6 DEF x, m, p

LEMMA PersistStagedStep ==
  ASSUME Agreed, NEW h \in Desks, NEW commands \in BOOLEAN, PersistStaged(h, commands)
  PROVE  Kept
<1> DEFINE r == desk[h].request
           n == Len(policy) + 1
           row == [request |-> r, creator |-> desk[h].actor, commands |-> commands,
                   status |-> "pending"]
<1>1. /\ r \in Requests /\ desk[h].actor \in Users /\ desk[h].seen.status = "submitted"
      /\ desk[h].pc # "idle" /\ Leave(h)
      /\ UNCHANGED <<role, accountsVersion, latest, protocol, run, submitter, runs, crashes>>
  BY DEF PersistStaged, Agreed, Typed, Handlers
<1>2. desk' \in [Desks -> DeskType] /\ DesksKept
  BY <1>1, Left
<1>3. /\ request \in [Requests -> RequestType]
      /\ trail \in [Requests -> Seq(Statuses \X Statuses)]
      /\ policy \in Seq(PolicyType) /\ n \in Nat
  BY DEF Agreed, Typed, TypeOK
<1>4. CASE ~(desk[h].accounts = accountsVersion /\ UnchangedSince(h))
  <2>1. UNCHANGED <<request, trail, policy>>
    BY <1>4 DEF PersistStaged
  <2>2. TypeOK'
    BY <1>1, <1>2, <2>1 DEF Agreed, Typed, TypeOK
  <2> QED
    BY <1>1, <1>2, <2>1, <2>2, Untouched, SubmittersUntouched DEF Kept
<1>5. ASSUME desk[h].accounts = accountsVersion, UnchangedSince(h)
      PROVE  Kept
  <2>1. /\ request[r].status = "submitted" /\ request[r].base = desk[h].seen.base
    BY <1>1, <1>5 DEF UnchangedSince, Agreed, Copies, Copied
  <2>2. CASE latest # desk[h].seen.base
    <3>1. Move(One(r, "conflict")) /\ UNCHANGED policy
      BY <1>5, <2>2 DEF PersistStaged
    <3>2. /\ Moves(r, "conflict") /\ Only(r)
          /\ request' \in [Requests -> RequestType]
          /\ trail' \in [Requests -> Seq(Statuses \X Statuses)]
      BY <1>1, <3>1, OneMoveIs DEF Agreed, Typed, Settled, Statuses
    <3>3. TypeOK'
      BY <1>1, <1>2, <3>1, <3>2 DEF Agreed, Typed, TypeOK
    <3>4. Conflicted(r)
      BY <1>1, <2>1, <3>1, <3>2 DEF Conflicted
    <3> QED
      BY <1>1, <1>2, <3>3, <3>4, SubmittersUntouched DEF Kept, Decision
  <2>3. CASE latest = desk[h].seen.base
    <3>1. StageLinked(r, desk[h].actor, commands)
      BY <1>5, <2>3 DEF PersistStaged
    <3>2. /\ policy' = Append(policy, row)
          /\ request' = [request EXCEPT ![r] =
               [Moved(Moved(request[r], "processing"), "staged") EXCEPT !.linked = n]]
          /\ trail' = [trail EXCEPT ![r] =
               trail[r] \o << <<request[r].status, "processing">>, <<"processing", "staged">> >>]
      BY <3>1 DEF StageLinked
    <3>3. /\ request'[r] = [Moved(Moved(request[r], "processing"), "staged") EXCEPT !.linked = n]
          /\ \A x \in Requests \ {r} : request'[x] = request[x]
          /\ request' = [request EXCEPT ![r] = request'[r]]
      BY <1>1, <1>3, <3>2
    <3>4. /\ request'[r] \in RequestType
          /\ request'[r].status = "staged" /\ request'[r].linked = n
          /\ request'[r].base = request[r].base
          /\ request'[r].revision = request[r].revision + 2
      <4>1. request[r] \in RequestType
        BY <1>1, <1>3
      <4> DEFINE x == [Moved(Moved(request[r], "processing"), "staged") EXCEPT !.linked = n]
      <4>2. /\ x \in RequestType
            /\ x.status = "staged" /\ x.linked = n /\ x.base = request[r].base
            /\ x.revision = request[r].revision + 2
        BY <1>3, <4>1, StagedRow, Zenon
      <4> QED
        BY <3>3, <4>2, Zenon
    <3>5. request' \in [Requests -> RequestType]
      BY <1>3, <3>3, <3>4
    <3>6. << <<request[r].status, "processing">>, <<"processing", "staged">> >>
            \in Seq(Statuses \X Statuses)
      BY <2>1 DEF Statuses
    <3>7. trail' \in [Requests -> Seq(Statuses \X Statuses)]
      <4>1. trail[r] \o << <<request[r].status, "processing">>, <<"processing", "staged">> >>
              \in Seq(Statuses \X Statuses)
        <5>1. trail[r] \in Seq(Statuses \X Statuses)
          BY <1>1, <1>3
        <5> QED
          BY <3>6, <5>1
      <4> QED
        BY <1>3, <3>2, <4>1
    <3>8. row \in PolicyType
      BY <1>1 DEF PolicyType
    <3>9. /\ policy' \in Seq(PolicyType) /\ Len(policy') = n /\ policy'[n] = row
          /\ \A v \in 1..Len(policy) : policy'[v] = policy[v]
      <4> HIDE DEF row
      <4> QED
        BY <1>3, <3>2, <3>8
    <3>10. latest' \in 0..Len(policy')
      BY <1>1, <1>3, <3>9 DEF Agreed, Typed, TypeOK
    <3>11. TypeOK'
      BY <1>1, <1>2, <3>5, <3>7, <3>9, <3>10 DEF Agreed, Typed, TypeOK
    <3>12. request'[r].revision > request[r].revision
      BY <1>1, <1>3, <3>4 DEF RequestType
    <3>13. Only(r)
      BY <3>3 DEF Only, Still
    <3>14. Staged(r)
      BY <1>1, <2>1, <2>3, <3>4, <3>9, <3>12, <3>13 DEF Staged
    <3> QED
      BY <1>1, <1>2, <3>11, <3>14, SubmittersUntouched DEF Kept, Decision
  <2> QED
    BY <2>2, <2>3
<1> QED
  BY <1>4, <1>5

LEMMA PublishRequestStep ==
  ASSUME Agreed, NEW u \in Users, NEW v \in 1..Len(policy), PublishRequest(u, v)
  PROVE  Kept
<1> DEFINE own == policy[v].request
           swept == Obsolete(v) \ {own}
           moves == [r \in swept \cup {own} |-> IF r = own THEN "approved" ELSE "conflict"]
           V == {request[r].linked : r \in swept}
<1>1. /\ own \in Requests /\ policy[v].status = "pending" /\ request[own].status = "staged"
      /\ policy \in Seq(PolicyType) /\ Len(policy) \in Nat /\ swept \subseteq Requests
  BY FieldTypes DEF PublishRequest, Agreed, Typed, TypeOK, Obsolete
<1>2. /\ Move(moves)
      /\ policy' = [w \in 1..Len(policy) |->
              CASE w = v -> [policy[w] EXCEPT !.status = "published"]
                [] w # v /\ w \in V -> [policy[w] EXCEPT !.status = "rejected"]
                [] OTHER -> policy[w]]
      /\ latest' = v /\ protocol' = "none"
      /\ UNCHANGED <<role, accountsVersion, run, submitter, desk, runs, crashes>>
  BY DEF PublishRequest
<1>3. /\ DOMAIN moves = swept \cup {own} /\ moves[own] = "approved"
      /\ \A r \in swept : moves[r] = "conflict"
  OBVIOUS
<1>4. DOMAIN moves \subseteq Requests /\ \A r \in DOMAIN moves : moves[r] \in Settled
  BY <1>1 DEF Settled, Statuses
<1> HIDE DEF moves
<1>5. /\ \A r \in DOMAIN moves : Moves(r, moves[r])
      /\ \A r \in Requests \ DOMAIN moves : Still(r)
  BY <1>2, <1>4, MovesAre DEF Agreed, Typed
<1>6. /\ request' \in [Requests -> RequestType]
      /\ trail' \in [Requests -> Seq(Statuses \X Statuses)]
  BY <1>2, <1>4, MoveFields DEF Agreed, Typed
<1>7. ASSUME NEW w \in 1..Len(policy)
      PROVE  /\ policy'[w] \in PolicyType
             /\ policy'[w].request = policy[w].request
             /\ w = v => policy'[w].status = "published"
             /\ w # v => policy'[w].status = IF w \in V THEN "rejected" ELSE policy[w].status
  <2>1. policy[w] \in PolicyType
    BY <1>1
  <2>2. policy'[w] = IF w = v THEN [policy[w] EXCEPT !.status = "published"]
                     ELSE IF w \in V THEN [policy[w] EXCEPT !.status = "rejected"]
                     ELSE policy[w]
    BY <1>2
  <2> HIDE DEF V
  <2>3. policy'[w] \in PolicyType
    BY <2>1, <2>2 DEF PolicyType
  <2> QED
    BY <2>1, <2>2, <2>3 DEF PolicyType
<1>8. policy' \in Seq(PolicyType) /\ Len(policy') = Len(policy)
  <2>1. policy' = [w \in 1..Len(policy) |-> policy'[w]]
    BY <1>2
  <2>2. policy' \in [1..Len(policy) -> PolicyType]
    BY <1>7, <2>1
  <2> QED
    BY <1>1, <2>2
<1>9. TypeOK'
  <2>1. /\ latest' \in 0..Len(policy') /\ protocol' \in {"none", "incomplete", "complete"}
        /\ UNCHANGED <<role, accountsVersion, run, submitter, desk, runs, crashes>>
    BY <1>1, <1>2, <1>8
  <2> QED
    BY <1>6, <1>8, <2>1 DEF Agreed, Typed, TypeOK
<1>10. Moves(own, "approved") /\ Swept(swept)
       /\ \A r \in Requests \ (swept \cup {own}) : Still(r)
  BY <1>3, <1>5 DEF Swept
<1>11. PublishedFor(own, v)
  BY <1>1, <1>2, <1>7, <1>8, <1>10 DEF PublishedFor
<1> QED
  BY <1>1, <1>2, <1>9, <1>11, DesksUntouched, SubmittersUntouched DEF Kept, Decision

LEMMA PublishDirectStep ==
  ASSUME Agreed, NEW u \in Users, NEW commands \in BOOLEAN, PublishDirect(u, commands)
  PROVE  Kept
<1> DEFINE v == Len(policy) + 1
           swept == Obsolete(v)
           moves == [r \in swept |-> "conflict"]
           V == {request[r].linked : r \in swept}
           kept == [w \in 1..Len(policy) |->
                      IF w \in V THEN [policy[w] EXCEPT !.status = "rejected"] ELSE policy[w]]
           row == [request |-> NoRequest, creator |-> u, commands |-> commands,
                   status |-> "published"]
<1>1. /\ policy \in Seq(PolicyType) /\ Len(policy) \in Nat /\ swept \subseteq Requests
  BY DEF Agreed, Typed, TypeOK, Obsolete
<1>2. /\ Move(moves) /\ policy' = Append(kept, row)
      /\ latest' = v /\ protocol' = "none"
      /\ UNCHANGED <<role, accountsVersion, run, submitter, desk, runs, crashes>>
  BY DEF PublishDirect
<1>3. DOMAIN moves = swept /\ \A r \in swept : moves[r] = "conflict"
  OBVIOUS
<1>4. DOMAIN moves \subseteq Requests /\ \A r \in DOMAIN moves : moves[r] \in Settled
  BY <1>1 DEF Settled, Statuses
<1> HIDE DEF moves
<1>5. /\ \A r \in DOMAIN moves : Moves(r, moves[r])
      /\ \A r \in Requests \ DOMAIN moves : Still(r)
  BY <1>2, <1>4, MovesAre DEF Agreed, Typed
<1>6. /\ request' \in [Requests -> RequestType]
      /\ trail' \in [Requests -> Seq(Statuses \X Statuses)]
  BY <1>2, <1>4, MoveFields DEF Agreed, Typed
<1>7. ASSUME NEW w \in 1..Len(policy)
      PROVE  /\ kept[w] \in PolicyType /\ kept[w].request = policy[w].request
             /\ kept[w].status = IF w \in V THEN "rejected" ELSE policy[w].status
  <2>1. policy[w] \in PolicyType
    BY <1>1
  <2>2. kept[w] = IF w \in V THEN [policy[w] EXCEPT !.status = "rejected"] ELSE policy[w]
    OBVIOUS
  <2> HIDE DEF V, kept
  <2>3. kept[w] \in PolicyType
    BY <2>1, <2>2 DEF PolicyType
  <2> QED
    BY <2>1, <2>2, <2>3 DEF PolicyType
<1>8. kept \in Seq(PolicyType) /\ Len(kept) = Len(policy)
  <2>1. kept \in [1..Len(policy) -> PolicyType]
    BY <1>7
  <2> QED
    BY <1>1, <2>1
<1>9. row \in PolicyType /\ row.request = NoRequest
  BY DEF PolicyType
<1>10. /\ policy' \in Seq(PolicyType) /\ Len(policy') = v /\ policy'[v] = row
       /\ \A w \in 1..Len(policy) : policy'[w] = kept[w]
  <2> HIDE DEF kept, row
  <2> QED
    BY <1>1, <1>2, <1>8, <1>9
<1>11. TypeOK'
  <2> HIDE DEF kept, row
  <2> QED
    BY <1>1, <1>2, <1>6, <1>10 DEF Agreed, Typed, TypeOK
<1>12. Swept(swept) /\ \A r \in Requests \ swept : Still(r)
  BY <1>3, <1>5 DEF Swept
<1>13. Settling(V, "rejected")
  <2> HIDE DEF kept
  <2> QED
    BY <1>7, <1>10 DEF Settling
<1>14. PublishedAlone
  <2> HIDE DEF kept, row
  <2> QED
    BY <1>2, <1>9, <1>10, <1>12, <1>13 DEF PublishedAlone
<1> QED
  BY <1>2, <1>11, <1>14, DesksUntouched, SubmittersUntouched DEF Kept, Decision

-----------------------------------------------------------------------------
(***************************************************************************)
(* The invariant and the theorems.                                         *)
(***************************************************************************)

LEMMA AgreedInit ==
  ASSUME Init
  PROVE  Agreed
<1>1. TypeOK
  <2>1. /\ role \in [Users -> Roles] /\ accountsVersion \in Nat /\ run \in BOOLEAN
        /\ runs \in Nat /\ crashes \in Nat /\ protocol \in {"none", "incomplete", "complete"}
    BY RequestsAssumption DEF Init
  <2>2. /\ request \in [Requests -> RequestType]
        /\ submitter \in [Submitters -> [pc : {"idle", "admitted"}, actor : Users \cup {NoUser},
                                     base : Nat]]
        /\ desk \in [Desks -> DeskType]
    BY IdleTypes DEF Init
  <2>3. policy \in Seq(PolicyType) /\ latest \in 0..Len(policy)
    BY DEF Init
  <2>4. trail \in [Requests -> Seq(Statuses \X Statuses)]
    BY DEF Init
  <2> QED
    BY <2>1, <2>2, <2>3, <2>4 DEF TypeOK
<1>2. Handlers /\ Copies
  BY IdleTypes DEF Init, Handlers, Copies
<1>3. ActionableOnLatestBase /\ DecisionsAgree
  BY DEF Init, Unsubmitted, ActionableOnLatestBase, DecisionsAgree
<1> QED
  BY <1>1, <1>2, <1>3 DEF Agreed, Typed

LEMMA StutterStep ==
  ASSUME Agreed, UNCHANGED vars
  PROVE  Agreed'
BY DEF vars, tables, Agreed, Typed, TypeOK, Handlers, Copies, Copied,
       ActionableOnLatestBase, DecisionsAgree

LEMMA AgreedStep ==
  ASSUME Agreed, [Next]_vars
  PROVE  Agreed'
<1>1. ASSUME NEW k \in Submitters, NEW u \in Users, AdmitSubmission(k, u) PROVE Agreed'
  BY <1>1, AdmitSubmissionStep, KeptAgreed
<1>2. ASSUME NEW k \in Submitters, NEW r \in Requests, StoreSubmitted(k, r) PROVE Agreed'
  BY <1>2, StoreSubmittedStep, KeptAgreed
<1>3. ASSUME NEW r \in Requests, LeaveWindow(r) PROVE Agreed'
  BY <1>3, LeaveWindowStep, KeptAgreed
<1>4. ASSUME NEW h \in Desks, NEW u \in Users, NEW r \in Requests, ListRequests(h, u, r)
      PROVE  Agreed'
  BY <1>4, ListRequestsStep
<1>5. ASSUME NEW h \in Desks,
             LoadForStaging(h) \/ BuildCandidate(h) \/ MarkRequestConflict(h)
               \/ LoadForRejection(h) \/ RejectRequest(h)
      PROVE  Agreed'
  BY <1>5, LoadForStagingStep, BuildCandidateStep, MarkRequestConflictStep,
     LoadForRejectionStep, RejectRequestStep, KeptAgreed
<1>6. ASSUME NEW h \in Desks, NEW c \in BOOLEAN, PersistStaged(h, c) PROVE Agreed'
  BY <1>6, PersistStagedStep, KeptAgreed
<1>7. ASSUME NEW u \in Users, NEW v \in 1..Len(policy), PublishRequest(u, v) PROVE Agreed'
  BY <1>7, PublishRequestStep, KeptAgreed
<1>8. ASSUME NEW u \in Users, NEW v \in 1..Len(policy), RejectRevision(u, v) PROVE Agreed'
  BY <1>8, RejectRevisionStep, KeptAgreed
<1>9. ASSUME NEW u \in Users, NEW c \in BOOLEAN, PublishDirect(u, c) PROVE Agreed'
  BY <1>9, PublishDirectStep, KeptAgreed
<1>10. ASSUME NEW u \in Users, StartRun(u) PROVE Agreed'
  BY <1>10, StartRunStep, KeptAgreed
<1>11. ASSUME NEW complete \in BOOLEAN, FinishRun(complete) PROVE Agreed'
  BY <1>11, FinishRunStep, KeptAgreed
<1>12. ASSUME NEW a \in Users, NEW u \in Users, NEW r \in Roles, MutateAccount(a, u, r)
       PROVE  Agreed'
  BY <1>12, MutateAccountStep, KeptAgreed
<1>13. CASE Crash
  BY <1>13, CrashStep, KeptAgreed
<1>14. CASE UNCHANGED vars
  BY <1>14, StutterStep
<1> QED
  BY <1>1, <1>2, <1>3, <1>4, <1>5, <1>6, <1>7, <1>8, <1>9, <1>10, <1>11, <1>12, <1>13, <1>14
     DEF Next

THEOREM AgreedAlways == Spec => []Agreed
<1>1. Init => Agreed
  BY AgreedInit
<1>2. Agreed /\ [Next]_vars => Agreed'
  BY AgreedStep
<1> QED
  BY <1>1, <1>2, PTL DEF Spec

(* The tables and the variables of the handlers keep their types, and no   *)
(* request is left in "processing", at any number of handlers.             *)
THEOREM RequestsTyped == Spec => []TypeOK
<1>1. Agreed => TypeOK
  BY DEF Agreed, Typed
<1> QED
  BY <1>1, AgreedAlways, PTL

(* No request that can still be staged or approved is based on an older    *)
(* publication, however submissions, stagings and publications interleave. *)
THEOREM ActionableRequestsCurrent == Spec => []ActionableOnLatestBase
<1>1. Agreed => ActionableOnLatestBase
  BY DEF Agreed
<1> QED
  BY <1>1, AgreedAlways, PTL

(* A request and its linked revision are always decided together, so that  *)
(* no publication, sweep or protocol meets one it must refuse.             *)
THEOREM RequestsDecidedWithRevisions == Spec => []DecisionsAgree
<1>1. Agreed => DecisionsAgree
  BY DEF Agreed
<1> QED
  BY <1>1, AgreedAlways, PTL

LEMMA SeenIsRow ==
  ASSUME Agreed, NEW h \in Desks, desk[h].pc # "idle", UnchangedSince(h)
  PROVE  [request[desk[h].request] EXCEPT !.recent = FALSE] = desk[h].seen
<1> DEFINE q == request[desk[h].request]
           s == desk[h].seen
           p == [q EXCEPT !.recent = FALSE]
<1>1. desk[h].request \in Requests /\ Copied(h)
  BY DEF Agreed, Typed, Handlers, Copies
<1>2. q \in RequestType /\ s \in RequestType
  <2>1. desk[h] \in DeskType
    BY DEF Agreed, Typed, TypeOK
  <2> QED
    BY <1>1, <2>1 DEF Agreed, Typed, TypeOK, DeskType
<1>3. /\ s.status = q.status /\ s.requester = q.requester /\ s.base = q.base
      /\ s.revision = q.revision /\ s.linked = q.linked /\ s.recent = FALSE
  <2>1. s.recent \in BOOLEAN
    BY <1>2 DEF RequestType
  <2> QED
    BY <1>1, <2>1 DEF Copied, UnchangedSince
<1> HIDE DEF q, s
<1>4. p \in RequestType
  BY <1>2 DEF RequestType
<1>5. /\ p.status = q.status /\ p.requester = q.requester /\ p.base = q.base
      /\ p.revision = q.revision /\ p.linked = q.linked /\ p.recent = FALSE
  BY <1>2 DEF RequestType
<1> HIDE DEF p
<1>6. p = s
  BY <1>2, <1>3, <1>4, <1>5 DEF RequestType
<1> QED
  BY <1>6 DEF p, q, s

(* A decision is only taken on the request its author had on the page.     *)
THEOREM DecisionsAsSeen == Spec => DecidedAsSeen
<1> DEFINE Seen == \A h \in Desks :
             /\ desk[h].pc \in {"planned", "unusable", "rejecting"}
             /\ desk'[h].pc = "idle"
             /\ request' # request
             => [request[desk[h].request] EXCEPT !.recent = FALSE] = desk[h].seen
<1>1. ASSUME Agreed, [Next]_vars PROVE Seen
  <2> SUFFICES ASSUME NEW h \in Desks,
                      desk[h].pc \in {"planned", "unusable", "rejecting"},
                      desk'[h].pc = "idle", request' # request
               PROVE  UnchangedSince(h)
    BY <1>1, SeenIsRow
  <2>1. desk \in [Desks -> DeskType]
    BY <1>1 DEF Agreed, Typed, TypeOK
  <2>2. CASE UNCHANGED desk
    BY <2>2
  <2>3. ASSUME NEW g \in Desks, MarkRequestConflict(g) PROVE UnchangedSince(h)
    BY <2>1, <2>3 DEF MarkRequestConflict, Leave
  <2>4. ASSUME NEW g \in Desks, NEW c \in BOOLEAN, PersistStaged(g, c) PROVE UnchangedSince(h)
    BY <2>1, <2>4 DEF PersistStaged, Leave
  <2>5. ASSUME NEW g \in Desks, RejectRequest(g) PROVE UnchangedSince(h)
    BY <2>1, <2>5 DEF RejectRequest, Leave
  <2>7. UNCHANGED desk \/ UNCHANGED request
        \/ (\E g \in Desks : MarkRequestConflict(g) \/ RejectRequest(g))
        \/ (\E g \in Desks, c \in BOOLEAN : PersistStaged(g, c))
    BY <1>1 DEF Next, vars, tables, AdmitSubmission, StoreSubmitted, LeaveWindow, ListRequests,
         LoadForStaging, BuildCandidate, LoadForRejection, PublishRequest, RejectRevision,
         PublishDirect, StartRun, FinishRun, MutateAccount, Crash
  <2> QED
    BY <2>2, <2>3, <2>4, <2>5, <2>7
<1> QED
  BY <1>1, AgreedAlways, PTL DEF Spec, DecidedAsSeen

-----------------------------------------------------------------------------
(***************************************************************************)
(* The quota.  Only an INSERT adds to what counts, and it checks.          *)
(***************************************************************************)

Ages(r) ==
  /\ request'[r].requester = request[r].requester
  /\ request'[r].recent => request[r].recent

LEMMA MovedAges ==
  ASSUME NEW q \in RowType, NEW s
  PROVE  Moved(q, s).requester = q.requester /\ Moved(q, s).recent = q.recent
BY DEF RowType, Moved

LEMMA MoveAges ==
  ASSUME TypeOK, NEW moves, Move(moves), NEW r \in Requests
  PROVE  Ages(r)
<1>1. request[r] \in RowType
  BY DEF TypeOK, RequestType, RowType
<1>2. request'[r] = IF r \in DOMAIN moves THEN Moved(request[r], moves[r]) ELSE request[r]
  BY DEF Move
<1> QED
  BY <1>1, <1>2, MovedAges DEF Ages

LEMMA StageAges ==
  ASSUME TypeOK, NEW x \in Requests, NEW a, NEW c, StageLinked(x, a, c), NEW r \in Requests
  PROVE  Ages(r)
<1> DEFINE m == Moved(Moved(request[x], "processing"), "staged")
<1>1. request[x] \in RowType /\ request \in [Requests -> RequestType]
  BY DEF TypeOK, RequestType, RowType
<1>2. Moved(request[x], "processing") \in RowType
  BY <1>1, MovedRow DEF Statuses
<1>3. m \in RowType /\ m.requester = request[x].requester /\ m.recent = request[x].recent
  <2> DEFINE p == Moved(request[x], "processing")
  <2>1. p.requester = request[x].requester /\ p.recent = request[x].recent
    BY <1>1, MovedAges
  <2> HIDE DEF p
  <2>2. /\ Moved(p, "staged") \in RowType
        /\ Moved(p, "staged").requester = p.requester /\ Moved(p, "staged").recent = p.recent
    BY <1>2, MovedRow, MovedAges DEF p, Statuses
  <2> QED
    BY <2>1, <2>2 DEF p
<1> HIDE DEF m
<1>4. request' = [request EXCEPT ![x] = [m EXCEPT !.linked = Len(policy) + 1]]
  BY DEF StageLinked, m
<1>5. CASE r = x
  BY <1>1, <1>3, <1>4, <1>5 DEF Ages, RowType
<1>6. CASE r # x
  BY <1>1, <1>4, <1>6 DEF Ages
<1> QED
  BY <1>5, <1>6

(* Apart from the INSERT no step makes a user's recent rows more.          *)
LEMMA OthersAge ==
  ASSUME Agreed, [Next]_vars,
         \A k \in Submitters, r \in Requests : ~StoreSubmitted(k, r)
  PROVE  \A r \in Requests : Ages(r)
<1>1. TypeOK
  BY DEF Agreed, Typed
<1>2. UNCHANGED request => \A r \in Requests : Ages(r)
  BY DEF Ages
<1>3. ASSUME NEW x \in Requests, LeaveWindow(x) PROVE \A r \in Requests : Ages(r)
  <2>1. request' = [request EXCEPT ![x].recent = FALSE] /\ request \in [Requests -> RequestType]
    BY <1>1, <1>3 DEF LeaveWindow, TypeOK
  <2>2. request'[x] = [request[x] EXCEPT !.recent = FALSE]
        /\ \A r \in Requests \ {x} : request'[r] = request[r]
    BY <2>1
  <2>3. Ages(x)
    BY <2>1, <2>2 DEF Ages, RequestType
  <2> QED
    BY <2>2, <2>3 DEF Ages
<1>4. ASSUME NEW h \in Desks, NEW c \in BOOLEAN, PersistStaged(h, c)
      PROVE  \A r \in Requests : Ages(r)
  <2>1. desk[h].request \in Requests
    BY <1>4 DEF PersistStaged, Agreed, Typed, Handlers
  <2> QED
    BY <1>1, <1>2, <1>4, <2>1, MoveAges, StageAges DEF PersistStaged
<1>5. ASSUME NEW h \in Desks, MarkRequestConflict(h) \/ RejectRequest(h)
      PROVE  \A r \in Requests : Ages(r)
  BY <1>1, <1>2, <1>5, MoveAges DEF MarkRequestConflict, RejectRequest
<1>6. ASSUME NEW u \in Users, NEW v \in 1..Len(policy), PublishRequest(u, v)
      PROVE  \A r \in Requests : Ages(r)
  BY <1>1, <1>6, MoveAges DEF PublishRequest
<1>7. ASSUME NEW u \in Users, NEW v \in 1..Len(policy), RejectRevision(u, v)
      PROVE  \A r \in Requests : Ages(r)
  BY <1>1, <1>7, MoveAges DEF RejectRevision
<1>8. ASSUME NEW u \in Users, NEW c \in BOOLEAN, PublishDirect(u, c)
      PROVE  \A r \in Requests : Ages(r)
  BY <1>1, <1>8, MoveAges DEF PublishDirect
<1>9. ASSUME NEW complete \in BOOLEAN, FinishRun(complete)
      PROVE  \A r \in Requests : Ages(r)
  BY <1>1, <1>2, <1>9, MoveAges DEF FinishRun, LogRun
<1>10. \/ UNCHANGED request
       \/ \E x \in Requests : LeaveWindow(x)
       \/ \E h \in Desks, c \in BOOLEAN : PersistStaged(h, c)
       \/ \E h \in Desks : MarkRequestConflict(h) \/ RejectRequest(h)
       \/ \E u \in Users, v \in 1..Len(policy) : PublishRequest(u, v) \/ RejectRevision(u, v)
       \/ \E u \in Users, c \in BOOLEAN : PublishDirect(u, c)
       \/ \E complete \in BOOLEAN : FinishRun(complete)
  BY DEF Next, vars, tables, AdmitSubmission, ListRequests, LoadForStaging, BuildCandidate,
         LoadForRejection, StartRun, MutateAccount, Crash
<1> QED
  BY <1>2, <1>3, <1>4, <1>5, <1>6, <1>7, <1>8, <1>9, <1>10

(* No user ever has more than SubmitLimit requests of the last 24 hours,   *)
(* however many submissions run at the same time.                          *)
THEOREM QuotaAlwaysRespected == Spec => []QuotaRespected
<1>1. ASSUME Init PROVE QuotaRespected
  <2>1. \A u \in Users : Recent(u) = {}
    BY <1>1 DEF Init, Recent, Unsubmitted
  <2> QED
    BY <2>1, FS_EmptySet, RequestsAssumption DEF QuotaRespected
<1>2. ASSUME Agreed, QuotaRespected, [Next]_vars PROVE QuotaRespected'
  <2> SUFFICES ASSUME NEW u \in Users PROVE Cardinality(Recent(u)') <= SubmitLimit
    BY DEF QuotaRespected
  <2>1. /\ IsFiniteSet(Recent(u)) /\ Cardinality(Recent(u)) \in Nat /\ SubmitLimit \in Nat
        /\ Cardinality(Recent(u)) <= SubmitLimit
    <3>1. Recent(u) \subseteq Requests
      BY DEF Recent
    <3>2. IsFiniteSet(Recent(u))
      BY <3>1, FS_Subset, RequestsAssumption
    <3> QED
      BY <1>2, <3>2, FS_CardinalityType, RequestsAssumption DEF QuotaRespected
  <2>2. ASSUME Recent(u)' \subseteq Recent(u) PROVE Cardinality(Recent(u)') <= SubmitLimit
    <3>1. /\ IsFiniteSet(Recent(u)') /\ Cardinality(Recent(u)') <= Cardinality(Recent(u))
      BY <2>1, <2>2, FS_Subset
    <3>2. Cardinality(Recent(u)') \in Nat
      BY <3>1, FS_CardinalityType
    <3> QED
      BY <2>1, <3>1, <3>2
  <2>3. ASSUME NEW k \in Submitters, NEW r \in Requests, StoreSubmitted(k, r)
        PROVE  Cardinality(Recent(u)') <= SubmitLimit
    <3>1. CASE UNCHANGED request
      BY <2>2, <3>1 DEF Recent
    <3>2. CASE Insertable(k)
      <4> DEFINE row == [status |-> "submitted", requester |-> submitter[k].actor,
                         base |-> submitter[k].base, revision |-> 1, linked |-> 0,
                         recent |-> TRUE]
      <4>1. /\ request' = [request EXCEPT ![r] = row] /\ request \in [Requests -> RequestType]
        BY <1>2, <2>3, <3>2 DEF StoreSubmitted, Agreed, Typed, TypeOK
      <4>2. /\ request'[r] = row /\ \A x \in Requests \ {r} : request'[x] = request[x]
        BY <4>1
      <4>3. CASE u # submitter[k].actor
        <5>1. r \notin Recent(u)'
          BY <4>2, <4>3 DEF Recent
        <5>2. \A x \in Requests \ {r} : x \in Recent(u)' => x \in Recent(u)
          BY <4>2 DEF Recent
        <5>3. Recent(u)' \subseteq Requests
          BY DEF Recent
        <5> QED
          BY <2>2, <5>1, <5>2, <5>3
      <4>4. CASE u = submitter[k].actor
        <5>1. Recent(u)' \subseteq Recent(u) \cup {r}
          BY <4>2 DEF Recent
        <5>2. Cardinality(Recent(u)) < SubmitLimit
          BY <3>2, <4>4 DEF Insertable, WithinQuota
        <5>3. /\ IsFiniteSet(Recent(u) \cup {r})
              /\ Cardinality(Recent(u) \cup {r}) <= Cardinality(Recent(u)) + 1
          <6>1. /\ IsFiniteSet(Recent(u) \cup {r})
                /\ \/ Cardinality(Recent(u) \cup {r}) = Cardinality(Recent(u))
                   \/ Cardinality(Recent(u) \cup {r}) = Cardinality(Recent(u)) + 1
            BY <2>1, FS_AddElement, Zenon
          <6> QED
            BY <2>1, <6>1
        <5>4. /\ IsFiniteSet(Recent(u)')
              /\ Cardinality(Recent(u)') <= Cardinality(Recent(u) \cup {r})
          BY <5>1, <5>3, FS_Subset
        <5>5. Cardinality(Recent(u)') \in Nat /\ Cardinality(Recent(u) \cup {r}) \in Nat
          BY <5>3, <5>4, FS_CardinalityType
        <5> QED
          BY <2>1, <5>2, <5>3, <5>4, <5>5
      <4> QED
        BY <4>3, <4>4
    <3> QED
      BY <2>3, <3>1, <3>2 DEF StoreSubmitted
  <2>4. CASE \A k \in Submitters, r \in Requests : ~StoreSubmitted(k, r)
    <3>1. \A r \in Requests : Ages(r)
      BY <1>2, <2>4, OthersAge
    <3>2. Recent(u)' \subseteq Recent(u)
      BY <3>1 DEF Recent, Ages
    <3> QED
      BY <2>2, <3>2
  <2> QED
    BY <2>3, <2>4
<1> QED
  BY <1>1, <1>2, AgreedAlways, PTL DEF Spec

-----------------------------------------------------------------------------
(***************************************************************************)
(* Deployments.  Deploying joins to the property that a run is always of a *)
(* publication, and that a complete protocol has deployed its request.     *)
(***************************************************************************)

CompleteHasDeployed ==
  protocol = "complete" /\ latest # 0 /\ policy[latest].request # NoRequest
    => request[policy[latest].request].status = "deployed"

Deploying ==
  /\ run => latest # 0
  /\ CompleteHasDeployed
  /\ OvertakenNeedsNoDeployment

LEMMA StepDecides ==
  ASSUME Agreed, [Next]_vars
  PROVE  Decision
<1>1. ASSUME UNCHANGED <<request, policy, latest>> PROVE Decision
  BY <1>1, Untouched
<1>2. ASSUME NEW k \in Submitters, NEW r \in Requests, StoreSubmitted(k, r) PROVE Decision
  BY <1>2, StoreSubmittedStep DEF Kept
<1>3. ASSUME NEW r \in Requests, LeaveWindow(r) PROVE Decision
  BY <1>3, LeaveWindowStep DEF Kept
<1>4. ASSUME NEW h \in Desks, MarkRequestConflict(h) \/ RejectRequest(h) PROVE Decision
  BY <1>4, MarkRequestConflictStep, RejectRequestStep DEF Kept
<1>5. ASSUME NEW h \in Desks, NEW c \in BOOLEAN, PersistStaged(h, c) PROVE Decision
  BY <1>5, PersistStagedStep DEF Kept
<1>6. ASSUME NEW u \in Users, NEW v \in 1..Len(policy),
             PublishRequest(u, v) \/ RejectRevision(u, v)
      PROVE  Decision
  BY <1>6, PublishRequestStep, RejectRevisionStep DEF Kept
<1>7. ASSUME NEW u \in Users, NEW c \in BOOLEAN, PublishDirect(u, c) PROVE Decision
  BY <1>7, PublishDirectStep DEF Kept
<1>8. ASSUME NEW complete \in BOOLEAN, FinishRun(complete) PROVE Decision
  BY <1>8, FinishRunStep DEF Kept
<1>9. \/ UNCHANGED <<request, policy, latest>>
      \/ \E k \in Submitters, r \in Requests : StoreSubmitted(k, r)
      \/ \E r \in Requests : LeaveWindow(r)
      \/ \E h \in Desks : MarkRequestConflict(h) \/ RejectRequest(h)
      \/ \E h \in Desks, c \in BOOLEAN : PersistStaged(h, c)
      \/ \E u \in Users, v \in 1..Len(policy) : PublishRequest(u, v) \/ RejectRevision(u, v)
      \/ \E u \in Users, c \in BOOLEAN : PublishDirect(u, c)
      \/ \E complete \in BOOLEAN : FinishRun(complete)
  BY DEF Next, vars, tables, AdmitSubmission, ListRequests, LoadForStaging, BuildCandidate,
         LoadForRejection, StartRun, MutateAccount, Crash
<1> QED
  BY <1>1, <1>2, <1>3, <1>4, <1>5, <1>6, <1>7, <1>8, <1>9

(* What was deployed stays deployed, and only the latest publication's     *)
(* request becomes approved.                                               *)
LEMMA DecidedForGood ==
  ASSUME Agreed, Decision, NEW r \in Requests
  PROVE  /\ request[r].status = "deployed" => request'[r].status = "deployed"
         /\ request'[r].status = "approved" =>
              \/ Still(r)
              \/ request'[r].linked = latest'
<1> DEFINE Goal == /\ request[r].status = "deployed" => request'[r].status = "deployed"
                   /\ request'[r].status = "approved" => Still(r) \/ request'[r].linked = latest'
<1>1. NoRequest \notin Requests
      /\ \A v \in 1..Len(policy) : RevisionAgrees(v)
  BY RequestsAssumption, PointwiseAgreement DEF EachRequestAlone, Agreed
<1>2. Still(r) => Goal
  BY DEF Still
<1>3. CASE NoDecision
  BY <1>2, <1>3 DEF NoDecision
<1>4. CASE PublishedAlone
  <2>1. r \in Obsolete(Len(policy) + 1) => Moves(r, "conflict") /\ request[r].status # "deployed"
    BY <1>4 DEF PublishedAlone, Swept, Obsolete
  <2> QED
    BY <1>2, <1>4, <2>1 DEF PublishedAlone, Moves
<1>5. ASSUME NEW x \in Requests, Submitted(x) \/ Conflicted(x) \/ Staged(x) \/ Rejected(x)
      PROVE  Goal
  <2>1. x = r => request[r].status # "deployed" /\ request'[r].status # "approved"
    BY <1>5 DEF Submitted, Conflicted, Staged, Rejected, Moves
  <2>2. x # r => Still(r)
    BY <1>5 DEF Submitted, Conflicted, Staged, Rejected, Only
  <2> QED
    BY <1>2, <2>1, <2>2
<1>6. ASSUME NEW x \in Requests, Deployed(x) PROVE Goal
  BY <1>2, <1>6 DEF Deployed, Moves, Only
<1>7. ASSUME NEW own \in Requests, NEW v \in 1..Len(policy), PublishedFor(own, v) PROVE Goal
  <2>1. CASE r = own
    <3>1. request[own].linked = v /\ request[own].status = "staged"
      BY <1>1, <1>7 DEF PublishedFor, RevisionAgrees
    <3> QED
      BY <1>7, <2>1, <3>1 DEF PublishedFor, Moves
  <2>2. CASE r \in Obsolete(v) \ {own}
    <3>1. Moves(r, "conflict") /\ request[r].status # "deployed"
      BY <1>7, <2>2 DEF PublishedFor, Swept, Obsolete
    <3> QED
      BY <3>1 DEF Moves
  <2>3. CASE r \notin Obsolete(v) \cup {own}
    BY <1>2, <1>7, <2>3 DEF PublishedFor
  <2> QED
    BY <2>1, <2>2, <2>3
<1> QED
  BY <1>3, <1>4, <1>5, <1>6, <1>7 DEF Decision

(* Decisions keep the request of a revision.                               *)
LEMMA RequestOfRevisionKept ==
  ASSUME Agreed, Decision, NEW v \in 1..Len(policy)
  PROVE  policy'[v].request = policy[v].request
<1>1. Len(policy) \in Nat
  BY FieldTypes DEF Agreed, Typed
<1>2. CASE UNCHANGED policy
  BY <1>2
<1>3. ASSUME NEW x \in Requests, Staged(x) \/ Rejected(x)
      PROVE  policy'[v].request = policy[v].request
  BY <1>3 DEF Staged, Rejected, Settling
<1>4. ASSUME NEW own \in Requests, NEW w \in 1..Len(policy), PublishedFor(own, w)
      PROVE  policy'[v].request = policy[v].request
  BY <1>4 DEF PublishedFor
<1>5. CASE PublishedAlone
  BY <1>5 DEF PublishedAlone, Settling
<1> QED
  BY <1>2, <1>3, <1>4, <1>5 DEF Decision, NoDecision, Submitted, Conflicted, Deployed

(* The commands of a revision never change.                                *)
LEMMA CommandsKept ==
  ASSUME Agreed, [Next]_vars, NEW v \in 1..Len(policy)
  PROVE  policy'[v].commands = policy[v].commands
<1>1. policy \in Seq(PolicyType) /\ Len(policy) \in Nat /\ policy[v] \in PolicyType
  BY DEF Agreed, Typed, TypeOK
<1>2. CASE UNCHANGED policy
  BY <1>2
<1>3. \A s : [policy[v] EXCEPT !.status = s].commands = policy[v].commands
  BY <1>1 DEF PolicyType
<1>4. ASSUME NEW V, NEW s, SettlePolicies(V, s)
      PROVE  policy'[v].commands = policy[v].commands
  BY <1>3, <1>4 DEF SettlePolicies
<1>5. ASSUME NEW row, policy' = Append(policy, row)
      PROVE  policy'[v].commands = policy[v].commands
  <2>1. policy'[v] = policy[v]
    BY <1>1, <1>5
  <2> QED
    BY <2>1
<1>6. ASSUME NEW u \in Users, NEW w \in 1..Len(policy), PublishRequest(u, w)
      PROVE  policy'[v].commands = policy[v].commands
  <2> DEFINE V == {request[r].linked : r \in Obsolete(w) \ {policy[w].request}}
  <2>1. policy'[v] = (CASE v = w -> [policy[v] EXCEPT !.status = "published"]
                       [] v # w /\ v \in V -> [policy[v] EXCEPT !.status = "rejected"]
                       [] OTHER -> policy[v])
    BY <1>6 DEF PublishRequest
  <2> HIDE DEF V
  <2> QED
    BY <1>3, <2>1
<1>7. ASSUME NEW u \in Users, NEW c \in BOOLEAN, PublishDirect(u, c)
      PROVE  policy'[v].commands = policy[v].commands
  <2> DEFINE V == {request[r].linked : r \in Obsolete(Len(policy) + 1)}
             kept == [w \in 1..Len(policy) |->
                        IF w \in V THEN [policy[w] EXCEPT !.status = "rejected"] ELSE policy[w]]
             row == [request |-> NoRequest, creator |-> u, commands |-> c, status |-> "published"]
  <2>1. policy' = Append(kept, row)
    BY <1>7 DEF PublishDirect
  <2>2. kept \in Seq(PolicyType) /\ Len(kept) = Len(policy)
    <3> HIDE DEF V
    <3>1. ASSUME NEW w \in 1..Len(policy) PROVE kept[w] \in PolicyType
      <4>1. policy[w] \in PolicyType
        BY <1>1
      <4> QED
        BY <4>1 DEF PolicyType
    <3>2. kept \in [1..Len(policy) -> PolicyType]
      BY <3>1
    <3> QED
      BY <1>1, <3>2
  <2>3. kept[v].commands = policy[v].commands
    <3> HIDE DEF V
    <3> QED
      BY <1>3
  <2> HIDE DEF kept, row
  <2>4. policy'[v] = kept[v]
    BY <1>1, <2>1, <2>2
  <2> QED
    BY <2>3, <2>4
<1>8. \/ UNCHANGED policy
      \/ \E V, s : SettlePolicies(V, s)
      \/ \E row : policy' = Append(policy, row)
      \/ \E u \in Users, w \in 1..Len(policy) : PublishRequest(u, w)
      \/ \E u \in Users, c \in BOOLEAN : PublishDirect(u, c)
  <2>1. ASSUME NEW h \in Desks, NEW c \in BOOLEAN, PersistStaged(h, c)
        PROVE  UNCHANGED policy \/ \E row : policy' = Append(policy, row)
    BY <2>1 DEF PersistStaged, StageLinked
  <2>2. ASSUME NEW h \in Desks, RejectRequest(h)
        PROVE  UNCHANGED policy \/ \E V, s : SettlePolicies(V, s)
    BY <2>2, Zenon DEF RejectRequest
  <2>3. ASSUME NEW u \in Users, NEW w \in 1..Len(policy), RejectRevision(u, w)
        PROVE  \E V, s : SettlePolicies(V, s)
    BY <2>3, Zenon DEF RejectRevision
  <2>4. \/ UNCHANGED policy
        \/ \E h \in Desks, c \in BOOLEAN : PersistStaged(h, c)
        \/ \E h \in Desks : RejectRequest(h)
        \/ \E u \in Users, w \in 1..Len(policy) : PublishRequest(u, w) \/ RejectRevision(u, w)
        \/ \E u \in Users, c \in BOOLEAN : PublishDirect(u, c)
    BY DEF Next, vars, tables, AdmitSubmission, StoreSubmitted, LeaveWindow, ListRequests,
           LoadForStaging, BuildCandidate, MarkRequestConflict, LoadForRejection, StartRun,
           FinishRun, MutateAccount, Crash
  <2> QED
    BY <2>1, <2>2, <2>3, <2>4, Zenon
<1> QED
  BY <1>2, <1>4, <1>5, <1>6, <1>7, <1>8

(* A publication needs the protocol of the one before it, and no run.      *)
LEMMA PublicationsWait ==
  ASSUME Agreed, [Next]_vars
  PROVE  \/ UNCHANGED latest
         \/ LatestPublicationDeployed /\ protocol' = "none" /\ ~run' /\ latest' # 0
<1>1. Len(policy) \in Nat
  BY FieldTypes DEF Agreed, Typed
<1>2. \/ UNCHANGED latest
      \/ \E u \in Users, v \in 1..Len(policy) : PublishRequest(u, v)
      \/ \E u \in Users, c \in BOOLEAN : PublishDirect(u, c)
  BY DEF Next, vars, tables, AdmitSubmission, StoreSubmitted, LeaveWindow, ListRequests,
         LoadForStaging, BuildCandidate, MarkRequestConflict, LoadForRejection, RejectRequest,
         PersistStaged, RejectRevision, StartRun, FinishRun, MutateAccount, Crash
<1>3. ASSUME NEW u \in Users, NEW v \in 1..Len(policy), PublishRequest(u, v)
      PROVE  LatestPublicationDeployed /\ protocol' = "none" /\ ~run' /\ latest' # 0
  BY <1>3 DEF PublishRequest
<1>4. ASSUME NEW u \in Users, NEW c \in BOOLEAN, PublishDirect(u, c)
      PROVE  LatestPublicationDeployed /\ protocol' = "none" /\ ~run' /\ latest' # 0
  BY <1>1, <1>4 DEF PublishDirect
<1> QED
  BY <1>2, <1>3, <1>4

(* The run that completes a protocol leaves its request deployed.          *)
LEMMA CompletingRun ==
  ASSUME Agreed, run => latest # 0, NEW complete \in BOOLEAN, FinishRun(complete)
  PROVE  LET x == policy[latest].request
         IN  /\ UNCHANGED <<policy, latest>> /\ latest \in 1..Len(policy) /\ ~run'
             /\ protocol' = "complete" /\ x # NoRequest
                  => x \in Requests /\ request'[x].status = "deployed"
             /\ \A r \in Requests :
                  request[r].status # "deployed" /\ request'[r].status = "deployed"
                    => protocol' = "complete" /\ r = x /\ x # NoRequest
<1> DEFINE x == policy[latest].request
<1>1. /\ latest \in 1..Len(policy) /\ UNCHANGED <<policy, latest>> /\ ~run'
      /\ protocol' = IF complete /\ Loggable(complete) THEN "complete" ELSE "incomplete"
  BY DEF FinishRun, Agreed, Typed, TypeOK
<1>2. x \in Requests \cup {NoRequest}
  BY <1>1, FieldTypes DEF Agreed, Typed
<1>3. CASE ~(Loggable(complete) /\ x # NoRequest)
  BY <1>1, <1>3 DEF FinishRun
<1>4. CASE Loggable(complete) /\ x # NoRequest
  <2>1. x \in Requests /\ LogRun(x, complete)
    BY <1>2, <1>4 DEF FinishRun
  <2>2. CASE complete /\ request[x].status = "approved"
    <3>1. Move(One(x, "deployed"))
      BY <2>1, <2>2 DEF LogRun
    <3>2. Moves(x, "deployed") /\ Only(x)
      BY <2>1, <3>1, OneMoveIs DEF Agreed, Typed, Settled, Statuses
    <3> QED
      BY <1>1, <1>4, <2>1, <2>2, <3>2 DEF Moves, Only, Still
  <2>3. CASE ~(complete /\ request[x].status = "approved")
    <3>1. UNCHANGED request
      BY <2>1, <2>3 DEF LogRun
    <3> QED
      BY <1>1, <1>4, <2>1, <2>3, <3>1 DEF Loggable
  <2> QED
    BY <2>2, <2>3
<1> QED
  BY <1>1, <1>3, <1>4

(* A move gives the statuses it names and no other.                       *)
LEMMA MoveLeads ==
  ASSUME TypeOK, NEW moves, Move(moves), NEW r \in Requests
  PROVE  \/ request'[r].status = request[r].status
         \/ r \in DOMAIN moves /\ request'[r].status = moves[r]
<1>1. request[r] \in RowType
  BY DEF TypeOK, RequestType, RowType
<1>2. request'[r] = IF r \in DOMAIN moves THEN Moved(request[r], moves[r]) ELSE request[r]
  BY DEF Move
<1>3. \A s : Moved(request[r], s).status = s
  BY <1>1 DEF RowType, Moved
<1> QED
  BY <1>2, <1>3

(* Only the end of a run completes a protocol or deploys a request.        *)
LEMMA OthersDeployNothing ==
  ASSUME Agreed, [Next]_vars, \A complete \in BOOLEAN : ~FinishRun(complete)
  PROVE  /\ protocol' = "complete" => protocol = "complete" /\ UNCHANGED latest
         /\ run' => run \/ latest' # 0
         /\ \A r \in Requests : request'[r].status = "deployed" => request[r].status = "deployed"
<1>1. \/ UNCHANGED <<protocol, latest>>
      \/ protocol' # "complete"
  BY DEF Next, vars, tables, AdmitSubmission, StoreSubmitted, LeaveWindow, ListRequests,
         LoadForStaging, BuildCandidate, MarkRequestConflict, LoadForRejection, RejectRequest,
         PersistStaged, PublishRequest, PublishDirect, RejectRevision, StartRun, MutateAccount,
         Crash
<1>2. \/ UNCHANGED run
      \/ ~run'
      \/ latest' # 0
  BY DEF Next, vars, tables, AdmitSubmission, StoreSubmitted, LeaveWindow, ListRequests,
         LoadForStaging, BuildCandidate, MarkRequestConflict, LoadForRejection, RejectRequest,
         PersistStaged, PublishRequest, PublishDirect, RejectRevision, StartRun, MutateAccount,
         Crash
<1> DEFINE Same(r) == request'[r].status = "deployed" => request[r].status = "deployed"
<1>3. TypeOK /\ request \in [Requests -> RequestType]
  BY DEF Agreed, Typed, TypeOK
<1>4. ASSUME NEW moves, Move(moves), \A r \in DOMAIN moves : moves[r] # "deployed",
             NEW r \in Requests
      PROVE  Same(r)
  BY <1>3, <1>4, MoveLeads
<1> DEFINE Elsewhere(x, s) == Move(One(x, s)) => \A r \in Requests : Same(r)
<1>4a. \A x : Elsewhere(x, "conflict") /\ Elsewhere(x, "rejected")
  <2> SUFFICES ASSUME NEW x, NEW s \in {"conflict", "rejected"}, Move(One(x, s)),
                      NEW r \in Requests
               PROVE  Same(r)
    OBVIOUS
  <2>1. DOMAIN One(x, s) = {x} /\ One(x, s)[x] # "deployed"
    BY OneMove
  <2> QED
    BY <1>4, <2>1
<1>5. ASSUME NEW k \in Submitters, NEW x \in Requests, StoreSubmitted(k, x), NEW r \in Requests
      PROVE  Same(r)
  <2>1. CASE UNCHANGED request
    BY <2>1
  <2>2. CASE Insertable(k)
    <3>1. request'[x].status = "submitted" /\ \A y \in Requests \ {x} : request'[y] = request[y]
      BY <1>3, <1>5, <2>2 DEF StoreSubmitted
    <3> QED
      BY <3>1
  <2> QED
    BY <1>5, <2>1, <2>2 DEF StoreSubmitted
<1>6. ASSUME NEW x \in Requests, LeaveWindow(x), NEW r \in Requests
      PROVE  Same(r)
  <2>1. request'[x] = [request[x] EXCEPT !.recent = FALSE]
        /\ \A y \in Requests \ {x} : request'[y] = request[y]
    BY <1>3, <1>6 DEF LeaveWindow
  <2>2. request'[x].status = request[x].status
    BY <1>3, <2>1 DEF RequestType
  <2> QED
    BY <2>1, <2>2
<1>7. ASSUME NEW h \in Desks, NEW c \in BOOLEAN, PersistStaged(h, c), NEW r \in Requests
      PROVE  Same(r)
  <2>1. desk[h].request \in Requests /\ Len(policy) + 1 \in Nat
    BY <1>7, FieldTypes DEF PersistStaged, Agreed, Typed, Handlers
  <2>2. CASE Move(One(desk[h].request, "conflict"))
    BY <1>4a, <2>2
  <2>3. CASE StageLinked(desk[h].request, desk[h].actor, c)
    <3> DEFINE x == desk[h].request
               row == [Moved(Moved(request[x], "processing"), "staged")
                         EXCEPT !.linked = Len(policy) + 1]
    <3>1. request' = [request EXCEPT ![x] = row]
      BY <2>3 DEF StageLinked
    <3>2. row.status = "staged"
      BY <1>3, <2>1, StagedRow
    <3> HIDE DEF row
    <3> QED
      BY <1>3, <2>1, <3>1, <3>2
  <2> QED
    BY <1>7, <2>2, <2>3 DEF PersistStaged
<1>8. ASSUME NEW h \in Desks, MarkRequestConflict(h) \/ RejectRequest(h), NEW r \in Requests
      PROVE  Same(r)
  BY <1>4a, <1>8 DEF MarkRequestConflict, RejectRequest
<1>9. ASSUME NEW u \in Users, NEW v \in 1..Len(policy), PublishRequest(u, v), NEW r \in Requests
      PROVE  Same(r)
  <2> DEFINE own == policy[v].request
             moves == [x \in (Obsolete(v) \ {own}) \cup {own} |->
                         IF x = own THEN "approved" ELSE "conflict"]
  <2>1. Move(moves)
    BY <1>9 DEF PublishRequest
  <2>2. \A x \in DOMAIN moves : moves[x] # "deployed"
    OBVIOUS
  <2> HIDE DEF moves
  <2> QED
    BY <1>4, <2>1, <2>2
<1>10. ASSUME NEW u \in Users, NEW v \in 1..Len(policy), RejectRevision(u, v), NEW r \in Requests
       PROVE  Same(r)
  BY <1>4a, <1>10 DEF RejectRevision
<1>11. ASSUME NEW u \in Users, NEW c \in BOOLEAN, PublishDirect(u, c), NEW r \in Requests
       PROVE  Same(r)
  <2> DEFINE moves == [x \in Obsolete(Len(policy) + 1) |-> "conflict"]
  <2>1. Move(moves)
    BY <1>11 DEF PublishDirect
  <2>2. \A x \in DOMAIN moves : moves[x] # "deployed"
    OBVIOUS
  <2> HIDE DEF moves
  <2> QED
    BY <1>4, <2>1, <2>2
<1>12. \/ UNCHANGED request
       \/ \E k \in Submitters, x \in Requests : StoreSubmitted(k, x)
       \/ \E x \in Requests : LeaveWindow(x)
       \/ \E h \in Desks, c \in BOOLEAN : PersistStaged(h, c)
       \/ \E h \in Desks : MarkRequestConflict(h) \/ RejectRequest(h)
       \/ \E u \in Users, v \in 1..Len(policy) : PublishRequest(u, v) \/ RejectRevision(u, v)
       \/ \E u \in Users, c \in BOOLEAN : PublishDirect(u, c)
  BY DEF Next, vars, tables, AdmitSubmission, ListRequests, LoadForStaging, BuildCandidate,
         LoadForRejection, StartRun, MutateAccount, Crash
<1>13. \A r \in Requests : Same(r)
  BY <1>5, <1>6, <1>7, <1>8, <1>9, <1>10, <1>11, <1>12
<1> QED
  BY <1>1, <1>2, <1>13

(* When a publication may go ahead, nothing that is approved has commands  *)
(* left: it was overtaken, or its protocol is complete and deployed it.    *)
LEMMA ApprovedDeployNothing ==
  ASSUME Agreed, Deploying, LatestPublicationDeployed, NEW r \in Requests,
         request[r].status = "approved"
  PROVE  ~policy[request[r].linked].commands
<1> DEFINE l == request[r].linked
<1>1. l \in 1..Len(policy) /\ policy[l].request = r /\ Len(policy) \in Nat
  BY PointwiseAgreement, FieldTypes DEF EachRequestAlone, RequestAgrees, Agreed, Typed
<1>2. CASE l # latest
  BY <1>2 DEF Deploying, OvertakenNeedsNoDeployment
<1>3. CASE l = latest
  <2>1. protocol # "complete" /\ latest # 0
    BY <1>1, <1>3, RequestsAssumption DEF Deploying, CompleteHasDeployed
  <2> QED
    BY <1>3, <2>1 DEF LatestPublicationDeployed
<1> QED
  BY <1>2, <1>3

LEMMA DeployingStep ==
  ASSUME Agreed, Deploying, [Next]_vars
  PROVE  Deploying'
<1>1. Decision
  BY StepDecides
<1>2. /\ latest \in 0..Len(policy) /\ Len(policy) \in Nat
      /\ \A r \in Requests : RequestAgrees(r)
      /\ \A v \in 1..Len(policy) : policy[v].request \in Requests \cup {NoRequest}
  BY FieldTypes, PointwiseAgreement DEF EachRequestAlone, Agreed, Typed, TypeOK
<1>3. OvertakenNeedsNoDeployment'
  <2> SUFFICES ASSUME NEW r \in Requests, request'[r].status = "approved",
                      request'[r].linked # latest'
               PROVE  ~policy'[request'[r].linked].commands
    BY DEF OvertakenNeedsNoDeployment
  <2> DEFINE l == request[r].linked
  <2>1. Still(r)
    BY <1>1, DecidedForGood
  <2>2. /\ request[r].status = "approved" /\ request'[r].linked = l
        /\ l \in 1..Len(policy) /\ policy[l].request = r
    BY <1>2, <2>1 DEF Still, RequestAgrees
  <2>3. ~policy[l].commands
    <3>1. CASE l # latest
      BY <2>2, <3>1 DEF Deploying, OvertakenNeedsNoDeployment
    <3>2. CASE l = latest
      <4>1. LatestPublicationDeployed
        BY <2>2, <3>2, PublicationsWait
      <4> QED
        BY <2>2, <4>1, ApprovedDeployNothing
    <3> QED
      BY <3>1, <3>2
  <2> QED
    BY <2>2, <2>3, CommandsKept
<1>4. ASSUME NEW complete \in BOOLEAN, FinishRun(complete)
      PROVE  (run' => latest' # 0) /\ CompleteHasDeployed'
  BY <1>4, CompletingRun DEF Deploying, CompleteHasDeployed
<1>5. ASSUME \A complete \in BOOLEAN : ~FinishRun(complete)
      PROVE  (run' => latest' # 0) /\ CompleteHasDeployed'
  <2>1. run' => latest' # 0
    BY <1>5, OthersDeployNothing, PublicationsWait DEF Deploying
  <2> SUFFICES ASSUME protocol' = "complete", latest' # 0, policy'[latest'].request # NoRequest
               PROVE  request'[policy'[latest'].request].status = "deployed"
    BY <2>1 DEF CompleteHasDeployed
  <2>2. protocol = "complete" /\ latest' = latest /\ latest \in 1..Len(policy)
    BY <1>2, <1>5, OthersDeployNothing
  <2>3. policy'[latest].request = policy[latest].request
    BY <1>1, <2>2, RequestOfRevisionKept
  <2>4. /\ policy[latest].request \in Requests
        /\ request[policy[latest].request].status = "deployed"
    BY <1>2, <2>2, <2>3 DEF Deploying, CompleteHasDeployed
  <2> QED
    BY <1>1, <2>2, <2>3, <2>4, DecidedForGood
<1> QED
  BY <1>3, <1>4, <1>5 DEF Deploying

LEMMA DeployingInit == Init => Deploying
BY DEF Init, Deploying, CompleteHasDeployed, OvertakenNeedsNoDeployment, Unsubmitted

(* A request that was overtaken while only approved had nothing to deploy: *)
(* the next publication waits for the protocol that deploys it.            *)
THEOREM OvertakenWereNotDeployable == Spec => []OvertakenNeedsNoDeployment
<1>1. Deploying => OvertakenNeedsNoDeployment
  BY DEF Deploying
<1> QED
  BY <1>1, DeployingInit, DeployingStep, AgreedAlways, PTL DEF Spec

LEMMA DeployingRun ==
  ASSUME Agreed, Deploying, [Next]_vars, NEW r \in Requests,
         request[r].status # "deployed", request'[r].status = "deployed"
  PROVE  protocol' = "complete" /\ request[r].linked = latest
<1>1. PICK complete \in BOOLEAN : FinishRun(complete)
  BY OthersDeployNothing
<1>2. /\ latest \in 1..Len(policy) /\ protocol' = "complete"
      /\ r = policy[latest].request /\ policy[latest].request # NoRequest
  BY <1>1, CompletingRun DEF Deploying
<1>3. RevisionAgrees(latest)
  BY <1>2, PointwiseAgreement DEF EachRequestAlone, Agreed
<1> QED
  BY <1>2, <1>3 DEF RevisionAgrees

(* A request becomes deployed only with the run that completes the         *)
(* protocol of its own publication, which is the latest one.               *)
THEOREM DeployedOnlyWhenComplete == Spec => DeployedWhenComplete
<1> DEFINE Deploys == \A r \in Requests :
             request[r].status # "deployed" /\ request'[r].status = "deployed"
               => protocol' = "complete" /\ request[r].linked = latest
<1>1. ASSUME Agreed, Deploying, [Next]_vars PROVE Deploys
  <2> SUFFICES ASSUME NEW r \in Requests,
                      request[r].status # "deployed", request'[r].status = "deployed"
               PROVE  protocol' = "complete" /\ request[r].linked = latest
    OBVIOUS
  <2> QED
    BY <1>1, DeployingRun
<1> QED
  BY <1>1, DeployingInit, DeployingStep, AgreedAlways, PTL DEF Spec, DeployedWhenComplete

-----------------------------------------------------------------------------
(***************************************************************************)
(* The trail.  PathOf is the promise of one request, about a trail, a      *)
(* status and a revision number; appending an event keeps it.              *)
(***************************************************************************)

Turns(t) == {i \in 1..Len(t) : t[i][1] # t[i][2]}

PathOf(t, s, n) ==
  /\ t = <<>> <=> s = "none"
  /\ t # <<>> => t[1][1] = "none" /\ t[Len(t)][2] = s
  /\ \A i \in 1..(Len(t) - 1) : t[i][2] = t[i + 1][1]
  /\ n = Cardinality(Turns(t))

LEMMA TurnsFinite ==
  ASSUME NEW t \in Seq(Statuses \X Statuses)
  PROVE  IsFiniteSet(Turns(t)) /\ Cardinality(Turns(t)) \in Nat
<1>1. IsFiniteSet(1..Len(t))
  BY FS_Interval
<1>2. Turns(t) \subseteq 1..Len(t)
  BY DEF Turns
<1> QED
  BY <1>1, <1>2, FS_Subset, FS_CardinalityType

LEMMA EventAppended ==
  ASSUME NEW t \in Seq(Statuses \X Statuses), NEW s \in Statuses \ {"none"},
         NEW x \in Statuses \ {"none"}, NEW n, PathOf(t, s, n)
  PROVE  /\ Append(t, <<s, x>>) \in Seq(Statuses \X Statuses)
         /\ PathOf(Append(t, <<s, x>>), x, IF x = s THEN n ELSE n + 1)
<1> DEFINE e == <<s, x>>
           u == Append(t, e)
           l == Len(t)
<1>1. /\ e \in Statuses \X Statuses /\ e[1] = s /\ e[2] = x
  OBVIOUS
<1>2. l \in Nat \ {0}
  BY DEF PathOf
<1> HIDE DEF e
<1>3. /\ u \in Seq(Statuses \X Statuses) /\ Len(u) = l + 1 /\ u[l + 1] = e
      /\ \A i \in 1..l : u[i] = t[i]
  BY <1>1
<1> HIDE DEF u
<1>4. u # <<>> /\ u[1][1] = "none" /\ u[Len(u)][2] = x
  BY <1>1, <1>2, <1>3 DEF PathOf
<1>5. \A i \in 1..(Len(u) - 1) : u[i][2] = u[i + 1][1]
  <2> SUFFICES ASSUME NEW i \in 1..l PROVE u[i][2] = u[i + 1][1]
    BY <1>2, <1>3
  <2>1. CASE i = l
    BY <1>1, <1>2, <1>3, <2>1 DEF PathOf
  <2>2. CASE i # l
    <3>1. i \in 1..(l - 1) /\ i + 1 \in 1..l
      BY <1>2, <2>2
    <3> QED
      BY <1>3, <3>1 DEF PathOf
  <2> QED
    BY <2>1, <2>2
<1>6. Turns(u) = Turns(t) \cup (IF x = s THEN {} ELSE {l + 1})
  <2>1. \A i \in 1..l : i \in Turns(u) <=> i \in Turns(t)
    BY <1>2, <1>3 DEF Turns
  <2>2. l + 1 \in Turns(u) <=> x # s
    BY <1>1, <1>2, <1>3 DEF Turns
  <2>3. 1..(l + 1) = 1..l \cup {l + 1}
    BY <1>2
  <2>4. Turns(u) \subseteq 1..(l + 1) /\ Turns(t) \subseteq 1..l
    BY <1>3 DEF Turns
  <2> HIDE DEF l
  <2> QED
    BY <2>1, <2>2, <2>3, <2>4
<1>7. Cardinality(Turns(u)) = IF x = s THEN n ELSE n + 1
  <2>1. IsFiniteSet(Turns(t)) /\ n = Cardinality(Turns(t)) /\ n \in Nat
    BY TurnsFinite DEF PathOf
  <2>2. l + 1 \notin Turns(t)
    BY <1>2 DEF Turns
  <2>3. CASE x = s
    BY <1>6, <2>1, <2>3
  <2>4. CASE x # s
    <3>1. Turns(u) = Turns(t) \cup {l + 1}
      BY <1>6, <2>4
    <3>2. Cardinality(Turns(t) \cup {l + 1}) = Cardinality(Turns(t)) + 1
      BY <2>1, <2>2, FS_AddElement
    <3> QED
      BY <2>1, <2>4, <3>1, <3>2
  <2> QED
    BY <2>3, <2>4
<1>8. PathOf(u, x, IF x = s THEN n ELSE n + 1)
  BY <1>4, <1>5, <1>7 DEF PathOf
<1> QED
  BY <1>3, <1>8 DEF u, e

LEMMA FirstEvent == PathOf(<< <<"none", "submitted">> >>, "submitted", 1)
<1> DEFINE e == <<"none", "submitted">>
           t == <<e>>
<1>1. Len(t) = 1 /\ t[1] = e /\ t # <<>> /\ e[1] = "none" /\ e[2] = "submitted"
  OBVIOUS
<1> HIDE DEF e
<1>2. Turns(t) = {1}
  BY <1>1 DEF Turns
<1>3. Cardinality({1}) = 1
  BY FS_Singleton
<1> HIDE DEF t
<1>4. PathOf(t, "submitted", 1)
  BY <1>1, <1>2, <1>3 DEF PathOf
<1> QED
  BY <1>4 DEF t, e

Path(r) == PathOf(trail[r], request[r].status, request[r].revision)

AllPaths == \A r \in Requests : Path(r)

LEMMA PathPointwise == TrailIsPath <=> AllPaths
BY Zenon DEF TrailIsPath, AllPaths, Path, PathOf, Turns

(* One event, from the request's status to the next.                       *)
Event(r) ==
  /\ request[r].status # "none"
  /\ \E s \in Statuses \ {"none"} :
       /\ trail'[r] = Append(trail[r], <<request[r].status, s>>)
       /\ request'[r].status = s
       /\ request'[r].revision = IF s = request[r].status THEN request[r].revision
                                 ELSE request[r].revision + 1

NoEvent(r) ==
  /\ trail'[r] = trail[r]
  /\ request'[r].status = request[r].status
  /\ request'[r].revision = request[r].revision

LEMMA EventsKeepPath ==
  ASSUME TypeOK, NEW r \in Requests, Path(r), Event(r) \/ NoEvent(r)
  PROVE  Path(r)'
<1>1. trail[r] \in Seq(Statuses \X Statuses) /\ request[r].status \in Statuses
  BY DEF TypeOK, RequestType
<1>2. CASE NoEvent(r)
  BY <1>2 DEF NoEvent, Path
<1>3. CASE Event(r)
  <2>1. PICK s \in Statuses \ {"none"} :
          /\ trail'[r] = Append(trail[r], <<request[r].status, s>>)
          /\ request'[r].status = s
          /\ request'[r].revision = IF s = request[r].status THEN request[r].revision
                                    ELSE request[r].revision + 1
    BY <1>3 DEF Event
  <2>2. PathOf(Append(trail[r], <<request[r].status, s>>), s,
               IF s = request[r].status THEN request[r].revision ELSE request[r].revision + 1)
    BY <1>1, <1>3, EventAppended DEF Path, Event
  <2> QED
    BY <2>1, <2>2 DEF Path
<1> QED
  BY <1>2, <1>3

(* A move is an event of the requests that change their status.            *)
LEMMA MoveEvents ==
  ASSUME TypeOK, NEW moves, Move(moves),
         \A x \in Requests : x \in DOMAIN moves =>
           /\ moves[x] \in Settled /\ moves[x] # request[x].status
           /\ request[x].status # "none",
         NEW r \in Requests
  PROVE  Event(r) \/ NoEvent(r)
<1>1. request[r] \in RowType
  BY DEF TypeOK, RequestType, RowType
<1>2. /\ request'[r] = IF r \in DOMAIN moves THEN Moved(request[r], moves[r]) ELSE request[r]
      /\ trail'[r] = IF r \in DOMAIN moves
                     THEN Append(trail[r], <<request[r].status, moves[r]>>) ELSE trail[r]
  BY DEF Move
<1>3. CASE r \notin DOMAIN moves
  BY <1>2, <1>3 DEF NoEvent
<1>4. CASE r \in DOMAIN moves
  <2>1. moves[r] \in Statuses \ {"none"}
    BY <1>4 DEF Settled
  <2>2. /\ Moved(request[r], moves[r]).status = moves[r]
        /\ Moved(request[r], moves[r]).revision = request[r].revision + 1
    BY <1>1, <2>1, MovedRow
  <2> QED
    BY <1>2, <1>4, <2>1, <2>2 DEF Event
<1> QED
  BY <1>3, <1>4

LEMMA OneEvent ==
  ASSUME TypeOK, NEW x, NEW s \in Settled, Move(One(x, s)),
         x \in Requests => request[x].status \notin {s, "none"},
         NEW r \in Requests
  PROVE  Event(r) \/ NoEvent(r)
<1>1. DOMAIN One(x, s) = {x} /\ One(x, s)[x] = s
  BY OneMove
<1>2. \A y \in Requests : y \in DOMAIN One(x, s) =>
        /\ One(x, s)[y] \in Settled /\ One(x, s)[y] # request[y].status
        /\ request[y].status # "none"
  BY <1>1
<1> QED
  BY <1>2, MoveEvents

(* Staging leaves two events, through "processing".                       *)
LEMMA StagingKeepsPath ==
  ASSUME Agreed, NEW x \in Requests, NEW a, NEW c, request[x].status = "submitted",
         StageLinked(x, a, c), NEW r \in Requests, Path(r)
  PROVE  Path(r)'
<1> DEFINE st == request[x].status
           t == trail[x]
           p == Moved(request[x], "processing")
           m == Moved(p, "staged")
<1>1. /\ trail \in [Requests -> Seq(Statuses \X Statuses)] /\ request[x] \in RequestType
      /\ request \in [Requests -> RequestType] /\ Len(policy) + 1 \in Nat
  BY FieldTypes DEF Agreed, Typed, TypeOK
<1>2. /\ request' = [request EXCEPT ![x] = [m EXCEPT !.linked = Len(policy) + 1]]
      /\ trail' = [trail EXCEPT ![x] = t \o << <<st, "processing">>, <<"processing", "staged">> >>]
  BY DEF StageLinked
<1>3. request'[x].status = "staged" /\ request'[x].revision = request[x].revision + 2
  <2> DEFINE row == [m EXCEPT !.linked = Len(policy) + 1]
  <2>1. row.status = "staged" /\ row.revision = request[x].revision + 2
    BY <1>1, StagedRow
  <2>2. request' = [request EXCEPT ![x] = row]
    BY <1>2
  <2> HIDE DEF row
  <2> QED
    BY <1>1, <2>1, <2>2
<1> HIDE DEF p, m
<1>4. CASE r # x
  <2>1. request'[r] = request[r] /\ trail'[r] = trail[r]
    BY <1>1, <1>2, <1>4
  <2> QED
    BY <2>1 DEF Path
<1>5. CASE r = x
  <2> DEFINE u == Append(t, <<st, "processing">>)
             n == request[x].revision
  <2>1. /\ st \in Statuses \ {"none"} /\ "processing" \in Statuses \ {"none"}
        /\ "staged" \in Statuses \ {"none"} /\ st # "processing" /\ n \in Nat
        /\ t \in Seq(Statuses \X Statuses)
    BY <1>1 DEF Statuses, RequestType
  <2>2. PathOf(t, st, n)
    BY <1>5 DEF Path
  <2>3. u \in Seq(Statuses \X Statuses) /\ PathOf(u, "processing", n + 1)
    <3> HIDE DEF t, st, n
    <3>1. /\ u \in Seq(Statuses \X Statuses)
          /\ PathOf(u, "processing", IF "processing" = st THEN n ELSE n + 1)
      BY <2>1, <2>2, EventAppended
    <3> QED
      BY <2>1, <3>1
  <2>4. PathOf(Append(u, <<"processing", "staged">>), "staged", n + 1 + 1)
    <3> HIDE DEF u
    <3>1. PathOf(Append(u, <<"processing", "staged">>), "staged",
                 IF "staged" = "processing" THEN n + 1 ELSE n + 1 + 1)
      BY <2>1, <2>3, EventAppended
    <3> QED
      BY <3>1
  <2>5. trail'[x] = Append(u, <<"processing", "staged">>)
    <3>1. /\ <<st, "processing">> \in Statuses \X Statuses
          /\ <<"processing", "staged">> \in Statuses \X Statuses
      BY <2>1
    <3>2. trail'[x] = t \o << <<st, "processing">>, <<"processing", "staged">> >>
      BY <1>1, <1>2
    <3> DEFINE d == <<st, "processing">>
               e == <<"processing", "staged">>
    <3> HIDE DEF t, d, e
    <3>3. \A f \in Statuses \X Statuses, g \in Statuses \X Statuses :
            t \o <<f, g>> = Append(Append(t, f), g)
      BY <2>1
    <3> QED
      BY <3>1, <3>2, <3>3
  <2>6. request'[x].revision = n + 1 + 1
    BY <1>3, <2>1
  <2> HIDE DEF u, n
  <2> QED
    BY <1>3, <1>5, <2>4, <2>5, <2>6 DEF Path
<1> QED
  BY <1>4, <1>5

LEMMA NoEventYet == PathOf(<<>>, "none", 0)
<1> DEFINE t == <<>>
<1>1. Len(t) = 0 /\ t = <<>>
  OBVIOUS
<1> HIDE DEF t
<1>2. Turns(t) = {}
  BY <1>1 DEF Turns
<1>3. Cardinality({}) = 0
  BY FS_EmptySet
<1>4. 0 = Cardinality(Turns(t))
  BY <1>2, <1>3
<1>5. 1..(Len(t) - 1) = {}
  BY <1>1
<1>6. PathOf(t, "none", 0)
  BY <1>1, <1>4, <1>5, Zenon DEF PathOf
<1> QED
  BY <1>6 DEF t

LEMMA TrailStep ==
  ASSUME Agreed, run => latest # 0, [Next]_vars, NEW r \in Requests, Path(r)
  PROVE  Path(r)'
<1>1. /\ TypeOK /\ trail \in [Requests -> Seq(Statuses \X Statuses)]
      /\ request \in [Requests -> RequestType]
      /\ \A x \in Requests : RequestAgrees(x)
      /\ \A v \in 1..Len(policy) : RevisionAgrees(v)
      /\ \A v \in 1..Len(policy) : policy[v].request \in Requests \cup {NoRequest}
      /\ {"submitted", "staged", "rejected", "approved", "deployed", "conflict"} \subseteq Settled
  BY FieldTypes, PointwiseAgreement DEF Agreed, Typed, TypeOK, EachRequestAlone, Settled, Statuses
<1>2. Event(r) \/ NoEvent(r) => Path(r)'
  BY <1>1, EventsKeepPath
<1>3. ASSUME UNCHANGED <<request, trail>> PROVE Path(r)'
  BY <1>3 DEF Path
<1>4. ASSUME NEW k \in Submitters, NEW x \in Requests, StoreSubmitted(k, x) PROVE Path(r)'
  <2>1. CASE Insertable(k)
    <3>1. /\ trail'[x] = << <<"none", "submitted">> >>
          /\ request'[x].status = "submitted" /\ request'[x].revision = 1
          /\ \A y \in Requests \ {x} : request'[y] = request[y] /\ trail'[y] = trail[y]
      BY <1>1, <1>4, <2>1 DEF StoreSubmitted
    <3>2. CASE r = x
      BY <3>1, <3>2, FirstEvent DEF Path
    <3>3. CASE r # x
      BY <3>1, <3>3 DEF Path
    <3> QED
      BY <3>2, <3>3
  <2> QED
    BY <1>3, <1>4, <2>1 DEF StoreSubmitted
<1>5. ASSUME NEW x \in Requests, LeaveWindow(x) PROVE Path(r)'
  <2>1. /\ request' = [request EXCEPT ![x] = [request[x] EXCEPT !.recent = FALSE]]
        /\ UNCHANGED trail
    BY <1>5 DEF LeaveWindow
  <2>2. /\ [request[x] EXCEPT !.recent = FALSE].status = request[x].status
        /\ [request[x] EXCEPT !.recent = FALSE].revision = request[x].revision
    BY <1>1 DEF RequestType
  <2>3. NoEvent(r)
    BY <1>1, <2>1, <2>2 DEF NoEvent
  <2> QED
    BY <1>2, <2>3
<1>6. ASSUME NEW h \in Desks, NEW c \in BOOLEAN, PersistStaged(h, c) PROVE Path(r)'
  <2> DEFINE x == desk[h].request
  <2>1. x \in Requests /\ (UnchangedSince(h) => request[x].status = "submitted")
    BY <1>6 DEF PersistStaged, Agreed, Typed, Handlers, UnchangedSince
  <2>2. CASE UNCHANGED <<request, trail>>
    BY <1>3, <2>2
  <2>3. CASE UnchangedSince(h) /\ Move(One(x, "conflict"))
    BY <1>1, <1>2, <2>1, <2>3, OneEvent
  <2>4. CASE UnchangedSince(h) /\ StageLinked(x, desk[h].actor, c)
    BY <2>1, <2>4, StagingKeepsPath
  <2> QED
    BY <1>6, <2>2, <2>3, <2>4 DEF PersistStaged
<1>7. ASSUME NEW h \in Desks, MarkRequestConflict(h) \/ RejectRequest(h) PROVE Path(r)'
  <2> DEFINE x == desk[h].request
  <2>1. CASE UNCHANGED <<request, trail>>
    BY <1>3, <2>1
  <2>2. CASE MarkRequestConflict(h) /\ UnchangedSince(h)
    <3>1. Move(One(x, "conflict")) /\ request[x].status = "submitted"
      BY <2>2 DEF MarkRequestConflict, UnchangedSince, Agreed, Typed, Handlers
    <3> QED
      BY <1>1, <1>2, <3>1, OneEvent
  <2>3. CASE RejectRequest(h) /\ UnchangedSince(h) /\ Move(One(x, "rejected"))
    <3>1. request[x].status \in {"submitted", "staged", "conflict"}
      BY <2>3 DEF RejectRequest, UnchangedSince, Agreed, Typed, Handlers
    <3> QED
      BY <1>1, <1>2, <2>3, <3>1, OneEvent
  <2> QED
    BY <1>7, <2>1, <2>2, <2>3 DEF MarkRequestConflict, RejectRequest
<1>8. ASSUME NEW u \in Users, NEW v \in 1..Len(policy), PublishRequest(u, v) PROVE Path(r)'
  <2> DEFINE own == policy[v].request
             moves == [x \in (Obsolete(v) \ {own}) \cup {own} |->
                         IF x = own THEN "approved" ELSE "conflict"]
  <2>1. Move(moves) /\ request[own].status = "staged"
    BY <1>8 DEF PublishRequest
  <2>2. \A x \in Requests : x \in DOMAIN moves =>
          /\ moves[x] \in Settled /\ moves[x] # request[x].status /\ request[x].status # "none"
    BY <1>1, <2>1 DEF Obsolete
  <2> HIDE DEF moves
  <2> QED
    BY <1>1, <1>2, <2>1, <2>2, MoveEvents
<1>9. ASSUME NEW u \in Users, NEW v \in 1..Len(policy), RejectRevision(u, v) PROVE Path(r)'
  <2>1. /\ Move(One(policy[v].request, "rejected"))
        /\ request[policy[v].request].status \in {"staged", "conflict"}
    BY <1>9 DEF RejectRevision
  <2> QED
    BY <1>1, <1>2, <2>1, OneEvent
<1>10. ASSUME NEW u \in Users, NEW c \in BOOLEAN, PublishDirect(u, c) PROVE Path(r)'
  <2> DEFINE moves == [x \in Obsolete(Len(policy) + 1) |-> "conflict"]
  <2>1. Move(moves)
    BY <1>10 DEF PublishDirect
  <2>2. \A x \in Requests : x \in DOMAIN moves =>
          /\ moves[x] \in Settled /\ moves[x] # request[x].status /\ request[x].status # "none"
    BY <1>1 DEF Obsolete
  <2> HIDE DEF moves
  <2> QED
    BY <1>1, <1>2, <2>1, <2>2, MoveEvents
<1>11. ASSUME NEW complete \in BOOLEAN, FinishRun(complete) PROVE Path(r)'
  <2> DEFINE x == policy[latest].request
  <2>1. CASE UNCHANGED <<request, trail>>
    BY <1>3, <2>1
  <2>2. CASE LogRun(x, complete) /\ x # NoRequest
    <3>1. latest \in 1..Len(policy)
      BY <1>1, <1>11 DEF FinishRun, TypeOK
    <3>2. x \in Requests /\ request[x].status \in Statuses \ {"none"}
      <4>1. x \in Requests /\ request[x].linked = latest
        BY <1>1, <2>2, <3>1 DEF RevisionAgrees
      <4>2. request[x].status # "none"
        BY <1>1, <3>1, <4>1 DEF RequestAgrees
      <4> QED
        BY <1>1, <4>1, <4>2 DEF RequestType
    <3>3. CASE complete /\ request[x].status = "approved"
      <4>1. Move(One(x, "deployed"))
        BY <2>2, <3>3 DEF LogRun
      <4> QED
        BY <1>1, <1>2, <3>2, <3>3, <4>1, OneEvent
    <3>4. CASE ~complete
      <4>1. /\ trail' = [trail EXCEPT ![x] = Append(@, <<request[x].status, request[x].status>>)]
            /\ UNCHANGED request
        BY <2>2, <3>4 DEF LogRun
      <4>2. Event(r) \/ NoEvent(r)
        BY <1>1, <3>2, <4>1 DEF Event, NoEvent
      <4> QED
        BY <1>2, <4>2
    <3>5. CASE complete /\ request[x].status # "approved"
      <4>1. UNCHANGED <<request, trail>>
        BY <2>2, <3>5 DEF LogRun
      <4> QED
        BY <1>3, <4>1
    <3> QED
      BY <3>3, <3>4, <3>5
  <2> QED
    BY <1>11, <2>1, <2>2 DEF FinishRun
<1>12. \/ UNCHANGED <<request, trail>>
       \/ \E k \in Submitters, x \in Requests : StoreSubmitted(k, x)
       \/ \E x \in Requests : LeaveWindow(x)
       \/ \E h \in Desks, c \in BOOLEAN : PersistStaged(h, c)
       \/ \E h \in Desks : MarkRequestConflict(h) \/ RejectRequest(h)
       \/ \E u \in Users, v \in 1..Len(policy) : PublishRequest(u, v) \/ RejectRevision(u, v)
       \/ \E u \in Users, c \in BOOLEAN : PublishDirect(u, c)
       \/ \E complete \in BOOLEAN : FinishRun(complete)
  BY DEF Next, vars, tables, AdmitSubmission, ListRequests, LoadForStaging, BuildCandidate,
         LoadForRejection, StartRun, MutateAccount, Crash
<1> QED
  BY <1>3, <1>4, <1>5, <1>6, <1>7, <1>8, <1>9, <1>10, <1>11, <1>12

(* The history of a request is one path from its submission to its status, *)
(* and its revision number counts the changes in it: no handler, sweep or  *)
(* protocol writes a status without its event, or an event out of turn.    *)
THEOREM TrailsArePaths == Spec => []TrailIsPath
<1>1. ASSUME Init PROVE TrailIsPath
  <2>1. ASSUME NEW r \in Requests PROVE Path(r)
    <3>1. trail[r] = <<>> /\ request[r].status = "none" /\ request[r].revision = 0
      BY <1>1 DEF Init, Unsubmitted
    <3> QED
      BY <3>1, NoEventYet DEF Path
  <2> QED
    BY <2>1, PathPointwise DEF AllPaths
<1>2. ASSUME Agreed, Deploying, TrailIsPath, [Next]_vars PROVE TrailIsPath'
  <2>1. TrailIsPath' <=> AllPaths'
    BY PathPointwise, PTL
  <2>2. \A r \in Requests : Path(r)
    BY <1>2, PathPointwise DEF AllPaths
  <2>3. \A r \in Requests : Path(r)'
    BY <1>2, <2>2, TrailStep DEF Deploying
  <2> QED
    BY <2>1, <2>3 DEF AllPaths
<1> QED
  BY <1>1, <1>2, DeployingInit, DeployingStep, AgreedAlways, PTL DEF Spec

-----------------------------------------------------------------------------
(***************************************************************************)
(* The administration of requests implements ReviewedRequests.  What joins *)
(* the invariants for it: a staged request's revision is younger than the  *)
(* publication it was written for.                                         *)
(***************************************************************************)
Younger(r) == request[r].status = "staged" => request[r].base < request[r].linked

Numbered == \A r \in Requests : Younger(r)

LEMMA NumberedStep ==
  ASSUME Agreed, Numbered, Decision
  PROVE  Numbered'
<1>0. Len(policy) \in Nat /\ latest \in 0..Len(policy)
  BY FieldTypes DEF Agreed, Typed, TypeOK
<1> SUFFICES ASSUME NEW r \in Requests PROVE Younger(r)'
  BY DEF Numbered
<1>1. Younger(r)
  BY DEF Numbered
<1>2. Still(r) => Younger(r)'
  BY <1>1 DEF Still, Younger
<1>3. \A s : s # "staged" /\ request'[r].status = s => Younger(r)'
  BY DEF Younger
<1>4. ASSUME NEW x \in Requests, Staged(x) PROVE Younger(r)'
  <2>1. x # r => Still(r)
    BY <1>4 DEF Staged, Only
  <2>2. request'[x].base < request'[x].linked
    BY <1>0, <1>4 DEF Staged
  <2> QED
    BY <1>2, <2>1, <2>2 DEF Younger
<1>5. ASSUME NEW x \in Requests, Submitted(x) \/ Conflicted(x) \/ Rejected(x) \/ Deployed(x)
      PROVE  Younger(r)'
  BY <1>2, <1>3, <1>5 DEF Submitted, Conflicted, Rejected, Deployed, Only, Moves
<1>6. CASE PublishedAlone
  BY <1>2, <1>3, <1>6 DEF PublishedAlone, Swept, Moves
<1>7. ASSUME NEW own \in Requests, NEW v \in 1..Len(policy), PublishedFor(own, v) PROVE Younger(r)'
  BY <1>2, <1>3, <1>7 DEF PublishedFor, Swept, Moves
<1>8. CASE NoDecision
  BY <1>2, <1>8 DEF NoDecision
<1> QED
  BY <1>4, <1>5, <1>6, <1>7, <1>8 DEF Decision

Phase == [r \in Requests |-> request[r].status]
Bases == [r \in Requests |-> request[r].base]
Revisions == [r \in Requests |-> request[r].linked]
Work == [r \in Requests |-> HasCommands(r)]

ReviewedVars == <<Phase, Bases, Revisions, Work, Len(policy), latest>>

(* A request that keeps its revision keeps what there is to deploy.        *)
LEMMA WorkKept ==
  ASSUME Agreed, [Next]_vars, NEW r \in Requests, request'[r].linked = request[r].linked
  PROVE  HasCommands(r)' = HasCommands(r)
<1>1. request[r].linked = 0 \/ request[r].linked \in 1..Len(policy)
  BY PointwiseAgreement DEF EachRequestAlone, RequestAgrees, Agreed
<1> QED
  BY <1>1, CommandsKept DEF HasCommands

(* A decision that stages nothing keeps bases, revisions and work.         *)
LEMMA RestKept ==
  ASSUME Agreed, [Next]_vars,
         \A r \in Requests : request'[r].base = request[r].base /\ request'[r].linked = request[r].linked
  PROVE  Bases' = Bases /\ Revisions' = Revisions /\ Work' = Work
BY WorkKept DEF Bases, Revisions, Work

LEMMA PhaseMoved ==
  ASSUME NEW r \in Requests, NEW s, request'[r].status = s, Only(r)
  PROVE  Phase' = [Phase EXCEPT ![r] = s]
BY DEF Phase, Only, Still

LEMMA MovesOne ==
  ASSUME Agreed, [Next]_vars, NEW r \in Requests, NEW s, Moves(r, s), Only(r)
  PROVE  Phase' = [Phase EXCEPT ![r] = s] /\ Bases' = Bases /\ Revisions' = Revisions /\ Work' = Work
<1>1. \A x \in Requests : request'[x].base = request[x].base /\ request'[x].linked = request[x].linked
  BY DEF Moves, Only, Still
<1>2. Phase' = [Phase EXCEPT ![r] = s]
  BY PhaseMoved DEF Moves
<1> QED
  BY <1>1, <1>2, RestKept

LEMMA SubmittedImplements ==
  ASSUME Agreed, [Next]_vars, NEW r \in Requests, Submitted(r)
  PROVE  Reviewed!Submit(r)
<1>1. request[r].linked = 0
  BY PointwiseAgreement DEF EachRequestAlone, RequestAgrees, Agreed, Submitted
<1>2. \A x \in Requests : request'[x].linked = request[x].linked
  BY <1>1 DEF Submitted, Only, Still
<1>3. Revisions' = Revisions /\ Work' = Work
  BY <1>2, WorkKept DEF Revisions, Work
<1>4. Bases' = [Bases EXCEPT ![r] = latest]
  BY DEF Submitted, Only, Still, Bases
<1>5. Phase' = [Phase EXCEPT ![r] = "submitted"]
  BY PhaseMoved DEF Submitted
<1>6. Phase[r] = "none" /\ UNCHANGED <<Len(policy), latest>>
  BY DEF Submitted, Phase
<1> QED
  BY <1>3, <1>4, <1>5, <1>6 DEF Reviewed!Submit, Phase, Bases, Revisions, Work

LEMMA StagedImplements ==
  ASSUME Agreed, TypeOK', [Next]_vars, NEW r \in Requests, Staged(r)
  PROVE  \E commands \in BOOLEAN : Reviewed!Stage(r, commands)
<1> DEFINE n == Len(policy) + 1
<1>0. Len(policy) \in Nat
  BY FieldTypes DEF Agreed, Typed
<1>1. policy'[n] \in PolicyType
  BY <1>0 DEF Staged, TypeOK
<1>2. PICK commands \in BOOLEAN : (HasCommands(r))' = commands
  <2>1. (HasCommands(r))' = policy'[n].commands /\ policy'[n].commands \in BOOLEAN
    BY <1>0, <1>1 DEF HasCommands, Staged, PolicyType
  <2> QED
    BY <2>1
<1>3. \A x \in Requests \ {r} : HasCommands(x)' = HasCommands(x)
  BY WorkKept DEF Staged, Only, Still
<1>4. Work' = [Work EXCEPT ![r] = commands]
  BY <1>2, <1>3 DEF Work
<1>5. Phase' = [Phase EXCEPT ![r] = "staged"]
  BY PhaseMoved DEF Staged
<1>6. Bases' = Bases /\ Revisions' = [Revisions EXCEPT ![r] = n]
  <2>1. /\ request'[r].base = request[r].base /\ request'[r].linked = n
        /\ \A x \in Requests \ {r} : request'[x].base = request[x].base
                                    /\ request'[x].linked = request[x].linked
    BY DEF Staged, Only, Still
  <2> HIDE DEF n
  <2>2. Bases' = Bases
    BY <2>1 DEF Bases
  <2>3. Revisions' = [Revisions EXCEPT ![r] = n]
    BY <2>1 DEF Revisions
  <2> QED
    BY <2>2, <2>3
<1>7. Phase[r] = "submitted" /\ Bases[r] = latest /\ latest' = latest /\ Len(policy') = n
  BY DEF Staged, Phase, Bases
<1>8. Reviewed!Stage(r, commands)
  BY <1>4, <1>5, <1>6, <1>7 DEF Reviewed!Stage, Phase, Bases, Revisions, Work
<1> QED
  BY <1>8

LEMMA ClosedImplements ==
  ASSUME Agreed, [Next]_vars, NEW r \in Requests, Conflicted(r) \/ Rejected(r)
  PROVE  Reviewed!Close(r)
<1>1. Len(policy') = Len(policy) /\ latest' = latest
  BY DEF Conflicted, Rejected
<1>2. CASE Conflicted(r)
  <2>1. /\ Phase' = [Phase EXCEPT ![r] = "conflict"]
        /\ Bases' = Bases /\ Revisions' = Revisions /\ Work' = Work
    BY <1>2, MovesOne DEF Conflicted
  <2>2. Phase[r] = "submitted"
    BY <1>2 DEF Conflicted, Phase
  <2> QED
    BY <1>1, <2>1, <2>2 DEF Reviewed!Close, Phase, Bases, Revisions, Work
<1>3. CASE Rejected(r)
  <2>1. /\ Phase' = [Phase EXCEPT ![r] = "rejected"]
        /\ Bases' = Bases /\ Revisions' = Revisions /\ Work' = Work
    BY <1>3, MovesOne DEF Rejected
  <2>2. Phase[r] \in {"submitted", "staged", "conflict"}
    BY <1>3 DEF Rejected, Phase
  <2> QED
    BY <1>1, <2>1, <2>2 DEF Reviewed!Close, Reviewed!Open, Phase, Bases, Revisions, Work
<1> QED
  BY <1>2, <1>3

LEMMA DeployedImplements ==
  ASSUME Agreed, Deploying, [Next]_vars, NEW r \in Requests, Deployed(r)
  PROVE  Reviewed!Deploy(r)
<1>1. request[r].linked = latest
  BY DeployingRun DEF Deployed, Moves
<1>2. /\ Phase' = [Phase EXCEPT ![r] = "deployed"]
      /\ Bases' = Bases /\ Revisions' = Revisions /\ Work' = Work
  BY MovesOne DEF Deployed
<1>3. Phase[r] = "approved" /\ Revisions[r] = latest /\ UNCHANGED <<Len(policy), latest>>
  BY <1>1 DEF Deployed, Phase, Revisions
<1> QED
  BY <1>2, <1>3 DEF Reviewed!Deploy, Phase, Bases, Revisions, Work

(* A publication of another revision than the latest finds all open        *)
(* requests obsolete, and nothing approved left to deploy.                 *)
LEMMA OvertakingImplements ==
  ASSUME Agreed, Deploying, [Next]_vars, latest' # latest, NEW approved \in SUBSET Requests,
         \A r \in approved : Moves(r, "approved"),
         Swept(Obsolete(latest') \ approved),
         \A r \in Requests \ (Obsolete(latest') \cup approved) : Still(r)
  PROVE  Reviewed!Overtake(approved)
<1>1. \A r \in Requests : RequestAgrees(r)
  BY PointwiseAgreement DEF EachRequestAlone, Agreed
<1>2. Obsolete(latest') = {r \in Requests : request[r].status \in {"submitted", "staged"}}
  BY <1>1 DEF Obsolete, RequestAgrees
<1>3. ASSUME NEW r \in Requests
      PROVE  /\ request'[r].base = request[r].base /\ request'[r].linked = request[r].linked
             /\ request'[r].status = IF r \in approved THEN "approved"
                  ELSE IF request[r].status \in {"submitted", "staged"} THEN "conflict"
                  ELSE request[r].status
  <2>1. CASE r \in approved
    BY <2>1 DEF Moves
  <2>2. CASE r \notin approved /\ request[r].status \in {"submitted", "staged"}
    BY <1>2, <2>2 DEF Swept, Moves
  <2>3. CASE r \notin approved /\ request[r].status \notin {"submitted", "staged"}
    BY <1>2, <2>3 DEF Still
  <2> QED
    BY <2>1, <2>2, <2>3
<1>4. Bases' = Bases /\ Revisions' = Revisions /\ Work' = Work
  BY <1>3, RestKept
<1>5. Phase' = [r \in Requests |->
                  IF r \in approved THEN "approved"
                  ELSE IF Phase[r] \in {"submitted", "staged"} THEN "conflict" ELSE Phase[r]]
  BY <1>3 DEF Phase
<1>6. LatestPublicationDeployed
  BY PublicationsWait
<1>7. ASSUME NEW r \in Requests, Phase[r] = "approved" PROVE ~Work[r]
  BY <1>6, <1>7, ApprovedDeployNothing DEF Phase, Work, HasCommands
<1> QED
  BY <1>4, <1>5, <1>7
     DEF Reviewed!Overtake, Reviewed!NothingWaits, Reviewed!Open, Phase, Bases, Revisions, Work

LEMMA ApprovedImplements ==
  ASSUME Agreed, Deploying, Numbered, [Next]_vars, NEW own \in Requests, NEW v \in 1..Len(policy),
         PublishedFor(own, v)
  PROVE  Reviewed!Approve(own)
<1>1. /\ request[own].status = "staged" /\ request[own].base = latest
      /\ request[own].linked = v
  <2>1. RequestAgrees(own) /\ RevisionAgrees(v) /\ NoRequest \notin Requests
    BY PointwiseAgreement, RequestsAssumption DEF EachRequestAlone, Agreed
  <2> QED
    BY <2>1 DEF PublishedFor, RequestAgrees, RevisionAgrees
<1>2. latest < v /\ latest \in Nat /\ v \in Nat
  BY <1>1, FieldTypes DEF Numbered, Younger, Agreed, Typed, TypeOK
<1>3. latest' = v /\ Len(policy') = Len(policy)
  BY DEF PublishedFor
<1>4. Reviewed!Overtake({own})
  <2>1. /\ Moves(own, "approved") /\ Swept(Obsolete(latest') \ {own})
        /\ \A r \in Requests \ (Obsolete(latest') \cup {own}) : Still(r)
    BY <1>3 DEF PublishedFor
  <2>2. latest' # latest
    BY <1>2, <1>3
  <2> QED
    BY <2>1, <2>2, OvertakingImplements
<1>5. Phase[own] = "staged" /\ Bases[own] = latest /\ Revisions[own] = v
  BY <1>1 DEF Phase, Bases, Revisions
<1> QED
  BY <1>2, <1>3, <1>4, <1>5 DEF Reviewed!Approve, Phase, Bases, Revisions

LEMMA PublishedImplements ==
  ASSUME Agreed, Deploying, [Next]_vars, PublishedAlone
  PROVE  Reviewed!PublishOther
<1>1. Len(policy) \in Nat /\ latest \in 0..Len(policy)
  BY FieldTypes DEF Agreed, Typed, TypeOK
<1>2. latest' = Len(policy) + 1 /\ Len(policy') = Len(policy) + 1 /\ latest' # latest
  BY <1>1 DEF PublishedAlone
<1>3. Swept(Obsolete(latest') \ {}) /\ \A r \in Requests \ (Obsolete(latest') \cup {}) : Still(r)
  BY <1>2 DEF PublishedAlone, Swept
<1>4. Reviewed!Overtake({})
  BY <1>2, <1>3, OvertakingImplements
<1> QED
  BY <1>2, <1>4 DEF Reviewed!PublishOther

LEMMA ReviewedStep ==
  ASSUME Agreed, TypeOK', Deploying, Numbered, [Next]_vars
  PROVE  Reviewed!Next \/ UNCHANGED ReviewedVars
<1>1. Decision
  BY StepDecides
<1>2. CASE NoDecision
  <2>1. \A r \in Requests : Still(r)
    BY <1>2 DEF NoDecision
  <2>2. Phase' = Phase
    BY <2>1 DEF Phase, Still
  <2>3. Bases' = Bases /\ Revisions' = Revisions /\ Work' = Work
    BY <2>1, RestKept DEF Still
  <2> QED
    BY <1>2, <2>2, <2>3 DEF NoDecision, ReviewedVars
<1>3. ASSUME NEW r \in Requests, Submitted(r) \/ Conflicted(r) \/ Rejected(r) \/ Deployed(r)
      PROVE  Reviewed!Next
  BY <1>3, SubmittedImplements, ClosedImplements, DeployedImplements DEF Reviewed!Next
<1>4. ASSUME NEW r \in Requests, Staged(r) PROVE Reviewed!Next
  BY <1>4, StagedImplements DEF Reviewed!Next
<1>5. ASSUME NEW own \in Requests, NEW v \in 1..Len(policy), PublishedFor(own, v) PROVE Reviewed!Next
  BY <1>5, ApprovedImplements DEF Reviewed!Next
<1>6. CASE PublishedAlone
  BY <1>6, PublishedImplements DEF Reviewed!Next
<1> QED
  BY <1>1, <1>2, <1>3, <1>4, <1>5, <1>6 DEF Decision

LEMMA ReviewedStart == Init => Reviewed!Init /\ Numbered
<1> SUFFICES ASSUME Init PROVE Reviewed!Init /\ Numbered
  OBVIOUS
<1>1. /\ \A r \in Requests : request[r] = Unsubmitted
      /\ policy = <<>> /\ latest = 0
  BY DEF Init
<1>2. /\ \A r \in Requests : request[r].status = "none" /\ request[r].base = 0 /\ request[r].linked = 0
      /\ Len(policy) = 0
  BY <1>1 DEF Unsubmitted
<1>3. Reviewed!Init
  BY <1>1, <1>2 DEF Reviewed!Init, HasCommands
<1>4. Numbered
  BY <1>2 DEF Numbered, Younger
<1> QED
  BY <1>3, <1>4

(* Submission, staging, both rejections, publication with its sweep and    *)
(* the deployment protocol, with everything that runs beside them, keep    *)
(* the promise of ReviewedRequests.                                        *)
THEOREM RequestsAreReviewed == Spec => ImplementsReviewedRequests
<1>1. Agreed /\ Agreed' /\ Deploying /\ Numbered /\ [Next]_vars => [Reviewed!Next]_ReviewedVars
  BY ReviewedStep DEF Agreed, Typed
<1>2. Agreed /\ Numbered /\ [Next]_vars => Numbered'
  BY StepDecides, NumberedStep
<1> QED
  BY <1>1, <1>2, ReviewedStart, DeployingInit, DeployingStep, AgreedAlways, PTL
     DEF Spec, ImplementsReviewedRequests, Reviewed!Spec, Reviewed!rrVars, ReviewedVars, Phase, Bases,
         Revisions, Work

=============================================================================
