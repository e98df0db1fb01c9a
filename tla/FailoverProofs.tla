--------------------------- MODULE FailoverProofs ---------------------------
(***************************************************************************)
(* Proofs about the HTTP request path for every set of requests, every set *)
(* of accounts, every limit and every budget: slots are not lost, a request*)
(* is not sent to an account twice between two waits, its waits stay within*)
(* the budget and a Retry-After is earned, a named account is kept, and a  *)
(* canceled request blames no account but the one it is using.             *)
(***************************************************************************)
EXTENDS Failover, AccountPoolProofs

Held == {"ready", "refreshing", "sent", "opened", "delivering"}

\* The request has chosen an account.
Chosen == Held \union {"queued", "queuedSpecific", "queuedPinned"}

\* The kinds that may move from account to account, see Roaming.
Movable == {"new", "explicit", "stripped"}

\* A request holds a slot of the account it uses and of no other.
LeaseOfRequest(q) == q.lease = IF q.pc \in Held THEN q.account ELSE None

AccountOfRequest(q) ==
  /\ q.pc \in Chosen => q.account \in Accounts
  /\ q.lastErr # "none" => q.lastAccount \in Accounts

\* A request that names its account never chooses another.
NamedRequest(q) ==
  q.kind \notin Movable =>
    /\ q.preferred \in Accounts
    /\ q.pc \notin {"matching", "queued"}
    /\ q.pc \in Chosen => q.account = q.preferred

\* Any other chooses an account it has not attempted, and has attempted every
\* account it was sent to since it last waited, but the one it is using now.
MovableRequest(q) ==
  q.kind \in Movable =>
    /\ q.pc # "queuedPinned"
    /\ q.pc \in Chosen \ {"sent", "opened", "delivering"} => q.account \notin q.attempted
    /\ q.sentTo \subseteq q.attempted
         \union IF q.pc \in {"sent", "opened", "delivering"} THEN {q.account} ELSE {}

\* The timer and the recovery it waits for run out together unless the budget
\* ends first, and the budget is whole until the first wait.
TimerOfRequest(q) ==
  /\ q.timer = IF q.pc = "waiting" THEN Lower(q.recoveryAt, q.left) ELSE 0
  /\ q.pc = "waiting" => q.started
  /\ ~q.started => q.left = Budget

RequestOK(q) == /\ q \in Request
                /\ LeaseOfRequest(q)
                /\ AccountOfRequest(q)
                /\ NamedRequest(q)
                /\ MovableRequest(q)
                /\ TimerOfRequest(q)

IInv == /\ TypeOK
        /\ \A r \in Requests : RequestOK(req[r])

-----------------------------------------------------------------------------
(* One request's step, as its record before and after it. *)

USE DEF PCs, Held, Chosen, Movable

\* What a step promises about a request: it gives up its slot or keeps it, a
\* Retry-After follows a budget that has run out, and it is sent where it may be.
StepOK(q, q2) ==
  /\ q.result = "none" /\ q2.result = "retryAfter" => q.started /\ q.left = 0
  /\ q.pc # "sent" /\ q2.pc = "sent"
       => /\ q.kind \in Movable => q.account \notin q.sentTo
          /\ q.kind \notin Movable => q.account = q.preferred

\* Request r becomes q2.
Becomes(r, q2) ==
  /\ req' = [req EXCEPT ![r] = q2]
  /\ RequestOK(q2)
  /\ StepOK(req[r], q2)

\* What a step of request r promises of everything.
Progress(r) ==
  /\ PoolTypeOK' /\ bound' \in Accounts \union {None} /\ UNCHANGED changes
  /\ \E q2 : Becomes(r, q2)

\* All but the progress, the account and the slot of the request stays.
Keeps(q, q2) ==
  /\ q2.kind = q.kind /\ q2.preferred = q.preferred /\ q2.attempted = q.attempted /\ q2.sentTo = q.sentTo
  /\ q2.lastErr = q.lastErr /\ q2.lastAccount = q.lastAccount /\ q2.result = q.result
  /\ q2.timer = q.timer /\ q2.left = q.left /\ q2.started = q.started

KindsOf == AllKinds \union {"stripped"}

\* A request without any progress is in order.
LEMMA BlankRequestOK ==
  ASSUME NEW q \in Request, q.pc \in {"select", "done"}, q.account = None, q.lease = None,
         q.lastErr = "none", q.sentTo = {}, q.timer = 0, q.started = FALSE, q.left = Budget,
         q.kind \notin Movable => q.preferred \in Accounts
  PROVE  RequestOK(q)
BY DEF RequestOK, LeaseOfRequest, AccountOfRequest, NamedRequest, MovableRequest, TimerOfRequest

\* A request without a lease and a history has its type.
LEMMA FreshType ==
  ASSUME NEW k \in KindsOf, NEW a \in Accounts \union {None}
  PROVE  Fresh(k, a) \in Request
BY HorizonAssumption, NumbersAssumption DEF Fresh, Request, KindsOf

\* What Finish and Complete leave of a request.
Done(q, result) ==
  [Fresh(q.kind, q.preferred) EXCEPT !.pc = "done", !.canceled = q.canceled, !.result = result]

\* A request that has ended owes nothing.
LEMMA DoneOK ==
  ASSUME NEW q, RequestOK(q), NEW q2,
         NEW result \in {"ok", "retryAfter", "unavailable", "upstream", "canceled"},
         q2 = Done(q, result)
  PROVE  RequestOK(q2) /\ q2.pc = "done" /\ q2.lease = None /\ q2.result = result
<1>1. q.kind \in KindsOf /\ q.preferred \in Accounts \union {None} /\ q.canceled \in BOOLEAN
  BY DEF RequestOK, Request, KindsOf
<1>2. Fresh(q.kind, q.preferred) \in Request
  BY <1>1, FreshType
<1>3. q2 \in Request
  BY <1>1, <1>2 DEF Request, Done
<1>4. /\ q2.kind = q.kind /\ q2.preferred = q.preferred /\ q2.pc = "done" /\ q2.result = result
      /\ q2.account = None /\ q2.lease = None /\ q2.lastErr = "none" /\ q2.sentTo = {}
      /\ q2.timer = 0 /\ q2.started = FALSE /\ q2.left = Budget
  BY DEF Fresh, Done
<1>5. q2.kind \notin Movable => q2.preferred \in Accounts
  BY <1>4 DEF RequestOK, NamedRequest
<1> QED BY <1>3, <1>4, <1>5, BlankRequestOK

\* Finish gives back what the request holds.
LEMMA FinishStep ==
  ASSUME NEW r \in Requests, RequestOK(req[r]),
         NEW result \in {"retryAfter", "unavailable", "upstream", "canceled"}, Finish(r, result),
         result = "retryAfter" /\ ~req[r].canceled => req[r].started /\ req[r].left = 0
  PROVE  \E q2 : Becomes(r, q2)
<1> DEFINE answer == IF req[r].canceled THEN "canceled" ELSE result
<1>1. PICK q2 :
        /\ q2 = Done(req[r], answer)
        /\ req' = [req EXCEPT ![r] = q2]
  BY DEF Finish, Done
<1>2. /\ answer \in {"ok", "retryAfter", "unavailable", "upstream", "canceled"}
      /\ answer = "retryAfter" => req[r].started /\ req[r].left = 0
  OBVIOUS
<1> HIDE DEF answer
<1>3. RequestOK(q2) /\ q2.pc = "done" /\ q2.lease = None /\ q2.result = answer
  BY <1>1, <1>2, DoneOK
<1> QED BY <1>1, <1>2, <1>3 DEF Becomes, StepOK

\* What StripAndRetry makes of a request that account a has refused.
Stripped(k, a, c) == [Fresh(k, a) EXCEPT !.refused = a, !.canceled = c]

\* The retry without signatures starts with a history of its own.
LEMMA StrippedOK ==
  ASSUME NEW k \in KindsOf, NEW a \in Accounts, NEW c \in BOOLEAN,
         NEW q2, q2 = Stripped(k, a, c)
  PROVE  RequestOK(q2) /\ q2.pc = "select" /\ q2.lease = None /\ q2.result = "none"
<1>1. Fresh(k, a) \in Request
  BY FreshType
<1>2. q2 \in Request
  BY <1>1 DEF Request, Stripped
<1>3. /\ q2.kind = k /\ q2.preferred = a /\ q2.pc = "select" /\ q2.result = "none"
      /\ q2.account = None /\ q2.lease = None /\ q2.lastErr = "none" /\ q2.sentTo = {}
      /\ q2.timer = 0 /\ q2.started = FALSE /\ q2.left = Budget
  BY DEF Fresh, Stripped
<1> QED BY <1>2, <1>3, BlankRequestOK

\* A request that starts over forgets what was tried.
LEMMA StartOverStep ==
  ASSUME NEW r \in Requests, RequestOK(req[r]), StartOver(r)
  PROVE  \E q2 : Becomes(r, q2)
<1>1. PICK c \in BOOLEAN : c = req[r].canceled
  BY DEF RequestOK, Request
<1>2. PICK q2 : /\ q2 = [Fresh("new", None) EXCEPT !.canceled = c]
                /\ req' = [req EXCEPT ![r] = q2]
  BY <1>1 DEF StartOver
<1>3. Fresh("new", None) \in Request
  <2>1. "new" \in KindsOf
    BY DEF KindsOf, AllKinds
  <2> QED BY <2>1, FreshType
<1>4. q2 \in Request
  BY <1>2, <1>3 DEF Request
<1>5. /\ q2.kind = "new" /\ q2.pc = "select" /\ q2.result = "none"
      /\ q2.account = None /\ q2.lease = None /\ q2.lastErr = "none" /\ q2.sentTo = {}
      /\ q2.timer = 0 /\ q2.started = FALSE /\ q2.left = Budget
  BY <1>2 DEF Fresh
<1>6. RequestOK(q2)
  BY <1>4, <1>5, BlankRequestOK
<1> QED BY <1>2, <1>5, <1>6 DEF Becomes, StepOK

\* A rejected signature: the request is resolved again.
LEMMA StripAndRetryStep ==
  ASSUME NEW r \in Requests, RequestOK(req[r]), req[r].pc \in {"sent", "opened"}, StripAndRetry(r)
  PROVE  \E q2 : Becomes(r, q2)
<1>1. PICK a \in Accounts, c \in BOOLEAN :
        a = req[r].account /\ c = req[r].canceled
  BY DEF RequestOK, AccountOfRequest, Request
<1>2. PICK kind \in {"selected", "stripped", "explicit"} :
        req' = [req EXCEPT ![r] = Stripped(kind, a, c)]
  <2> DEFINE kinds == CASE req[r].kind = "selected" -> {"selected", "explicit"}
                        [] req[r].kind = "bare" -> {"stripped"}
                        [] OTHER -> {"explicit"}
  <2>1. kinds \subseteq {"selected", "stripped", "explicit"}
    OBVIOUS
  <2>2. \E kind \in kinds : req' = [req EXCEPT ![r] = Stripped(kind, a, c)]
    BY <1>1 DEF StripAndRetry, Stripped
  <2> HIDE DEF kinds
  <2> QED BY <2>1, <2>2
<1>3. kind \in KindsOf
  BY DEF KindsOf, AllKinds
<1>4. PICK q2 : q2 = Stripped(kind, a, c)
  OBVIOUS
<1>5. RequestOK(q2) /\ q2.pc = "select" /\ q2.lease = None /\ q2.result = "none"
  BY <1>3, <1>4, StrippedOK
<1> QED BY <1>2, <1>4, <1>5 DEF Becomes, StepOK

\* No lease: the request fails, starts over, or looks for another way.
LEMMA TurnedAwayStep ==
  ASSUME NEW r \in Requests, RequestOK(req[r]), TurnedAway(r),
         req[r].pc \notin {"sent", "opened", "delivering", "recover", "waiting", "done"}
  PROVE  \E q2 : Becomes(r, q2)
<1>1. CASE Finish(r, "unavailable")
  BY <1>1, FinishStep
<1>2. CASE StartOver(r)
  BY <1>2, StartOverStep
<1>3. CASE req' = [req EXCEPT ![r] = [@ EXCEPT !.pc = "recover", !.account = None, !.lease = None]]
  <2>1. PICK q2 : /\ q2 = [req[r] EXCEPT !.pc = "recover", !.account = None, !.lease = None]
                  /\ req' = [req EXCEPT ![r] = q2]
    BY <1>3
  <2>2. req[r] \in Request
    BY DEF RequestOK
  <2>3. q2 \in Request
    BY <2>1, <2>2 DEF Request
  <2>4. q2.pc = "recover" /\ q2.lease = None /\ Keeps(req[r], q2)
    BY <2>1, <2>2 DEF Request, Keeps
  <2>5. RequestOK(q2)
    BY <2>3, <2>4 DEF Keeps, RequestOK, LeaseOfRequest, AccountOfRequest, NamedRequest, MovableRequest, TimerOfRequest
  <2> QED BY <2>1, <2>4, <2>5 DEF Becomes, StepOK, Keeps
<1> QED BY <1>1, <1>2, <1>3 DEF TurnedAway

-----------------------------------------------------------------------------
(* Choosing an account. *)

\* An account is chosen and, unless it has to be waited for, a slot of it taken.
LEMMA ChosenStep ==
  ASSUME NEW r \in Requests, RequestOK(req[r]), NEW q2 \in Request,
         req' = [req EXCEPT ![r] = q2], Keeps(req[r], q2),
         req[r].pc \in {"select", "matching", "queued", "queuedSpecific", "queuedPinned"},
         q2.pc \in {"queued", "queuedSpecific", "queuedPinned", "ready"}, q2.account \in Accounts,
         q2.lease = IF q2.pc = "ready" THEN q2.account ELSE None,
         req[r].kind \in Movable => q2.pc # "queuedPinned" /\ q2.account \notin req[r].attempted,
         req[r].kind \notin Movable => q2.pc # "queued" /\ q2.account = req[r].preferred
  PROVE  Becomes(r, q2)
<1>1. RequestOK(q2)
  BY DEF Keeps, RequestOK, LeaseOfRequest, AccountOfRequest, NamedRequest, MovableRequest, TimerOfRequest
<1> QED BY <1>1 DEF Becomes, StepOK, Keeps

\* AcquireMatchingLease starts to look for an account, or starts to look again.
LEMMA MatchingStep ==
  ASSUME NEW r \in Requests, RequestOK(req[r]), NEW q2 \in Request,
         req' = [req EXCEPT ![r] = q2], Keeps(req[r], q2),
         req[r].pc \in {"select", "queued"}, req[r].kind \in Movable,
         q2.pc = "matching", q2.lease = None
  PROVE  Becomes(r, q2)
<1>1. RequestOK(q2)
  BY DEF Keeps, RequestOK, LeaseOfRequest, AccountOfRequest, NamedRequest, MovableRequest, TimerOfRequest
<1> QED BY <1>1 DEF Becomes, StepOK, Keeps

\* The accounts are chosen from and a slot is asked for.
LEMMA RouteStep ==
  ASSUME IInv, NEW r \in Requests, Route(r)
  PROVE  Progress(r)
<1>1. /\ req[r].pc = "select" /\ UNCHANGED <<pool, changes>>
      /\ RequestOK(req[r]) /\ req[r] \in Request /\ req[r].lease = None
  BY DEF Route, IInv, RequestOK, LeaseOfRequest
<1>2. PoolTypeOK' /\ bound' \in Accounts \union {None}
  <2>1. bound' \in {bound, BoundAfterLookup(r)}
    BY DEF Route
  <2> QED BY <1>1, <2>1 DEF IInv, TypeOK, PoolTypeOK, pool, BoundAfterLookup
<1>3. \E q2 : Becomes(r, q2)
  <2>1. CASE ~Roaming(r)
    <3>1. PICK pc, q2 : /\ pc = IF Single(r) THEN "queuedPinned" ELSE "queuedSpecific"
                        /\ q2 = [req[r] EXCEPT !.pc = pc, !.account = req[r].preferred]
                        /\ req' = [req EXCEPT ![r] = q2]
      BY <2>1 DEF Route
    <3>2. req[r].kind \notin Movable /\ req[r].preferred \in Accounts
      BY <1>1, <2>1 DEF Roaming, RequestOK, NamedRequest
    <3>3. pc \in {"queuedPinned", "queuedSpecific"}
      BY <3>1
    <3>4. q2 \in Request
      <4>1. req[r] \in Request /\ req[r].preferred \in Accounts /\ q2 = [req[r] EXCEPT !.pc = pc, !.account = req[r].preferred]
        BY <1>1, <3>1, <3>2
      <4> QED BY <3>3, <4>1 DEF Request
    <3>5. q2.pc = pc /\ q2.account = req[r].preferred /\ q2.lease = None /\ Keeps(req[r], q2)
      BY <1>1, <3>1 DEF Request, Keeps
    <3> QED BY <1>1, <3>1, <3>2, <3>3, <3>4, <3>5, ChosenStep
  <2>2. CASE Roaming(r) /\ Affine(r)
    <3>1. PICK q2 : /\ q2 = [req[r] EXCEPT !.pc = "queuedSpecific", !.account = bound]
                    /\ req' = [req EXCEPT ![r] = q2]
      BY <2>2 DEF Route
    <3>2. req[r].kind \in Movable /\ bound \in Accounts /\ bound \notin req[r].attempted
      BY <2>2, ServingAssumption DEF Roaming, Affine, Candidates
    <3>3. q2 \in Request
      <4>1. req[r] \in Request /\ bound \in Accounts /\ q2 = [req[r] EXCEPT !.pc = "queuedSpecific", !.account = bound]
        BY <1>1, <3>1, <3>2
      <4> QED BY <4>1 DEF Request
    <3>4. q2.pc = "queuedSpecific" /\ q2.account = bound /\ q2.lease = None /\ Keeps(req[r], q2)
      BY <1>1, <3>1 DEF Request, Keeps
    <3> QED BY <1>1, <3>1, <3>2, <3>3, <3>4, ChosenStep
  <2>3. CASE Roaming(r) /\ ~Affine(r)
    <3>1. PICK q2 : /\ q2 = [req[r] EXCEPT !.pc = "matching"]
                    /\ req' = [req EXCEPT ![r] = q2]
      BY <2>3 DEF Route
    <3>2. req[r].kind \in Movable
      BY <2>3 DEF Roaming
    <3>3. q2 \in Request
      BY <1>1, <3>1 DEF Request
    <3>4. q2.pc = "matching" /\ q2.lease = None /\ Keeps(req[r], q2)
      BY <1>1, <3>1 DEF Request, Keeps
    <3> QED BY <1>1, <3>1, <3>2, <3>3, <3>4, MatchingStep
  <2> QED BY <2>1, <2>2, <2>3
<1> QED BY <1>1, <1>2, <1>3 DEF Progress

\* A slot, a place in the queue, or no account.
LEMMA MatchStep ==
  ASSUME IInv, NEW r \in Requests, Match(r)
  PROVE  Progress(r)
<1>1. /\ req[r].pc = "matching" /\ UNCHANGED <<pool, bound, changes>>
      /\ RequestOK(req[r]) /\ req[r] \in Request /\ req[r].lease = None
  BY DEF Match, IInv, RequestOK, LeaseOfRequest
<1>2. PoolTypeOK' /\ bound' \in Accounts \union {None}
  BY <1>1 DEF IInv, TypeOK, PoolTypeOK, pool
<1>3. req[r].kind \in Movable
  BY <1>1 DEF RequestOK, NamedRequest
<1>4. \A S : Choice(r, S) \subseteq S
  BY DEF Choice
<1>5. \A a \in Candidates(r) : a \in Accounts /\ a \notin req[r].attempted
  BY ServingAssumption DEF Candidates
<1>6. \E q2 : Becomes(r, q2)
  <2>1. CASE TurnedAway(r)
    BY <1>1, <2>1, TurnedAwayStep
  <2>2. ASSUME NEW a \in Candidates(r),
               req' = [req EXCEPT ![r] = [req[r] EXCEPT !.pc = "ready", !.account = a, !.lease = a]]
        PROVE  \E q2 : Becomes(r, q2)
    <3>1. PICK q2 : /\ q2 = [req[r] EXCEPT !.pc = "ready", !.account = a, !.lease = a]
                    /\ req' = [req EXCEPT ![r] = q2]
      BY <2>2
    <3>2. q2 \in Request
      <4>1. req[r] \in Request /\ a \in Accounts /\ q2 = [req[r] EXCEPT !.pc = "ready", !.account = a, !.lease = a]
        BY <1>1, <1>5, <3>1
      <4> QED BY <4>1 DEF Request
    <3>3. q2.pc = "ready" /\ q2.account = a /\ q2.lease = a /\ Keeps(req[r], q2)
      BY <1>1, <3>1 DEF Request, Keeps
    <3> QED BY <1>1, <1>3, <1>5, <2>2, <3>1, <3>2, <3>3, ChosenStep
  <2>3. ASSUME NEW a \in Candidates(r),
               req' = [req EXCEPT ![r] = [req[r] EXCEPT !.pc = "queued", !.account = a]]
        PROVE  \E q2 : Becomes(r, q2)
    <3>1. PICK q2 : /\ q2 = [req[r] EXCEPT !.pc = "queued", !.account = a]
                    /\ req' = [req EXCEPT ![r] = q2]
      BY <2>3
    <3>2. q2 \in Request
      <4>1. req[r] \in Request /\ a \in Accounts /\ q2 = [req[r] EXCEPT !.pc = "queued", !.account = a]
        BY <1>1, <1>5, <3>1
      <4> QED BY <4>1 DEF Request
    <3>3. q2.pc = "queued" /\ q2.account = a /\ q2.lease = None /\ Keeps(req[r], q2)
      BY <1>1, <3>1 DEF Request, Keeps
    <3> QED BY <1>1, <1>3, <1>5, <2>3, <3>1, <3>2, <3>3, ChosenStep
  <2> QED BY <1>4, <2>1, <2>2, <2>3 DEF Match
<1> QED BY <1>1, <1>2, <1>6 DEF Progress

\* A slot came free: the request takes it, chooses again or is turned away.
LEMMA GrantedStep ==
  ASSUME IInv, NEW r \in Requests, Granted(r)
  PROVE  Progress(r)
<1>1. /\ req[r].pc \in {"queued", "queuedSpecific", "queuedPinned"}
      /\ UNCHANGED <<pool, bound, changes>>
      /\ RequestOK(req[r]) /\ req[r] \in Request /\ req[r].lease = None
  BY DEF Granted, Queued, IInv, RequestOK, LeaseOfRequest
<1>2. PoolTypeOK' /\ bound' \in Accounts \union {None}
  BY <1>1 DEF IInv, TypeOK, PoolTypeOK, pool
<1>3. /\ req[r].account \in Accounts
      /\ req[r].kind \in Movable => req[r].account \notin req[r].attempted
      /\ req[r].kind \notin Movable => req[r].account = req[r].preferred
      /\ req[r].pc = "queued" => req[r].kind \in Movable
  BY <1>1 DEF RequestOK, AccountOfRequest, NamedRequest, MovableRequest
<1>4. CASE TurnedAway(r)
  <2>1. \E q2 : Becomes(r, q2)
    BY <1>1, <1>4, TurnedAwayStep
  <2> QED BY <1>1, <1>2, <2>1 DEF Progress
<1>5. CASE req' = [req EXCEPT ![r] = [req[r] EXCEPT !.pc = "ready", !.lease = req[r].account]]
  <2>1. PICK q2 : /\ q2 = [req[r] EXCEPT !.pc = "ready", !.lease = req[r].account]
                  /\ req' = [req EXCEPT ![r] = q2]
    BY <1>5
  <2>2. q2 \in Request
    <3>1. req[r] \in Request /\ req[r].account \in Accounts /\ q2 = [req[r] EXCEPT !.pc = "ready", !.lease = req[r].account]
      BY <1>1, <1>3, <2>1
    <3> QED BY <3>1 DEF Request
  <2>3. q2.pc = "ready" /\ q2.account = req[r].account /\ q2.lease = req[r].account /\ Keeps(req[r], q2)
    BY <1>1, <2>1 DEF Request, Keeps
  <2>4. Becomes(r, q2)
    BY <1>1, <1>3, <2>1, <2>2, <2>3, ChosenStep
  <2> QED BY <1>1, <1>2, <2>4 DEF Progress
<1>6. CASE /\ req[r].pc = "queued"
           /\ req' = [req EXCEPT ![r] = [req[r] EXCEPT !.pc = "matching", !.account = None]]
  <2>1. PICK q2 : /\ q2 = [req[r] EXCEPT !.pc = "matching", !.account = None]
                  /\ req' = [req EXCEPT ![r] = q2]
    BY <1>6
  <2>2. q2 \in Request
    <3>1. req[r] \in Request /\ q2 = [req[r] EXCEPT !.pc = "matching", !.account = None]
      BY <1>1, <2>1
    <3> QED BY <3>1 DEF Request
  <2>3. q2.pc = "matching" /\ q2.lease = None /\ Keeps(req[r], q2)
    BY <1>1, <2>1 DEF Request, Keeps
  <2>4. Becomes(r, q2)
    BY <1>1, <1>3, <1>6, <2>1, <2>2, <2>3, MatchingStep
  <2> QED BY <1>1, <1>2, <2>4 DEF Progress
<1> QED BY <1>4, <1>5, <1>6 DEF Granted

\* A request that waited for a slot is canceled.
LEMMA QueueCanceledStep ==
  ASSUME IInv, NEW r \in Requests, QueueCanceled(r)
  PROVE  Progress(r)
<1>1. /\ req[r].pc \in {"queued", "queuedSpecific", "queuedPinned"} /\ TurnedAway(r)
      /\ UNCHANGED <<pool, bound, changes>> /\ RequestOK(req[r])
  BY DEF QueueCanceled, Queued, IInv
<1>2. PoolTypeOK' /\ bound' \in Accounts \union {None}
  BY <1>1 DEF IInv, TypeOK, PoolTypeOK, pool
<1>3. \E q2 : Becomes(r, q2)
  BY <1>1, TurnedAwayStep
<1> QED BY <1>1, <1>2, <1>3 DEF Progress
-----------------------------------------------------------------------------
(* Using the account. *)

\* The request is sent with its account.
LEMMA SendStep ==
  ASSUME NEW r \in Requests, RequestOK(req[r]), req[r].pc \in {"ready", "refreshing"}, Send(r)
  PROVE  \E q2 : Becomes(r, q2)
<1>1. CASE TurnedAway(r)
  BY <1>1, TurnedAwayStep
<1>2. CASE req' = [req EXCEPT ![r] = [@ EXCEPT !.pc = "sent", !.sentTo = req[r].sentTo \union {req[r].account}]]
  <2>1. req[r] \in Request /\ req[r].account \in Accounts /\ req[r].sentTo \in SUBSET Accounts
        /\ req[r].lease = req[r].account
    BY DEF RequestOK, LeaseOfRequest, AccountOfRequest, Request
  <2>2. PICK q2 : /\ q2 = [req[r] EXCEPT !.pc = "sent", !.sentTo = req[r].sentTo \union {req[r].account}]
                  /\ req' = [req EXCEPT ![r] = q2]
    BY <1>2
  <2>3. q2 \in Request
    <3>1. req[r].sentTo \union {req[r].account} \in SUBSET Accounts
      BY <2>1
    <3> QED BY <2>1, <2>2, <3>1 DEF Request
  <2>4. /\ q2.pc = "sent" /\ q2.account = req[r].account /\ q2.lease = req[r].lease
        /\ q2.sentTo = req[r].sentTo \union {req[r].account}
        /\ q2.kind = req[r].kind /\ q2.preferred = req[r].preferred /\ q2.attempted = req[r].attempted
        /\ q2.lastErr = req[r].lastErr /\ q2.lastAccount = req[r].lastAccount /\ q2.result = req[r].result
        /\ q2.timer = req[r].timer /\ q2.left = req[r].left /\ q2.started = req[r].started
    BY <2>1, <2>2 DEF Request
  <2>5. RequestOK(q2)
    BY <2>1, <2>3, <2>4 DEF RequestOK, LeaseOfRequest, AccountOfRequest, NamedRequest, MovableRequest, TimerOfRequest
  <2>6. StepOK(req[r], q2)
    BY <2>4 DEF StepOK, RequestOK, NamedRequest, MovableRequest
  <2> QED BY <2>2, <2>4, <2>5, <2>6 DEF Becomes
<1> QED BY <1>1, <1>2 DEF Send

\* The request goes on with its account: only its progress changes.
LEMMA GoesOnStep ==
  ASSUME NEW r \in Requests, RequestOK(req[r]), NEW from, NEW to, req[r].pc = from,
         <<from, to>> \in {<<"ready", "refreshing">>, <<"sent", "opened">>, <<"sent", "delivering">>,
                            <<"opened", "delivering">>},
         req' = [req EXCEPT ![r].pc = to]
  PROVE  \E q2 : Becomes(r, q2)
<1>1. req[r] \in Request
  BY DEF RequestOK
<1>2. PICK q2 : q2 = [req[r] EXCEPT !.pc = to] /\ req' = [req EXCEPT ![r] = q2]
  OBVIOUS
<1>3. to \in PCs
  OBVIOUS
<1>4. q2 \in Request
  BY <1>1, <1>2, <1>3 DEF Request
<1>5. q2.pc = to /\ q2.account = req[r].account /\ q2.lease = req[r].lease /\ Keeps(req[r], q2)
  BY <1>1, <1>2 DEF Request, Keeps
<1>6. RequestOK(q2)
  BY <1>4, <1>5 DEF Keeps, RequestOK, LeaseOfRequest, AccountOfRequest, NamedRequest, MovableRequest, TimerOfRequest
<1> QED BY <1>2, <1>5, <1>6 DEF Becomes, StepOK, Keeps

\* The token of the account is looked at.
LEMMA EnsureReadyStep ==
  ASSUME IInv, NEW r \in Requests, EnsureReady(r)
  PROVE  Progress(r)
<1>1. req[r].pc = "ready" /\ UNCHANGED <<pool, bound, changes>> /\ RequestOK(req[r])
  BY DEF EnsureReady, IInv
<1>2. PoolTypeOK' /\ bound' \in Accounts \union {None}
  BY <1>1 DEF IInv, TypeOK, PoolTypeOK, pool
<1>3. CASE TurnedAway(r)
  <2>1. \E q2 : Becomes(r, q2)
    BY <1>1, <1>3, TurnedAwayStep
  <2> QED BY <1>1, <1>2, <2>1 DEF Progress
<1>4. CASE Send(r)
  <2>1. \E q2 : Becomes(r, q2)
    BY <1>1, <1>4, SendStep
  <2> QED BY <1>1, <1>2, <2>1 DEF Progress
<1>5. CASE req' = [req EXCEPT ![r].pc = "refreshing"]
  <2>1. \E q2 : Becomes(r, q2)
    BY <1>1, <1>5, GoesOnStep
  <2> QED BY <1>1, <1>2, <2>1 DEF Progress
<1> QED BY <1>3, <1>4, <1>5 DEF EnsureReady

\* The token was refreshed, or it was not.
LEMMA RefreshedStep ==
  ASSUME IInv, NEW r \in Requests, Refreshed(r)
  PROVE  Progress(r)
<1>1. req[r].pc = "refreshing" /\ UNCHANGED <<bound, changes>> /\ RequestOK(req[r]) /\ req[r].account \in Accounts
  BY DEF Refreshed, IInv, RequestOK, AccountOfRequest
<1>2. bound' \in Accounts \union {None} /\ PoolTypeOK /\ Fallback \in 0..Horizon
  BY <1>1, HorizonAssumption DEF IInv, TypeOK
<1>3. PoolTypeOK'
  BY <1>1, <1>2, UpdateAuthType, MarkErrorType, SetCooldownType DEF Refreshed
<1>4. \E q2 : Becomes(r, q2)
  <2>1. CASE Send(r)
    BY <1>1, <2>1, SendStep
  <2>2. CASE TurnedAway(r)
    BY <1>1, <2>2, TurnedAwayStep
  <2> QED BY <2>1, <2>2 DEF Refreshed
<1> QED BY <1>1, <1>2, <1>3, <1>4 DEF Progress

\* The upstream accepts the request.
LEMMA OpenStep ==
  ASSUME IInv, NEW r \in Requests, Open(r)
  PROVE  Progress(r)
<1>1. req[r].pc = "sent" /\ UNCHANGED <<pool, bound, changes>> /\ RequestOK(req[r])
  BY DEF Open, IInv
<1>2. PoolTypeOK' /\ bound' \in Accounts \union {None}
  BY <1>1 DEF IInv, TypeOK, PoolTypeOK, pool
<1>3. PICK to \in {"opened", "delivering"} : req' = [req EXCEPT ![r].pc = to]
  BY DEF Open
<1>4. \E q2 : Becomes(r, q2)
  BY <1>1, <1>3, GoesOnStep
<1> QED BY <1>1, <1>2, <1>4 DEF Progress

\* The first event to deliver has come.
LEMMA DeliverStep ==
  ASSUME IInv, NEW r \in Requests, Deliver(r)
  PROVE  Progress(r)
<1>1. /\ req[r].pc = "opened" /\ UNCHANGED <<pool, bound, changes>> /\ RequestOK(req[r])
      /\ req' = [req EXCEPT ![r].pc = "delivering"]
  BY DEF Deliver, IInv
<1>2. PoolTypeOK' /\ bound' \in Accounts \union {None}
  BY <1>1 DEF IInv, TypeOK, PoolTypeOK, pool
<1>3. \E q2 : Becomes(r, q2)
  BY <1>1, GoesOnStep
<1> QED BY <1>1, <1>2, <1>3 DEF Progress

\* The next account is tried.
LEMMA TryAnotherStep ==
  ASSUME NEW r \in Requests, RequestOK(req[r]), NEW f \in Failures, req[r].pc \in {"sent", "opened"},
         TryAnother(r, f)
  PROVE  \E q2 : Becomes(r, q2)
<1>1. req[r] \in Request /\ req[r].account \in Accounts /\ req[r].attempted \in SUBSET Accounts
  BY DEF RequestOK, AccountOfRequest, Request
<1>2. PICK q2 : /\ q2 = [req[r] EXCEPT !.pc = "select", !.account = None, !.lease = None,
                           !.attempted = req[r].attempted \union {req[r].account},
                           !.lastErr = f, !.lastAccount = req[r].account]
                /\ req' = [req EXCEPT ![r] = q2]
  BY DEF TryAnother
<1>3. q2 \in Request
  <2>1. req[r].attempted \union {req[r].account} \in SUBSET Accounts
    BY <1>1
  <2> QED BY <1>1, <1>2, <2>1 DEF Request
<1>4. /\ q2.pc = "select" /\ q2.account = None /\ q2.lease = None
      /\ q2.attempted = req[r].attempted \union {req[r].account} /\ q2.lastAccount = req[r].account
      /\ q2.sentTo = req[r].sentTo /\ q2.kind = req[r].kind /\ q2.preferred = req[r].preferred
      /\ q2.timer = req[r].timer /\ q2.left = req[r].left /\ q2.started = req[r].started
      /\ q2.result = req[r].result
  BY <1>1, <1>2 DEF Request
<1>5. RequestOK(q2)
  BY <1>1, <1>3, <1>4 DEF RequestOK, LeaseOfRequest, AccountOfRequest, NamedRequest, MovableRequest, TimerOfRequest
<1> QED BY <1>2, <1>4, <1>5 DEF Becomes, StepOK

\* The upstream refuses.
LEMMA FailStep ==
  ASSUME IInv, NEW r \in Requests, NEW f \in Failures, Fail(r, f)
  PROVE  Progress(r)
<1>1. /\ req[r].pc \in {"sent", "opened"} /\ UNCHANGED changes
      /\ RequestOK(req[r]) /\ req[r].account \in Accounts
  BY DEF Fail, IInv, RequestOK, AccountOfRequest
<1>2. PoolTypeOK /\ bound \in Accounts \union {None}
  BY DEF IInv, TypeOK
<1>3. CASE TryAnother(r, f)
  <2>1. PoolTypeOK' /\ bound' \in Accounts \union {None}
    BY <1>1, <1>2, <1>3, ClassifyType DEF TryAnother, Unbound
  <2>2. \E q2 : Becomes(r, q2)
    BY <1>1, <1>3, TryAnotherStep
  <2> QED BY <1>1, <2>1, <2>2 DEF Progress
<1>4. CASE Classify(req[r].account, f) /\ Finish(r, "upstream") /\ UNCHANGED bound
  <2>1. PoolTypeOK' /\ bound' \in Accounts \union {None}
    BY <1>1, <1>2, <1>4, ClassifyType
  <2>2. \E q2 : Becomes(r, q2)
    BY <1>1, <1>4, FinishStep
  <2> QED BY <1>1, <2>1, <2>2 DEF Progress
<1>5. CASE StartOver(r) /\ UNCHANGED <<pool, bound>>
  <2>1. PoolTypeOK' /\ bound' \in Accounts \union {None}
    BY <1>2, <1>5 DEF PoolTypeOK, pool
  <2>2. \E q2 : Becomes(r, q2)
    BY <1>1, <1>5, StartOverStep
  <2> QED BY <1>1, <2>1, <2>2 DEF Progress
<1> QED BY <1>3, <1>4, <1>5 DEF Fail

\* The request is given up, or tried once more without its reasoning.
LEMMA AbandonStep ==
  ASSUME IInv, NEW r \in Requests, Abandon(r)
  PROVE  Progress(r)
<1>1. req[r].pc \in {"sent", "opened"} /\ UNCHANGED <<pool, bound, changes>> /\ RequestOK(req[r])
  BY DEF Abandon, IInv
<1>2. PoolTypeOK' /\ bound' \in Accounts \union {None}
  BY <1>1 DEF IInv, TypeOK, PoolTypeOK, pool
<1>3. \E q2 : Becomes(r, q2)
  BY <1>1, StartOverStep, FinishStep, StripAndRetryStep DEF Abandon
<1> QED BY <1>1, <1>2, <1>3 DEF Progress

\* The response has ended.
LEMMA CompleteStep ==
  ASSUME IInv, NEW r \in Requests, Complete(r)
  PROVE  Progress(r)
<1>1. /\ req[r].pc = "delivering" /\ UNCHANGED <<pool, changes>> /\ RequestOK(req[r])
      /\ req[r].account \in Accounts
      /\ bound' = IF StickyThread THEN req[r].account ELSE bound
  BY DEF Complete, IInv, RequestOK, AccountOfRequest
<1>2. PoolTypeOK' /\ bound' \in Accounts \union {None}
  BY <1>1 DEF IInv, TypeOK, PoolTypeOK, pool
<1>3. PICK q2 : q2 = Done(req[r], "ok") /\ req' = [req EXCEPT ![r] = q2]
  BY DEF Complete, Done
<1>4. RequestOK(q2) /\ q2.pc = "done" /\ q2.lease = None /\ q2.result = "ok"
  BY <1>1, <1>3, DoneOK
<1>5. Becomes(r, q2)
  BY <1>3, <1>4 DEF Becomes, StepOK
<1> QED BY <1>1, <1>2, <1>5 DEF Progress

\* The response breaks off.
LEMMA BreakOffStep ==
  ASSUME IInv, NEW r \in Requests, BreakOff(r)
  PROVE  Progress(r)
<1>1. /\ req[r].pc = "delivering" /\ UNCHANGED changes /\ RequestOK(req[r]) /\ req[r].account \in Accounts
      /\ Finish(r, "upstream")
  BY DEF BreakOff, IInv, RequestOK, AccountOfRequest
<1>2. PoolTypeOK /\ bound \in Accounts \union {None}
  BY DEF IInv, TypeOK
<1>3. PoolTypeOK' /\ bound' \in Accounts \union {None}
  <2>1. CASE UNCHANGED <<pool, bound>>
    BY <1>2, <2>1 DEF PoolTypeOK, pool
  <2>2. ASSUME NEW f \in Failures, Classify(req[r].account, f), bound' \in {bound, Unbound(r, f)}
        PROVE  PoolTypeOK' /\ bound' \in Accounts \union {None}
    BY <1>1, <1>2, <2>2, ClassifyType DEF Unbound
  <2> QED BY <2>1, <2>2 DEF BreakOff
<1>4. \E q2 : Becomes(r, q2)
  BY <1>1, FinishStep
<1> QED BY <1>1, <1>3, <1>4 DEF Progress
-----------------------------------------------------------------------------
(* Waiting for capacity. *)

\* An account has recovered for a request that waits.
LEMMA RecoverStep ==
  ASSUME IInv, NEW r \in Requests, Recover(r)
  PROVE  Progress(r)
<1>1. req[r].pc = "recover" /\ UNCHANGED <<bound, changes>> /\ RequestOK(req[r]) /\ req[r] \in Request
  BY DEF Recover, IInv, RequestOK
<1>2. PoolTypeOK /\ bound' \in Accounts \union {None}
  BY <1>1 DEF IInv, TypeOK
<1>3. PICK d : d = EarliestAvailability(Serving)
  OBVIOUS
<1>4. d \in 0..Horizon /\ Horizon \in Nat
  BY <1>2, <1>3, ServingAssumption, HorizonAssumption, EarliestAvailabilityExact
<1>5. /\ req[r].left \in 0..Budget /\ Budget \in Nat \ {0}
      /\ ~req[r].started => req[r].left = Budget
  BY <1>1, NumbersAssumption DEF RequestOK, TimerOfRequest, Request
<1>6. PoolTypeOK'
  <2>1. CASE UNCHANGED pool
    BY <1>2, <2>1 DEF PoolTypeOK, pool
  <2>2. CASE req[r].lastErr # "none" /\ Classify(req[r].lastAccount, req[r].lastErr)
    BY <1>1, <1>2, <2>2, ClassifyType DEF RequestOK, AccountOfRequest
  <2> QED BY <2>1, <2>2 DEF Recover
<1>7. \E q2 : Becomes(r, q2)
  <2>1. CASE Finish(r, "unavailable") \/ Finish(r, "upstream")
    BY <1>1, <2>1, FinishStep
  <2>2. CASE d > 0 /\ WaitFor(r, d) = 0 /\ Finish(r, "retryAfter")
    <3>1. req[r].left = 0 /\ req[r].started
      BY <1>4, <1>5, <2>2 DEF WaitFor, Lower, RequestOK, Request
    <3> QED BY <1>1, <2>2, <3>1, FinishStep
  <2>3. CASE /\ d > 0 /\ WaitFor(r, d) > 0
             /\ req' = [req EXCEPT ![r] = [@ EXCEPT !.pc = "waiting", !.started = TRUE,
                                           !.recoveryAt = d, !.timer = WaitFor(r, d)]]
    <3>1. PICK w, q2 : /\ w = WaitFor(r, d)
                       /\ q2 = [req[r] EXCEPT !.pc = "waiting", !.started = TRUE, !.recoveryAt = d, !.timer = w]
                       /\ req' = [req EXCEPT ![r] = q2]
      BY <2>3
    <3>2. w \in 0..Budget /\ w = Lower(d, req[r].left)
      BY <1>4, <1>5, <3>1 DEF WaitFor, Lower
    <3>3. q2 \in Request
      BY <1>1, <1>4, <3>1, <3>2 DEF Request
    <3>4. /\ q2.pc = "waiting" /\ q2.started = TRUE /\ q2.recoveryAt = d /\ q2.timer = w
          /\ q2.left = req[r].left /\ q2.account = req[r].account /\ q2.lease = req[r].lease
          /\ q2.kind = req[r].kind /\ q2.preferred = req[r].preferred /\ q2.attempted = req[r].attempted
          /\ q2.sentTo = req[r].sentTo /\ q2.lastErr = req[r].lastErr /\ q2.lastAccount = req[r].lastAccount
          /\ q2.result = req[r].result
      BY <1>1, <3>1 DEF Request
    <3>5. RequestOK(q2)
      BY <1>1, <3>2, <3>3, <3>4
         DEF RequestOK, LeaseOfRequest, AccountOfRequest, NamedRequest, MovableRequest, TimerOfRequest
    <3> QED BY <1>1, <3>1, <3>4, <3>5 DEF Becomes, StepOK
  <2> QED BY <1>3, <2>1, <2>2, <2>3 DEF Recover
<1> QED BY <1>1, <1>2, <1>6, <1>7 DEF Progress

\* The wait is over.
LEMMA TimerFiredStep ==
  ASSUME IInv, NEW r \in Requests, TimerFired(r)
  PROVE  Progress(r)
<1>1. /\ req[r].pc = "waiting" /\ req[r].timer = 0 /\ UNCHANGED <<pool, bound, changes>>
      /\ RequestOK(req[r]) /\ req[r] \in Request
  BY DEF TimerFired, IInv, RequestOK
<1>2. PoolTypeOK' /\ bound' \in Accounts \union {None}
  BY <1>1 DEF IInv, TypeOK, PoolTypeOK, pool
<1>3. CASE (req[r].canceled \/ req[r].recoveryAt > 0) /\ Finish(r, "retryAfter")
  <2>1. /\ req[r].left \in 0..Budget /\ Budget \in Nat /\ req[r].recoveryAt \in 0..Horizon /\ Horizon \in Nat
        /\ req[r].timer = Lower(req[r].recoveryAt, req[r].left) /\ req[r].started
    BY <1>1, NumbersAssumption, HorizonAssumption DEF RequestOK, TimerOfRequest, Request
  <2>2. ~req[r].canceled => req[r].left = 0
    BY <1>1, <1>3, <2>1 DEF Lower
  <2>3. \E q2 : Becomes(r, q2)
    BY <1>1, <1>3, <2>1, <2>2, FinishStep
  <2> QED BY <1>1, <1>2, <2>3 DEF Progress
<1>4. CASE req' = [req EXCEPT ![r] = [@ EXCEPT !.pc = "select", !.attempted = {}, !.sentTo = {}]]
  <2>1. PICK q2 : /\ q2 = [req[r] EXCEPT !.pc = "select", !.attempted = {}, !.sentTo = {}]
                  /\ req' = [req EXCEPT ![r] = q2]
    BY <1>4
  <2>2. q2 \in Request
    <3> DEFINE q0 == [req[r] EXCEPT !.pc = "select"]
               q1 == [q0 EXCEPT !.attempted = {}]
    <3>1. q0 \in Request
      BY <1>1 DEF Request
    <3> HIDE DEF q0
    <3>2. q1 \in Request
      BY <3>1 DEF Request
    <3> HIDE DEF q1
    <3>3. [q1 EXCEPT !.sentTo = {}] \in Request
      BY <3>2 DEF Request
    <3>4. q2 = [q1 EXCEPT !.sentTo = {}]
      BY <2>1 DEF q0, q1
    <3> QED BY <3>3, <3>4
  <2>3. /\ q2.pc = "select" /\ q2.attempted = {} /\ q2.sentTo = {} /\ q2.timer = 0
        /\ q2.account = req[r].account /\ q2.lease = req[r].lease
        /\ q2.kind = req[r].kind /\ q2.preferred = req[r].preferred
        /\ q2.lastErr = req[r].lastErr /\ q2.lastAccount = req[r].lastAccount
        /\ q2.left = req[r].left /\ q2.started = req[r].started /\ q2.result = req[r].result
    BY <1>1, <2>1 DEF Request
  <2>4. RequestOK(q2)
    BY <1>1, <2>2, <2>3
       DEF RequestOK, LeaseOfRequest, AccountOfRequest, NamedRequest, MovableRequest, TimerOfRequest
  <2>5. Becomes(r, q2)
    BY <2>1, <2>3, <2>4 DEF Becomes, StepOK
  <2> QED BY <1>1, <1>2, <2>5 DEF Progress
<1> QED BY <1>3, <1>4 DEF TimerFired

\* A request that waits for capacity is canceled.
LEMMA WaitCanceledStep ==
  ASSUME IInv, NEW r \in Requests, WaitCanceled(r)
  PROVE  Progress(r)
<1>1. Finish(r, "canceled") /\ UNCHANGED <<pool, bound, changes>> /\ RequestOK(req[r])
  BY DEF WaitCanceled, IInv
<1>2. PoolTypeOK' /\ bound' \in Accounts \union {None}
  BY <1>1 DEF IInv, TypeOK, PoolTypeOK, pool
<1>3. \E q2 : Becomes(r, q2)
  BY <1>1, FinishStep
<1> QED BY <1>1, <1>2, <1>3 DEF Progress

\* The client cancels.
LEMMA CancelStep ==
  ASSUME IInv, NEW r \in Requests, Cancel(r)
  PROVE  Progress(r)
<1>1. req' = [req EXCEPT ![r].canceled = TRUE] /\ UNCHANGED <<pool, bound, changes>>
      /\ RequestOK(req[r]) /\ req[r] \in Request
  BY DEF Cancel, IInv, RequestOK
<1>2. PoolTypeOK' /\ bound' \in Accounts \union {None}
  BY <1>1 DEF IInv, TypeOK, PoolTypeOK, pool
<1>3. PICK q2 : q2 = [req[r] EXCEPT !.canceled = TRUE] /\ req' = [req EXCEPT ![r] = q2]
  BY <1>1
<1>4. q2 \in Request
  BY <1>1, <1>3 DEF Request
<1>5. /\ q2.pc = req[r].pc /\ q2.account = req[r].account /\ q2.lease = req[r].lease /\ Keeps(req[r], q2)
      /\ q2.recoveryAt = req[r].recoveryAt
  BY <1>1, <1>3 DEF Request, Keeps
<1>6. RequestOK(q2)
  BY <1>1, <1>4, <1>5
     DEF Keeps, RequestOK, LeaseOfRequest, AccountOfRequest, NamedRequest, MovableRequest, TimerOfRequest
<1>7. Becomes(r, q2)
  BY <1>3, <1>5, <1>6 DEF Becomes, StepOK, Keeps
<1> QED BY <1>1, <1>2, <1>7 DEF Progress

\* Whatever a request does, it does in order.
LEMMA StepProgress ==
  ASSUME IInv, NEW r \in Requests, Step(r) \/ Cancel(r)
  PROVE  Progress(r)
BY RouteStep, MatchStep, GrantedStep, QueueCanceledStep, EnsureReadyStep, RefreshedStep, OpenStep, DeliverStep,
   AbandonStep, CompleteStep, BreakOffStep, RecoverStep, TimerFiredStep, WaitCanceledStep, FailStep,
   CancelStep DEF Step
-----------------------------------------------------------------------------
(* The invariant. *)

\* No request has come at first.
LEMMA InitIInv == Init => IInv
<1> SUFFICES ASSUME Init PROVE IInv
  OBVIOUS
<1>1. ASSUME NEW r \in Requests
      PROVE  RequestOK(req[r]) /\ req[r].lease = None
  <2>1. PICK k \in KindsOf, a \in Accounts \union {None} :
          req[r] = Fresh(k, a) /\ (k # "new" => a \in Accounts)
    BY KindsAssumption DEF Init, Resolutions, KindsOf
  <2>2. Fresh(k, a) \in Request
    BY FreshType
  <2>3. /\ req[r].kind = k /\ req[r].preferred = a /\ req[r].pc = "select"
        /\ req[r].account = None /\ req[r].lease = None /\ req[r].lastErr = "none" /\ req[r].sentTo = {}
        /\ req[r].timer = 0 /\ req[r].started = FALSE /\ req[r].left = Budget
    BY <2>1 DEF Fresh
  <2> QED BY <2>1, <2>2, <2>3, BlankRequestOK
<1>2. req \in [Requests -> Request]
  <2>1. \A r \in Requests : req[r] \in Request
    BY <1>1 DEF RequestOK
  <2>2. req \in [Requests -> Resolutions]
    BY DEF Init
  <2> QED BY <2>1, <2>2
<1>3. TypeOK
  <2>1. 0 \in 0..MaxChanges
    BY NumbersAssumption
  <2>2. PoolTypeOK /\ bound \in Accounts \union {None} /\ changes = 0
    BY DEF Init, PoolInit
  <2> QED BY <1>2, <2>1, <2>2 DEF TypeOK
<1> QED BY <1>1, <1>3 DEF IInv

\* Time passes for a request: it keeps its place, and its timer runs.
LEMMA AgedOK ==
  ASSUME NEW q, RequestOK(q)
  PROVE  RequestOK(Aged(q)) /\ Aged(q).lease = q.lease /\ StepOK(q, Aged(q))
<1>1. q \in Request
  BY DEF RequestOK
<1>2. /\ q.left \in 0..Budget /\ q.timer \in 0..Budget /\ q.recoveryAt \in 0..Horizon
      /\ Budget \in Nat /\ Horizon \in Nat
  BY <1>1, NumbersAssumption, HorizonAssumption DEF Request
<1>3. PICK left : left = IF q.started THEN Less(q.left) ELSE q.left
  OBVIOUS
<1>4. PICK q2 : q2 = [q EXCEPT !.left = left, !.recoveryAt = Less(q.recoveryAt), !.timer = Less(q.timer)]
  OBVIOUS
<1>5. q2 = Aged(q)
  BY <1>3, <1>4 DEF Aged
<1>6. left \in 0..Budget /\ Less(q.recoveryAt) \in 0..Horizon /\ Less(q.timer) \in 0..Budget
  BY <1>2, <1>3, LessType
<1>7. q2 \in Request
  BY <1>1, <1>4, <1>6 DEF Request
<1>8. /\ q2.left = left /\ q2.recoveryAt = Less(q.recoveryAt) /\ q2.timer = Less(q.timer)
      /\ q2.pc = q.pc /\ q2.account = q.account /\ q2.lease = q.lease /\ q2.started = q.started
      /\ q2.kind = q.kind /\ q2.preferred = q.preferred /\ q2.attempted = q.attempted
      /\ q2.sentTo = q.sentTo /\ q2.lastErr = q.lastErr /\ q2.lastAccount = q.lastAccount
      /\ q2.result = q.result
  BY <1>1, <1>4 DEF Request
<1>9. TimerOfRequest(q2)
  <2>1. TimerOfRequest(q)
    BY DEF RequestOK
  <2>2. q.pc = "waiting" => q2.timer = Lower(q2.recoveryAt, q2.left)
    BY <1>2, <1>3, <1>8, <2>1 DEF TimerOfRequest, Lower, Less
  <2>3. q.pc # "waiting" => q2.timer = 0
    BY <1>8, <2>1 DEF TimerOfRequest, Less
  <2> QED BY <1>3, <1>8, <2>1, <2>2, <2>3 DEF TimerOfRequest
<1>10. RequestOK(q2)
  BY <1>7, <1>8, <1>9 DEF RequestOK, LeaseOfRequest, AccountOfRequest, NamedRequest, MovableRequest
<1> QED BY <1>5, <1>8, <1>10 DEF StepOK

\* Time that passes only shortens the waits.
LEMMA TickKeepsIInv ==
  ASSUME IInv, Tick
  PROVE  IInv' /\ \A r \in Requests : StepOK(req[r], req'[r])
<1>1. /\ req' = [r \in Requests |-> IF req[r].pc = "done" THEN req[r] ELSE Aged(req[r])]
      /\ PoolTick /\ UNCHANGED <<bound, changes>>
  BY DEF Tick
<1>2. PoolTypeOK'
  BY <1>1, PoolTickType DEF IInv, TypeOK
<1>3. ASSUME NEW r \in Requests
      PROVE  RequestOK(req'[r]) /\ req'[r].lease = req[r].lease /\ StepOK(req[r], req'[r])
  <2>1. RequestOK(req[r])
    BY DEF IInv
  <2>2. req'[r] \in {req[r], Aged(req[r])}
    BY <1>1
  <2> QED BY <2>1, <2>2, AgedOK DEF StepOK
<1>4. req' \in [Requests -> Request]
  <2>1. \A r \in Requests : req'[r] \in Request
    BY <1>3 DEF RequestOK
  <2> QED BY <1>1, <2>1
<1>5. TypeOK'
  BY <1>1, <1>2, <1>4 DEF IInv, TypeOK
<1> QED BY <1>3, <1>5 DEF IInv

\* A quota snapshot leaves the requests alone.
LEMMA SnapshotKeeps ==
  ASSUME IInv, NEW r \in Requests, Snapshot(r)
  PROVE  PoolTypeOK' /\ UNCHANGED <<req, bound, changes>>
<1>1. req[r].account \in Accounts
  BY DEF Snapshot, IInv, RequestOK, AccountOfRequest
<1> QED BY <1>1, ObservedType DEF Snapshot, IInv, TypeOK

\* No step breaks the invariant, and every request does what StepOK says.
LEMMA NextKeepsIInv == IInv /\ [Next]_vars => IInv' /\ \A r \in Requests : StepOK(req[r], req'[r])
<1> SUFFICES ASSUME IInv, [Next]_vars PROVE IInv' /\ \A r \in Requests : StepOK(req[r], req'[r])
  OBVIOUS
<1>1. ASSUME NEW r \in Requests, Step(r) \/ Cancel(r)
      PROVE  IInv' /\ \A p \in Requests : StepOK(req[p], req'[p])
  <2>1. Progress(r)
    BY <1>1, StepProgress
  <2>2. PICK q2 : Becomes(r, q2)
    BY <2>1 DEF Progress
  <2>3. q2 \in Request /\ RequestOK(q2) /\ StepOK(req[r], q2) /\ req' = [req EXCEPT ![r] = q2]
    BY <2>2 DEF Becomes, RequestOK
  <2>4. req \in [Requests -> Request] /\ changes \in 0..MaxChanges
    BY DEF IInv, TypeOK
  <2>5. TypeOK'
    BY <2>1, <2>3, <2>4 DEF Progress, TypeOK
  <2>6. \A p \in Requests : RequestOK(req'[p]) /\ StepOK(req[p], req'[p])
    BY <2>3, <2>4 DEF IInv, StepOK
  <2> QED BY <2>5, <2>6 DEF IInv
<1>2. CASE Tick
  BY <1>2, TickKeepsIInv
<1>3. CASE Change
  <2>1. /\ UNCHANGED req /\ changes < MaxChanges /\ changes' = changes + 1
        /\ \/ (\E a \in Accounts : PoolChange(a)) /\ UNCHANGED bound
           \/ bound' = None /\ UNCHANGED pool
    BY <1>3 DEF Change
  <2>2. PoolTypeOK' /\ bound' \in Accounts \union {None}
    <3>1. CASE UNCHANGED pool
      BY <2>1, <3>1 DEF IInv, TypeOK, PoolTypeOK, pool
    <3>2. CASE (\E a \in Accounts : PoolChange(a)) /\ UNCHANGED bound
      BY <3>2, PoolChangeType DEF IInv, TypeOK
    <3> QED BY <2>1, <3>1, <3>2 DEF IInv, TypeOK
  <2>3. changes' \in 0..MaxChanges
    BY <2>1, NumbersAssumption DEF IInv, TypeOK
  <2> QED BY <2>1, <2>2, <2>3 DEF IInv, TypeOK, StepOK
<1>4. CASE UNCHANGED vars
  <2>1. UNCHANGED <<status, cooldown, quota, req, bound, changes>>
    BY <1>4 DEF vars
  <2> QED BY <2>1 DEF IInv, TypeOK, PoolTypeOK, StepOK
<1>5. ASSUME NEW r \in Requests, Snapshot(r)
      PROVE  IInv' /\ \A p \in Requests : StepOK(req[p], req'[p])
  <2>1. PoolTypeOK' /\ UNCHANGED <<req, bound, changes>>
    BY <1>5, SnapshotKeeps
  <2> QED BY <2>1 DEF IInv, TypeOK, StepOK
<1> QED BY <1>1, <1>2, <1>3, <1>4, <1>5 DEF Next, AllDone

\* What a step leaves of an account's good name.
Blameless(a) == status'[a] = status[a] /\ cooldown'[a] <= cooldown[a]

\* What a canceled request does to the accounts: nothing, but for the account it
\* uses while that one's token is refreshed or its first events are read.
LEMMA CanceledStep ==
  ASSUME IInv, NEW r \in Requests, Step(r) \/ Cancel(r), req[r].canceled, NEW a \in Accounts,
         ~(req[r].pc \in {"refreshing", "opened"} /\ a = req[r].account)
  PROVE  Blameless(a)
<1>1. cooldown[a] \in Nat /\ a \in DOMAIN cooldown /\ a \in DOMAIN status
  BY HorizonAssumption DEF IInv, TypeOK, PoolTypeOK
<1>2. CASE UNCHANGED pool
  BY <1>1, <1>2 DEF pool, Blameless
<1>3. ASSUME NEW b \in Accounts \ {a},
             \/ UpdateAuth(b) \/ MarkError(b) \/ \E d \in 0..Horizon : SetCooldown(b, d)
      PROVE  Blameless(a)
  <2>1. status'[a] = status[a] /\ cooldown'[a] = cooldown[a]
    BY <1>1, <1>3 DEF UpdateAuth, MarkError, SetCooldown
  <2> QED BY <1>1, <2>1 DEF Blameless
<1>4. CASE Refreshed(r)
  <2>1. req[r].pc = "refreshing" /\ req[r].account \in Accounts \ {a} /\ Fallback \in 0..Horizon
    BY <1>4, HorizonAssumption DEF Refreshed, IInv, RequestOK, AccountOfRequest
  <2>2. SetCooldown(req[r].account, Fallback)
    BY <1>4 DEF Refreshed
  <2> QED BY <1>3, <2>1, <2>2
<1>5. ASSUME NEW f \in Failures, Fail(r, f)
      PROVE  Blameless(a)
  <2>1. /\ req[r].pc = "opened" /\ req[r].account \in Accounts \ {a} /\ Fallback \in 0..Horizon
        /\ 1..Horizon \subseteq 0..Horizon
    BY <1>5, HorizonAssumption DEF Fail, IInv, RequestOK, AccountOfRequest
  <2>2. Classify(req[r].account, f) \/ UNCHANGED pool
    BY <1>5 DEF Fail, TryAnother
  <2> QED BY <1>2, <1>3, <2>1, <2>2 DEF Classify
<1>6. Route(r) \/ Match(r) \/ Granted(r) \/ QueueCanceled(r) \/ EnsureReady(r) => UNCHANGED pool
  BY DEF Route, Match, Granted, QueueCanceled, EnsureReady, pool
<1>7. Open(r) \/ Deliver(r) \/ Abandon(r) \/ Complete(r) \/ BreakOff(r) => UNCHANGED pool
  BY DEF Open, Deliver, Abandon, Complete, BreakOff, pool
<1>8. TimerFired(r) \/ WaitCanceled(r) \/ Cancel(r) \/ Recover(r) => UNCHANGED pool
  BY DEF TimerFired, WaitCanceled, Cancel, Recover, pool
<1> QED BY <1>2, <1>4, <1>5, <1>6, <1>7, <1>8 DEF Step

\* A canceled request takes no step that blames another account.
LEMMA CanceledNext ==
  IInv /\ [Next]_vars =>
    \A r \in Requests :
      req[r].canceled /\ req[r].pc # "done" /\ req'[r] # req[r]
        => \A a \in Accounts :
             \/ status'[a] = status[a] /\ cooldown'[a] <= cooldown[a]
             \/ req[r].pc \in {"refreshing", "opened"} /\ a = req[r].account
<1> SUFFICES ASSUME IInv, [Next]_vars, NEW r \in Requests, req[r].canceled, req'[r] # req[r],
                    NEW a \in Accounts, ~(req[r].pc \in {"refreshing", "opened"} /\ a = req[r].account)
             PROVE  Blameless(a)
  BY DEF Blameless
<1>1. ASSUME NEW p \in Requests, Step(p) \/ Cancel(p)
      PROVE  p = r
  <2>1. PICK q2 : req' = [req EXCEPT ![p] = q2]
    BY <1>1, StepProgress DEF Progress, Becomes
  <2> QED BY <2>1 DEF IInv, TypeOK
<1>2. CASE Step(r) \/ Cancel(r)
  BY <1>2, CanceledStep
<1>3. CASE Tick
  <2>1. UNCHANGED status /\ cooldown'[a] = Less(cooldown[a]) /\ cooldown[a] \in Nat
    BY <1>3, HorizonAssumption DEF Tick, PoolTick, IInv, TypeOK, PoolTypeOK
  <2> QED BY <2>1 DEF Less, Blameless
<1>4. ~Change /\ ~UNCHANGED vars /\ ~\E p \in Requests : Snapshot(p)
  BY DEF Change, Snapshot, vars
<1> QED BY <1>1, <1>2, <1>3, <1>4 DEF Next, AllDone
-----------------------------------------------------------------------------

\* The inductive invariant holds in every reachable state.
THEOREM InvariantHolds == Spec => []IInv
<1>1. IInv /\ [Next]_vars => IInv'
  BY NextKeepsIInv
<1> QED BY InitIInv, <1>1, PTL DEF Spec

\* Every variable of the request path keeps to its values.
THEOREM TypeCorrect == Spec => []TypeOK
<1>1. IInv => TypeOK
  BY DEF IInv
<1> QED BY InvariantHolds, <1>1, PTL

\* A request holds a slot exactly while it may use the account: no way out of
\* openStream loses one, and it waits without one.
THEOREM LeaseHeldExactly == Spec => []LeaseExact
<1>1. IInv => LeaseExact
  BY DEF IInv, RequestOK, LeaseOfRequest, LeaseExact
<1> QED BY InvariantHolds, <1>1, PTL

\* All waits of a request fit into the one RATE_LIMIT_MAX_WAIT that began with
\* its first.
THEOREM WaitStaysWithinBudget == Spec => []WaitWithinBudget
<1>1. IInv => WaitWithinBudget
  <2> SUFFICES ASSUME IInv, NEW r \in Requests, req[r].timer > 0
               PROVE  req[r].started /\ req[r].timer <= req[r].left
    BY DEF WaitWithinBudget
  <2>1. /\ req[r].left \in 0..Budget /\ Budget \in Nat /\ req[r].recoveryAt \in 0..Horizon /\ Horizon \in Nat
        /\ TimerOfRequest(req[r])
    BY NumbersAssumption, HorizonAssumption DEF IInv, RequestOK, Request
  <2> QED BY <2>1 DEF TimerOfRequest, Lower
<1> QED BY InvariantHolds, <1>1, PTL

\* A 429 with Retry-After is given only when the whole budget has passed since
\* the first wait began.
THEOREM RetryAfterOnlyEarned == Spec => RetryAfterEarned
<1>1. IInv /\ [Next]_vars =>
        [\A r \in Requests :
           req[r].result = "none" /\ req'[r].result = "retryAfter"
             => req[r].started /\ req[r].left = 0]_vars
  BY NextKeepsIInv DEF StepOK
<1> QED BY InvariantHolds, <1>1, PTL DEF Spec, RetryAfterEarned

\* Between two waits openStreamWithFailover sends a request to each account at
\* most once, whichever way it acquired the account.
THEOREM EachAccountOnce == Spec => AttemptOnce
<1>1. IInv /\ [Next]_vars =>
        [\A r \in Requests :
           Roaming(r) /\ SentNow(r) => req[r].account \notin req[r].sentTo]_vars
  BY NextKeepsIInv DEF StepOK, Roaming, SentNow
<1> QED BY InvariantHolds, <1>1, PTL DEF Spec, AttemptOnce

\* X-Proxy-Account and a continuation without history are sent to the account
\* they name or to none.
THEOREM NamedAccountIsKept == Spec => NamedAccountKept
<1>1. IInv /\ [Next]_vars =>
        [\A r \in Requests :
           req[r].kind \in {"selected", "bare"} /\ SentNow(r)
             => req[r].account = req[r].preferred]_vars
  BY NextKeepsIInv DEF StepOK, SentNow
<1> QED BY InvariantHolds, <1>1, PTL DEF Spec, NamedAccountKept

\* A request whose client has gone expires no account and sets no cooldown, but
\* for the account it is using when its refresh is cut short or the stream it has
\* opened reports an error.
THEOREM CanceledBlame == Spec => CanceledBlamesOnlyItsOwn
<1>1. IInv /\ [Next]_vars =>
        [\A r \in Requests :
           req[r].canceled /\ req[r].pc # "done" /\ req'[r] # req[r]
             => \A a \in Accounts :
                  \/ status'[a] = status[a] /\ cooldown'[a] <= cooldown[a]
                  \/ req[r].pc \in {"refreshing", "opened"} /\ a = req[r].account]_vars
  BY CanceledNext
<1> QED BY InvariantHolds, <1>1, PTL DEF Spec, CanceledBlamesOnlyItsOwn
=============================================================================
