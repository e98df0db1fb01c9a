--------------------------- MODULE SocketSession ---------------------------
(***************************************************************************)
(* One public Responses WebSocket (internal/server/responses_websocket.go):*)
(* the client's turns run one after the other, each acquires an account,   *)
(* reuses or replaces the upstream connection, and retries until a first   *)
(* event has arrived; after that the turn is relayed.  Everything another  *)
(* connection or request does to the accounts is Change.  Waiting for a    *)
(* slot is Capacity.tla's subject and part of Acquired here; the strategy  *)
(* is one of those without thread affinity.                                *)
(***************************************************************************)
EXTENDS AccountPool

\* Operators that end in Bug are variants with a plausible mistake; they show
\* what a property catches and are used nowhere else.
CONSTANTS
  Serving,      \* the accounts whose plan supports the requested model
  Budget,       \* RATE_LIMIT_MAX_WAIT, in ticks
  Pinnings,     \* the kinds of turn explored: TRUE for a continuation
  MaxChanges,   \* bound: changes made to the pool from outside
  None          \* no account

ASSUME SocketServingAssumption == Serving \subseteq Accounts /\ None \notin Accounts
ASSUME SocketNumbersAssumption == Budget \in Nat \ {0} /\ MaxChanges \in Nat
ASSUME SocketSwitchesAssumption == Pinnings \subseteq BOOLEAN

VARIABLES
  stream,    \* session.stream: "none", "open", or "nil" for a non-nil interface
             \* that holds a nil *WSStream
  owner,     \* session.account
  last,      \* the account of session.lastResponseID
  dirty,     \* history: an attempt or a turn has failed since the last connect
  turn,      \* the local state of handleResponsesWebSocketTurn, see Turn
  changes    \* changes made to the pool so far

session == <<stream, owner, last, dirty>>

vars == <<status, cooldown, quota, stream, owner, last, dirty, turn, changes>>

\* "crashed": the goroutine has panicked.
PCs == {"idle", "acquire", "opening", "dialFailed", "first", "recover", "waiting",
        "relay", "closed", "crashed"}

Turn == [
  pc         : PCs,
  pinned     : BOOLEAN,                  \* ExplicitPrevious or ImplicitResume
  preferred  : Accounts \union {None},
  account    : Accounts \union {None},   \* account, kept from attempt to attempt
  lease      : Accounts \union {None},   \* turnLease
  attempts   : 0..1,                     \* attempts, modulo 2
  attempted  : SUBSET Accounts,
  started    : BOOLEAN,
  left       : 0..Budget,
  recoveryAt : 0..Horizon,
  timer      : 0..Budget,
  sentTo     : SUBSET Accounts]          \* history: where it was sent since it last waited

NoTurn == [pc |-> "idle", pinned |-> FALSE, preferred |-> None, account |-> None, lease |-> None, attempts |-> 0,
           attempted |-> {}, started |-> FALSE, left |-> Budget, recoveryAt |-> 0, timer |-> 0,
           sentTo |-> {}]

TypeOK == /\ PoolTypeOK
          /\ stream \in {"none", "open", "nil"}
          /\ {owner, last} \subseteq Accounts \union {None}
          /\ dirty \in BOOLEAN
          /\ turn \in Turn
          /\ changes \in 0..MaxChanges

Init == /\ PoolInit
        /\ stream = "none" /\ owner = None /\ last = None /\ dirty = FALSE
        /\ turn = NoTurn
        /\ changes = 0

-----------------------------------------------------------------------------

\* A message becomes a turn.  A continuation names the account that made the
\* previous response: the last one of this socket, or any with an explicit id.
Begin ==
  /\ turn.pc = "idle"
  /\ \E pinned \in Pinnings :
       \E a \in IF pinned THEN Accounts ELSE {None} :
         turn' = [NoTurn EXCEPT !.pc = "acquire", !.pinned = pinned, !.preferred = a]
  /\ UNCHANGED <<pool, session, changes>>

\* An append or a follow-up without history is pinned to the last response.
BeginAppend ==
  /\ turn.pc = "idle" /\ last # None /\ TRUE \in Pinnings
  /\ turn' = [NoTurn EXCEPT !.pc = "acquire", !.pinned = TRUE, !.preferred = last]
  /\ UNCHANGED <<pool, session, changes>>

Candidates == {a \in Serving \ turn.attempted : Eligible(a)}

LeasableAnywhereBug ==
  IF turn.pinned /\ Eligible(turn.preferred) THEN {turn.preferred} ELSE Candidates

\* What acquireLeaseForResolution may lease.
Leasable == IF turn.pinned
            THEN {turn.preferred} \intersect {a \in Serving : status[a] # "disabled"}
            ELSE Candidates

Acquired ==
  /\ turn.pc = "acquire"
  /\ \E a \in Leasable :
       turn' = [turn EXCEPT !.pc = "opening", !.account = a, !.lease = a, !.attempts = 1 - @]
  /\ UNCHANGED <<pool, session, changes>>

RetryableFailures == Failures \union {"noAccount"}

NextAttempt(t, f) ==
  IF t.account # None /\ f \in RetryableFailures /\ ~t.pinned THEN [t EXCEPT !.pc = "acquire"]
  ELSE IF t.account # None /\ f \in RetryableFailures \ {"payment", "rateLimited"} THEN NoTurn
  ELSE [t EXCEPT !.pc = "recover"]

AttemptFailedKeepsLeaseBug(f) ==
  /\ stream' = "none" /\ owner' = None /\ dirty' = TRUE /\ UNCHANGED last
  /\ turn' = NextAttempt([turn EXCEPT !.attempted = @ \union ({turn.account} \ {None})], f)

AttemptFailedForgetsBug(f) ==
  /\ stream' = "none" /\ owner' = None /\ dirty' = TRUE /\ UNCHANGED last
  /\ turn' = NextAttempt([turn EXCEPT !.lease = None], f)

\* An attempt has failed before its first event: the lease goes back, the
\* connection is closed, and the turn goes on as NextAttempt says: it tries
\* again, waits for capacity, or has been answered with an error.  Closing the
\* nil connection panics.  turn.account is the account of this attempt or, when
\* no lease was acquired, still the one of the attempt before.
AttemptFailed(f) ==
  /\ UNCHANGED last /\ dirty' = TRUE
  /\ \/ /\ stream = "nil"
        /\ turn' = [NoTurn EXCEPT !.pc = "crashed"]
        /\ UNCHANGED <<stream, owner>>
     \/ /\ stream # "nil"
        /\ stream' = "none" /\ owner' = None
        /\ turn' = NextAttempt(
             [turn EXCEPT !.lease = None,
                          !.attempts = IF f = "noAccount" THEN 1 - @ ELSE @,
                          !.attempted = IF f \in RetryableFailures
                                        THEN @ \union ({turn.account} \ {None}) ELSE @], f)

\* No lease: nothing to choose from, or the chosen account's token could not be
\* refreshed, for good or for now.
NotAcquired ==
  /\ turn.pc = "acquire"
  /\ \/ Leasable = {} /\ UNCHANGED pool
     \/ \E a \in Leasable : MarkError(a) \/ SetCooldown(a, Fallback)
  /\ AttemptFailed("noAccount")
  /\ UNCHANGED changes

Reusable == stream # "none" /\ owner = turn.account

Sent == [turn EXCEPT !.pc = "first", !.sentTo = @ \union {turn.account}]

ConnectedUnownedBug ==
  /\ turn.pc = "opening" /\ ~Reusable
  /\ stream' = "open" /\ dirty' = FALSE /\ UNCHANGED <<owner, last>>
  /\ turn' = Sent
  /\ UNCHANGED <<pool, changes>>

\* A new connection replaces the old one; a snapshot in its headers is recorded.
Connected ==
  /\ turn.pc = "opening" /\ ~Reusable
  /\ stream' = "open" /\ owner' = turn.account /\ dirty' = FALSE /\ UNCHANGED last
  /\ turn' = Sent
  /\ UNCHANGED pool \/ \E q \in 0..Horizon : ObserveQuota(turn.account, q)
  /\ UNCHANGED changes

\* ConnectWS fails and returns a nil *WSStream, which session.stream then holds.
DialFailed ==
  /\ turn.pc = "opening" /\ ~Reusable
  /\ stream' = "nil"
  /\ turn' = [turn EXCEPT !.pc = "dialFailed"]
  /\ UNCHANGED <<pool, owner, last, dirty, changes>>

DialHandled ==
  /\ turn.pc = "dialFailed"
  /\ \E f \in Failures : Classify(turn.account, f) /\ AttemptFailed(f)
  /\ UNCHANGED changes

\* SendJSON on the connection of the turn before.
Reused ==
  /\ turn.pc = "opening" /\ Reusable
  /\ turn' = Sent
  /\ UNCHANGED <<pool, session, changes>>

SendFailed ==
  /\ turn.pc = "opening" /\ Reusable
  /\ AttemptFailed("transient")
  /\ UNCHANGED <<pool, changes>>

\* The first event is no error: it is relayed.
FirstEvent ==
  /\ turn.pc = "first"
  /\ turn' = [turn EXCEPT !.pc = "relay"]
  /\ UNCHANGED session
  /\ UNCHANGED pool \/ \E q \in 0..Horizon : ObserveQuota(turn.account, q)
  /\ UNCHANGED changes

\* It is an error, or the connection broke.
FirstFailed ==
  /\ turn.pc = "first"
  /\ \/ \E f \in Failures : Classify(turn.account, f) /\ AttemptFailed(f)
     \/ UNCHANGED pool /\ AttemptFailed("rejected")
  /\ UNCHANGED changes

WaitForRestartsBug(d) == Lower(d, Budget)

WaitFor(d) == Lower(d, turn.left)

\* The accounts whose recovery the turn may wait for.
Awaited == IF turn.pinned THEN {turn.preferred} \intersect Serving ELSE Serving

\* waitForCapacityRecovery, or the answer when there is nothing to wait for.
Recover ==
  /\ turn.pc = "recover"
  /\ LET d == EarliestAvailability(Awaited)
     IN \/ /\ d = 0 \/ WaitFor(d) = 0
           /\ turn' = NoTurn
        \/ /\ d > 0 /\ WaitFor(d) > 0
           /\ turn' = [turn EXCEPT !.pc = "waiting", !.started = TRUE,
                                   !.recoveryAt = d, !.timer = WaitFor(d)]
  /\ UNCHANGED <<pool, session, changes>>

TimerFired ==
  /\ turn.pc = "waiting" /\ turn.timer = 0
  /\ \/ turn.recoveryAt > 0 /\ turn' = NoTurn
     \/ /\ turn.recoveryAt = 0
        /\ turn' = [turn EXCEPT !.pc = "acquire", !.attempted = {}, !.sentTo = {}]
  /\ UNCHANGED <<pool, session, changes>>

\* The turn ends with its terminal event; the deferred Release runs.
Completed ==
  /\ turn.pc = "relay"
  /\ last' = turn.account
  /\ turn' = NoTurn
  /\ UNCHANGED <<pool, stream, owner, dirty, changes>>

BrokenOffKeepsStreamBug ==
  /\ turn.pc = "relay"
  /\ \E f \in Failures : Classify(turn.account, f)
  /\ dirty' = TRUE /\ UNCHANGED <<stream, owner, last>>
  /\ turn' = NoTurn
  /\ UNCHANGED changes

\* The upstream fails after the first event: the connection is given up.
BrokenOff ==
  /\ turn.pc = "relay"
  /\ \E f \in Failures : Classify(turn.account, f)
  /\ stream' = "none" /\ owner' = None /\ dirty' = TRUE /\ UNCHANGED last
  /\ turn' = NoTurn
  /\ UNCHANGED changes

\* The client has gone: the next read, write or ping fails and the deferred
\* calls release the lease and close the connection.  The request's context
\* does not tell, for the connection is hijacked: a turn that waits for its
\* first event or for a recovery does not notice.
ClientGone ==
  /\ turn.pc \in {"idle", "acquire", "relay"}
  /\ turn' = [NoTurn EXCEPT !.pc = "closed"]
  /\ stream' = "none" /\ owner' = None /\ UNCHANGED <<last, dirty>>
  /\ UNCHANGED <<pool, changes>>

Tick == /\ \/ \E a \in Accounts : cooldown[a] > 0 \/ quota[a] > 0
           \/ turn.timer > 0
           \/ turn.started /\ turn.left > 0
        /\ PoolTick
        /\ turn' = [turn EXCEPT !.left = IF turn.started THEN Less(@) ELSE @,
                                !.recoveryAt = Less(@), !.timer = Less(@)]
        /\ UNCHANGED <<session, changes>>

Change == /\ changes < MaxChanges
          /\ changes' = changes + 1
          /\ \E a \in Accounts : PoolChange(a)
          /\ UNCHANGED <<session, turn>>

Over == turn.pc \in {"closed", "crashed"} /\ UNCHANGED vars

\* What the turn's goroutine does once it has a turn.
Work == \/ Acquired \/ NotAcquired \/ Connected \/ DialFailed \/ DialHandled \/ Reused \/ SendFailed
        \/ FirstEvent \/ FirstFailed \/ Recover \/ TimerFired \/ Completed \/ BrokenOff

Next == Begin \/ BeginAppend \/ Work \/ ClientGone \/ Tick \/ Change \/ Over

Spec == Init /\ [][Next]_vars

\* The goroutine is scheduled, the upstream answers in the end or the connection
\* breaks, and time passes.
LiveSpec == Spec /\ WF_vars(Work) /\ WF_vars(Tick)
-----------------------------------------------------------------------------

\* What a turn reads comes from the connection of the account it has leased:
\* neither a failover nor a failed turn leaves another account's connection
\* behind under the name of this one.
StreamMatchesLease ==
  turn.pc \in {"first", "relay"}
    => stream = "open" /\ owner = turn.account /\ turn.lease = turn.account

\* The socket holds a slot while a turn uses an account, never between turns and
\* never while a turn waits.
SlotOnlyInTurn ==
  turn.lease = IF turn.pc \in {"opening", "dialFailed", "first", "relay"}
               THEN turn.account ELSE None

\* One turn's waits together stay within RATE_LIMIT_MAX_WAIT.
TurnWaitWithinBudget == turn.timer > 0 => turn.started /\ turn.timer <= turn.left

SentNow == turn.pc # "first" /\ turn'.pc = "first"

\* "A failed turn cannot safely share its upstream connection with a later
\* client turn": a payload that follows a failure goes out on a new connection.
NoReuseAfterFailure == [][SentNow /\ dirty => ~dirty']_vars

\* Between two waits a turn that is no continuation is sent to each account at
\* most once.
TurnAttemptOnce ==
  [][SentNow /\ ~turn.pinned => turn.account \notin turn.sentTo]_vars

\* An append "must remain on the account which owns the persistent connection":
\* a continuation is sent to the account of its previous response or to none.
ContinuationStays == [][SentNow /\ turn.pinned => turn.account = turn.preferred]_vars

Ended == turn.pc \in {"idle", "closed", "crashed"}

\* A continuation ends, whatever the accounts answer.
ContinuationEnds == turn.pinned ~> Ended

-----------------------------------------------------------------------------
\* What the documentation says and the code does not do.

\* docs/TRANSLATION.md: "Each turn ends with `response.completed` or an `error`
\* JSON message."
TurnEnds == ~Ended ~> Ended
=============================================================================
