------------------------ MODULE SocketSessionProofs ------------------------
(***************************************************************************)
(* Proofs about a Responses WebSocket for every set of accounts, every     *)
(* budget and every horizon: a turn uses the connection and the slot of    *)
(* the account it has leased, a connection that has seen a failure is      *)
(* never used again, a turn is not sent to an account twice between two    *)
(* waits, and a continuation stays with its account.                       *)
(***************************************************************************)
EXTENDS SocketSession, AccountPoolProofs

InUse == {"opening", "dialFailed", "first", "relay"}

\* The turn has an account while it uses one, and a continuation never has any
\* but the account it is pinned to.
AccountOfTurn ==
  /\ turn.pc \in InUse => turn.account \in Accounts
  /\ turn.pinned => turn.account \in {None, turn.preferred}

\* The nil connection is the one of a refused dial, and the turn is still about
\* to handle it or has crashed on it.  An open connection has seen no failure.
StreamOfTurn ==
  /\ turn.pc \in {"first", "relay"} => stream = "open" /\ owner = turn.account
  /\ turn.pc = "dialFailed" => stream = "nil"
  /\ stream = "nil" => turn.pc \in {"dialFailed", "crashed"}
  /\ stream = "open" => ~dirty

\* Where a turn that may move has been sent since it last waited is on record in
\* attempted, except for the account that is being asked right now, until the
\* turn stops choosing accounts.
SentIsAttempted ==
  ~turn.pinned =>
    /\ turn.pc = "opening" => turn.account \notin turn.attempted
    /\ turn.pc \in {"first", "relay"} => turn.sentTo \subseteq turn.attempted \union {turn.account}
    /\ turn.pc \notin {"first", "relay", "recover", "waiting"} => turn.sentTo \subseteq turn.attempted

IInv == /\ TypeOK
        /\ SlotOnlyInTurn
        /\ AccountOfTurn
        /\ StreamOfTurn
        /\ SentIsAttempted
        /\ TurnWaitWithinBudget

USE DEF InUse, PCs

\* The connection has no stream at first.
LEMMA InitIInv == Init => IInv
<1> SUFFICES ASSUME Init PROVE IInv
  OBVIOUS
<1>1. NoTurn \in Turn
  BY HorizonAssumption, SocketNumbersAssumption DEF NoTurn, Turn
<1>2. 0 \in 0..MaxChanges
  BY SocketNumbersAssumption
<1>3. PoolTypeOK
  BY DEF Init, PoolInit
<1>4. TypeOK
  BY <1>1, <1>2, <1>3 DEF Init, TypeOK
<1> QED BY <1>4 DEF Init, IInv, NoTurn, SlotOnlyInTurn, AccountOfTurn, StreamOfTurn, SentIsAttempted, TurnWaitWithinBudget

\* No turn has its type.
LEMMA NoTurnType == NoTurn \in Turn
BY HorizonAssumption, SocketNumbersAssumption DEF NoTurn, Turn

\* A turn begins.
LEMMA BeginKeepsIInv == IInv /\ (Begin \/ BeginAppend) => IInv'
<1> SUFFICES ASSUME IInv, Begin \/ BeginAppend PROVE IInv'
  OBVIOUS
<1>1. PICK a \in Accounts \union {None}, pinned \in BOOLEAN :
        turn' = [NoTurn EXCEPT !.pc = "acquire", !.pinned = pinned, !.preferred = a]
  BY SocketSwitchesAssumption DEF Begin, BeginAppend, IInv, TypeOK
<1>2. turn' \in Turn
  BY <1>1, NoTurnType DEF Turn
<1>3. /\ turn'.pc = "acquire" /\ turn'.account = None /\ turn'.lease = None
      /\ turn'.sentTo = {} /\ turn'.timer = 0
  BY <1>1 DEF NoTurn
<1>4. turn.pc = "idle" /\ UNCHANGED <<pool, session, changes>>
  BY DEF Begin, BeginAppend
<1> QED BY <1>2, <1>3, <1>4 DEF IInv, TypeOK, PoolTypeOK, pool, session, SlotOnlyInTurn, AccountOfTurn, StreamOfTurn, SentIsAttempted, TurnWaitWithinBudget

\* An account was acquired for the turn.
LEMMA AcquiredKeepsIInv == IInv /\ Acquired => IInv'
<1> SUFFICES ASSUME IInv, Acquired PROVE IInv'
  OBVIOUS
<1> USE DEF IInv, TypeOK, Acquired
<1>1. PICK a \in Leasable :
        turn' = [turn EXCEPT !.pc = "opening", !.account = a, !.lease = a, !.attempts = 1 - @]
  OBVIOUS
<1>2. /\ a \in Accounts
      /\ turn.pinned => a = turn.preferred
      /\ ~turn.pinned => a \notin turn.attempted
  BY SocketServingAssumption DEF Leasable, Candidates
<1>3. turn' \in Turn
  <2>1. turn.attempts \in 0..1
    BY DEF Turn
  <2>2. 1 - turn.attempts \in 0..1
    BY <2>1
  <2> QED BY <1>1, <1>2, <2>2 DEF Turn
<1>4. /\ turn'.pc = "opening" /\ turn'.account = a /\ turn'.lease = a
      /\ turn'.sentTo = turn.sentTo /\ turn'.attempted = turn.attempted
      /\ turn'.pinned = turn.pinned /\ turn'.preferred = turn.preferred
      /\ turn'.timer = turn.timer /\ turn'.left = turn.left /\ turn'.started = turn.started
  BY <1>1 DEF Turn
<1> QED BY <1>2, <1>3, <1>4 DEF PoolTypeOK, pool, session, SlotOnlyInTurn, AccountOfTurn, StreamOfTurn, SentIsAttempted, TurnWaitWithinBudget

\* Giving up an attempt, whatever the reason.
LEMMA AttemptFailedKeepsIInv ==
  ASSUME IInv, NEW f, AttemptFailed(f), PoolTypeOK', UNCHANGED changes,
         f # "noAccount" => turn.pc \in InUse,
         f = "noAccount" => turn.pc = "acquire"
  PROVE  IInv' /\ turn'.pc # "first"
<1> USE DEF IInv, TypeOK
<1>1. CASE stream = "nil"
  <2>1. turn' = [NoTurn EXCEPT !.pc = "crashed"] /\ UNCHANGED <<stream, owner, last>> /\ dirty' = TRUE
    BY <1>1 DEF AttemptFailed
  <2>2. turn' \in Turn
    BY <2>1, NoTurnType DEF Turn
  <2>3. /\ turn'.pc = "crashed" /\ turn'.account = None /\ turn'.lease = None
        /\ turn'.sentTo = {} /\ turn'.timer = 0 /\ turn'.pinned = FALSE
    BY <2>1 DEF NoTurn
  <2> QED BY <1>1, <2>1, <2>2, <2>3 DEF SlotOnlyInTurn, AccountOfTurn, StreamOfTurn, SentIsAttempted, TurnWaitWithinBudget
<1>2. CASE stream # "nil"
  <2> DEFINE attempts == IF f = "noAccount" THEN 1 - turn.attempts ELSE turn.attempts
             attempted == IF f \in RetryableFailures
                          THEN turn.attempted \union ({turn.account} \ {None}) ELSE turn.attempted
  <2>1. PICK t : /\ t = [turn EXCEPT !.lease = None, !.attempts = attempts, !.attempted = attempted]
                 /\ turn' = NextAttempt(t, f)
    BY <1>2 DEF AttemptFailed
  <2>2. /\ stream' = "none" /\ owner' = None /\ dirty' = TRUE /\ UNCHANGED last
    BY <1>2 DEF AttemptFailed
  <2>3. attempts \in 0..1 /\ attempted \in SUBSET Accounts
    <3>1. turn.attempts \in 0..1 /\ turn.account \in Accounts \union {None} /\ turn.attempted \in SUBSET Accounts
      BY DEF Turn
    <3>2. 1 - turn.attempts \in 0..1
      BY <3>1
    <3> QED BY <3>1, <3>2
  <2>4. attempted = turn.attempted \/ attempted = turn.attempted \union ({turn.account} \ {None})
    OBVIOUS
  <2>5. f \in RetryableFailures => attempted = turn.attempted \union ({turn.account} \ {None})
    OBVIOUS
  <2> HIDE DEF attempts, attempted
  <2>6. t \in Turn
    BY <2>1, <2>3 DEF Turn
  <2>7. /\ t.pinned = turn.pinned /\ t.preferred = turn.preferred /\ t.account = turn.account
        /\ t.lease = None /\ t.attempted = attempted /\ t.sentTo = turn.sentTo
        /\ t.timer = turn.timer /\ t.left = turn.left /\ t.started = turn.started
    BY <2>1 DEF Turn
  <2>8. CASE turn' = NoTurn
    <3>1. NoTurn.pc = "idle" /\ NoTurn.account = None /\ NoTurn.lease = None
          /\ NoTurn.pinned = FALSE /\ NoTurn.sentTo = {} /\ NoTurn.timer = 0
      BY DEF NoTurn
    <3> QED BY <2>2, <2>8, <3>1, NoTurnType
            DEF SlotOnlyInTurn, AccountOfTurn, StreamOfTurn, SentIsAttempted, TurnWaitWithinBudget
  <2>9. ASSUME NEW pc \in {"acquire", "recover"}, turn' = [t EXCEPT !.pc = pc],
               pc = "acquire" => f \in RetryableFailures /\ ~turn.pinned
        PROVE  IInv' /\ turn'.pc # "first"
    <3>1. turn' \in Turn
      BY <2>6, <2>9 DEF Turn
    <3>2. /\ turn'.pc = pc
          /\ turn'.pinned = turn.pinned /\ turn'.preferred = turn.preferred /\ turn'.account = turn.account
          /\ turn'.lease = None /\ turn'.attempted = attempted /\ turn'.sentTo = turn.sentTo
          /\ turn'.timer = turn.timer /\ turn'.left = turn.left /\ turn'.started = turn.started
      BY <2>6, <2>7, <2>9 DEF Turn
    <3>3. SentIsAttempted'
      <4>1. CASE pc = "recover"
        BY <3>2, <4>1 DEF SentIsAttempted
      <4>2. CASE pc = "acquire"
        BY <2>5, <2>9, <3>2, <4>2, SocketServingAssumption DEF SentIsAttempted, AccountOfTurn
      <4> QED BY <4>1, <4>2
    <3> QED BY <2>2, <2>9, <3>1, <3>2, <3>3
            DEF SlotOnlyInTurn, AccountOfTurn, StreamOfTurn, TurnWaitWithinBudget
  <2> QED BY <2>1, <2>7, <2>8, <2>9 DEF NextAttempt
<1> QED BY <1>1, <1>2

\* No account: an error, or a wait.
LEMMA NotAcquiredKeepsIInv == IInv /\ NotAcquired => IInv' /\ turn'.pc # "first"
<1> SUFFICES ASSUME IInv, NotAcquired PROVE IInv' /\ turn'.pc # "first"
  OBVIOUS
<1>1. /\ turn.pc = "acquire" /\ AttemptFailed("noAccount") /\ UNCHANGED changes
      /\ UNCHANGED pool \/ \E a \in Leasable : MarkError(a) \/ SetCooldown(a, Fallback)
  BY DEF NotAcquired
<1>2. PoolTypeOK /\ Leasable \subseteq Accounts /\ Fallback \in 0..Horizon
  BY SocketServingAssumption, HorizonAssumption DEF IInv, TypeOK, Leasable, Candidates
<1>3. PoolTypeOK'
  <2>1. CASE UNCHANGED pool
    BY <1>2, <2>1 DEF PoolTypeOK, pool
  <2>2. CASE \E a \in Leasable : MarkError(a) \/ SetCooldown(a, Fallback)
    BY <1>2, <2>2, MarkErrorType, SetCooldownType
  <2> QED BY <1>1, <2>1, <2>2
<1> QED BY <1>1, <1>3, AttemptFailedKeepsIInv

\* A refused dial was handled.
LEMMA DialHandledKeepsIInv == IInv /\ DialHandled => IInv' /\ turn'.pc # "first"
<1> SUFFICES ASSUME IInv, DialHandled PROVE IInv' /\ turn'.pc # "first"
  OBVIOUS
<1>1. PICK f \in Failures : Classify(turn.account, f) /\ AttemptFailed(f)
  BY DEF DialHandled
<1>2. turn.pc = "dialFailed" /\ UNCHANGED changes /\ f # "noAccount"
  BY FailuresAssumption DEF DialHandled, AllFailures
<1>3. PoolTypeOK'
  BY <1>1, <1>2, ClassifyType DEF IInv, TypeOK, AccountOfTurn
<1> QED BY <1>1, <1>2, <1>3, AttemptFailedKeepsIInv

\* The turn could not be sent.
LEMMA SendFailedKeepsIInv == IInv /\ SendFailed => IInv' /\ turn'.pc # "first"
<1> SUFFICES ASSUME IInv, SendFailed PROVE IInv' /\ turn'.pc # "first"
  OBVIOUS
<1>1. turn.pc = "opening" /\ AttemptFailed("transient") /\ UNCHANGED <<pool, changes>>
  BY DEF SendFailed
<1>2. PoolTypeOK'
  BY <1>1 DEF IInv, TypeOK, PoolTypeOK, pool
<1> QED BY <1>1, <1>2, AttemptFailedKeepsIInv

\* The first event is an error, or the connection broke.
LEMMA FirstFailedKeepsIInv == IInv /\ FirstFailed => IInv' /\ turn'.pc # "first"
<1> SUFFICES ASSUME IInv, FirstFailed PROVE IInv' /\ turn'.pc # "first"
  OBVIOUS
<1>1. turn.pc = "first" /\ UNCHANGED changes
  BY DEF FirstFailed
<1>2. ASSUME NEW f \in Failures, Classify(turn.account, f), AttemptFailed(f)
      PROVE  IInv' /\ turn'.pc # "first"
  <2>1. PoolTypeOK'
    BY <1>1, <1>2, ClassifyType DEF IInv, TypeOK, AccountOfTurn
  <2>2. f # "noAccount"
    BY FailuresAssumption DEF AllFailures
  <2> QED BY <1>1, <1>2, <2>1, <2>2, AttemptFailedKeepsIInv
<1>3. CASE UNCHANGED pool /\ AttemptFailed("rejected")
  <2>1. PoolTypeOK'
    BY <1>3 DEF IInv, TypeOK, PoolTypeOK, pool
  <2> QED BY <1>1, <1>3, <2>1, AttemptFailedKeepsIInv
<1> QED BY <1>2, <1>3 DEF FirstFailed

-----------------------------------------------------------------------------
(* The payload goes out, the first event arrives, the turn ends. *)

\* What holds once the turn has been sent.
LEMMA SentFacts ==
  ASSUME TypeOK, turn.pc = "opening", turn.account \in Accounts, turn' = Sent
  PROVE  /\ turn' \in Turn /\ turn'.pc = "first"
         /\ turn'.sentTo = turn.sentTo \union {turn.account}
         /\ turn'.attempted = turn.attempted
         /\ turn'.pinned = turn.pinned /\ turn'.preferred = turn.preferred
         /\ turn'.account = turn.account /\ turn'.lease = turn.lease
         /\ turn'.timer = turn.timer /\ turn'.left = turn.left /\ turn'.started = turn.started
BY DEF Sent, TypeOK, Turn

\* A new stream was dialed.
LEMMA ConnectedKeepsIInv == IInv /\ Connected => IInv'
<1> SUFFICES ASSUME IInv, Connected PROVE IInv'
  OBVIOUS
<1>1. /\ turn.pc = "opening" /\ turn' = Sent /\ UNCHANGED <<last, changes>>
      /\ stream' = "open" /\ owner' = turn.account /\ dirty' = FALSE
      /\ UNCHANGED pool \/ \E q \in 0..Horizon : ObserveQuota(turn.account, q)
  BY DEF Connected
<1>2. turn.account \in Accounts /\ TypeOK
  BY <1>1 DEF IInv, AccountOfTurn
<1>3. PoolTypeOK'
  BY <1>1, <1>2, ObservedType DEF TypeOK
<1> QED BY <1>1, <1>2, <1>3, SentFacts
        DEF IInv, TypeOK, SlotOnlyInTurn, AccountOfTurn, StreamOfTurn, SentIsAttempted, TurnWaitWithinBudget

\* The stream of the last turn is used again, and it is sound.
LEMMA ReusedKeepsIInv == IInv /\ Reused => IInv' /\ ~dirty
<1> SUFFICES ASSUME IInv, Reused PROVE IInv' /\ ~dirty
  OBVIOUS
<1>1. /\ turn.pc = "opening" /\ Reusable /\ turn' = Sent
      /\ UNCHANGED <<pool, session, changes>>
  BY DEF Reused
<1>2. turn.account \in Accounts /\ TypeOK
  BY <1>1 DEF IInv, AccountOfTurn
<1>3. stream = "open" /\ owner = turn.account /\ ~dirty
  BY <1>1 DEF IInv, TypeOK, StreamOfTurn, Reusable
<1>4. PoolTypeOK'
  BY <1>1, <1>2 DEF TypeOK, PoolTypeOK, pool
<1> QED BY <1>1, <1>2, <1>3, <1>4, SentFacts
        DEF session, IInv, TypeOK, SlotOnlyInTurn, AccountOfTurn, StreamOfTurn, SentIsAttempted, TurnWaitWithinBudget

\* The upstream cannot be dialed.
LEMMA DialFailedKeepsIInv == IInv /\ DialFailed => IInv' /\ turn'.pc # "first"
<1> SUFFICES ASSUME IInv, DialFailed PROVE IInv' /\ turn'.pc # "first"
  OBVIOUS
<1>1. /\ turn.pc = "opening" /\ stream' = "nil" /\ turn' = [turn EXCEPT !.pc = "dialFailed"]
      /\ UNCHANGED <<pool, owner, last, dirty, changes>>
  BY DEF DialFailed
<1>2. turn' \in Turn /\ turn' = [turn EXCEPT !.pc = turn'.pc] /\ turn'.pc = "dialFailed"
  BY <1>1 DEF IInv, TypeOK, Turn
<1>3. PoolTypeOK'
  BY <1>1 DEF IInv, TypeOK, PoolTypeOK, pool
<1> QED BY <1>1, <1>2, <1>3
        DEF Turn, IInv, TypeOK, SlotOnlyInTurn, AccountOfTurn, StreamOfTurn, SentIsAttempted, TurnWaitWithinBudget

\* The first event has come.
LEMMA FirstEventKeepsIInv == IInv /\ FirstEvent => IInv' /\ turn'.pc # "first"
<1> SUFFICES ASSUME IInv, FirstEvent PROVE IInv' /\ turn'.pc # "first"
  OBVIOUS
<1>1. /\ turn.pc = "first" /\ turn' = [turn EXCEPT !.pc = "relay"] /\ UNCHANGED <<session, changes>>
      /\ UNCHANGED pool \/ \E q \in 0..Horizon : ObserveQuota(turn.account, q)
  BY DEF FirstEvent
<1>2. turn' \in Turn /\ turn' = [turn EXCEPT !.pc = turn'.pc] /\ turn'.pc = "relay"
  BY <1>1 DEF IInv, TypeOK, Turn
<1>3. PoolTypeOK'
  BY <1>1, ObservedType DEF IInv, TypeOK, AccountOfTurn
<1> QED BY <1>1, <1>2, <1>3
        DEF session, Turn, IInv, TypeOK, SlotOnlyInTurn, AccountOfTurn, StreamOfTurn, SentIsAttempted, TurnWaitWithinBudget

\* A turn that is over holds nothing.
LEMMA OverKeepsIInv ==
  ASSUME IInv, PoolTypeOK', turn' \in {NoTurn, [NoTurn EXCEPT !.pc = "closed"]},
         /\ stream' \in {"none", "open", "nil"} /\ {owner', last'} \subseteq Accounts \union {None}
         /\ dirty' \in BOOLEAN /\ UNCHANGED changes
         /\ stream' # "nil" /\ (stream' = "open" => ~dirty')
  PROVE  IInv' /\ turn'.pc # "first"
<1>1. turn' \in Turn
  BY NoTurnType DEF Turn
<1>2. /\ turn'.pc \in {"idle", "closed"} /\ turn'.account = None /\ turn'.lease = None /\ turn'.pinned = FALSE
      /\ turn'.sentTo = {} /\ turn'.timer = 0
  BY DEF NoTurn
<1> QED BY <1>1, <1>2 DEF IInv, TypeOK, SlotOnlyInTurn, AccountOfTurn, StreamOfTurn, SentIsAttempted, TurnWaitWithinBudget

\* The turn is complete.
LEMMA CompletedKeepsIInv == IInv /\ Completed => IInv' /\ turn'.pc # "first"
<1> SUFFICES ASSUME IInv, Completed PROVE IInv' /\ turn'.pc # "first"
  OBVIOUS
<1>1. /\ turn.pc = "relay" /\ last' = turn.account /\ turn' = NoTurn
      /\ UNCHANGED <<pool, stream, owner, dirty, changes>>
  BY DEF Completed
<1>2. turn.account \in Accounts /\ stream = "open" /\ ~dirty
  BY <1>1 DEF IInv, AccountOfTurn, StreamOfTurn
<1>3. PoolTypeOK'
  BY <1>1 DEF IInv, TypeOK, PoolTypeOK, pool
<1> QED BY <1>1, <1>2, <1>3, OverKeepsIInv DEF IInv, TypeOK

\* The turn breaks off.
LEMMA BrokenOffKeepsIInv == IInv /\ BrokenOff => IInv' /\ turn'.pc # "first"
<1> SUFFICES ASSUME IInv, BrokenOff PROVE IInv' /\ turn'.pc # "first"
  OBVIOUS
<1>1. /\ turn.pc = "relay" /\ turn' = NoTurn /\ UNCHANGED <<last, changes>>
      /\ stream' = "none" /\ owner' = None /\ dirty' = TRUE
      /\ \E f \in Failures : Classify(turn.account, f)
  BY DEF BrokenOff
<1>2. PoolTypeOK'
  BY <1>1, ClassifyType DEF IInv, TypeOK, AccountOfTurn
<1> QED BY <1>1, <1>2, OverKeepsIInv DEF IInv, TypeOK

\* The client leaves.
LEMMA ClientGoneKeepsIInv == IInv /\ ClientGone => IInv' /\ turn'.pc # "first"
<1> SUFFICES ASSUME IInv, ClientGone PROVE IInv' /\ turn'.pc # "first"
  OBVIOUS
<1>1. /\ turn' = [NoTurn EXCEPT !.pc = "closed"] /\ UNCHANGED <<pool, last, dirty, changes>>
      /\ stream' = "none" /\ owner' = None
  BY DEF ClientGone
<1>2. PoolTypeOK'
  BY <1>1 DEF IInv, TypeOK, PoolTypeOK, pool
<1> QED BY <1>1, <1>2, OverKeepsIInv DEF IInv, TypeOK
-----------------------------------------------------------------------------
(* Waiting for capacity. *)

\* An account has recovered for the turn that waits.
LEMMA RecoverKeepsIInv == IInv /\ Recover => IInv' /\ turn'.pc # "first"
<1> SUFFICES ASSUME IInv, Recover PROVE IInv' /\ turn'.pc # "first"
  OBVIOUS
<1>1. turn.pc = "recover" /\ UNCHANGED <<pool, session, changes>>
  BY DEF Recover
<1>2. PoolTypeOK'
  BY <1>1 DEF IInv, TypeOK, PoolTypeOK, pool
<1>3. CASE turn' = NoTurn
  <2>1. stream # "nil"
    BY <1>1 DEF IInv, StreamOfTurn
  <2> QED BY <1>1, <1>2, <1>3, <2>1, OverKeepsIInv DEF IInv, TypeOK, StreamOfTurn, session
<1>4. CASE turn' # NoTurn
  <2>1. PICK d : /\ d = EarliestAvailability(Awaited)
                 /\ WaitFor(d) > 0
                 /\ turn' = [turn EXCEPT !.pc = "waiting", !.started = TRUE,
                                         !.recoveryAt = d, !.timer = WaitFor(d)]
    BY <1>4 DEF Recover
  <2>2. turn.left \in 0..Budget /\ Budget \in Nat /\ Horizon \in Nat
    BY SocketNumbersAssumption, HorizonAssumption DEF IInv, TypeOK, Turn
  <2>3. d \in 0..Horizon
    <3>1. Awaited \subseteq Accounts
      BY SocketServingAssumption DEF Awaited
    <3> QED BY <2>1, <3>1, EarliestAvailabilityExact DEF IInv, TypeOK
  <2>4. WaitFor(d) \in 0..Budget /\ WaitFor(d) <= turn.left
    BY <2>2, <2>3 DEF WaitFor, Lower
  <2>5. turn' \in Turn
    BY <2>1, <2>3, <2>4 DEF IInv, TypeOK, Turn
  <2>6. /\ turn'.pc = "waiting" /\ turn'.started = TRUE /\ turn'.timer = WaitFor(d)
        /\ turn'.left = turn.left /\ turn'.lease = turn.lease /\ turn'.account = turn.account
        /\ turn'.pinned = turn.pinned /\ turn'.preferred = turn.preferred
    BY <2>1 DEF IInv, TypeOK, Turn
  <2> QED BY <1>1, <1>2, <2>4, <2>5, <2>6
          DEF session, IInv, TypeOK, SlotOnlyInTurn, AccountOfTurn, StreamOfTurn, SentIsAttempted, TurnWaitWithinBudget
<1> QED BY <1>3, <1>4

\* The wait is over.
LEMMA TimerFiredKeepsIInv == IInv /\ TimerFired => IInv' /\ turn'.pc # "first"
<1> SUFFICES ASSUME IInv, TimerFired PROVE IInv' /\ turn'.pc # "first"
  OBVIOUS
<1>1. turn.pc = "waiting" /\ turn.timer = 0 /\ UNCHANGED <<pool, session, changes>>
  BY DEF TimerFired
<1>2. PoolTypeOK'
  BY <1>1 DEF IInv, TypeOK, PoolTypeOK, pool
<1>3. CASE turn' = NoTurn
  <2>1. stream # "nil"
    BY <1>1 DEF IInv, StreamOfTurn
  <2> QED BY <1>1, <1>2, <1>3, <2>1, OverKeepsIInv DEF IInv, TypeOK, StreamOfTurn, session
<1>4. CASE turn' # NoTurn
  <2>1. turn' = [turn EXCEPT !.pc = "acquire", !.attempted = {}, !.sentTo = {}]
    BY <1>4 DEF TimerFired
  <2>2. turn' \in Turn
    BY <2>1 DEF IInv, TypeOK, Turn
  <2>3. /\ turn'.pc = "acquire" /\ turn'.attempted = {} /\ turn'.sentTo = {}
        /\ turn'.timer = turn.timer /\ turn'.lease = turn.lease /\ turn'.account = turn.account
        /\ turn'.pinned = turn.pinned /\ turn'.preferred = turn.preferred
    BY <2>1 DEF IInv, TypeOK, Turn
  <2> QED BY <1>1, <1>2, <2>2, <2>3
          DEF session, IInv, TypeOK, SlotOnlyInTurn, AccountOfTurn, StreamOfTurn, SentIsAttempted, TurnWaitWithinBudget
<1> QED BY <1>3, <1>4

\* Time that passes only shortens the wait.
LEMMA TickKeepsIInv == IInv /\ Tick => IInv' /\ (turn'.pc = "first" => turn.pc = "first")
<1> SUFFICES ASSUME IInv, Tick PROVE IInv' /\ (turn'.pc = "first" => turn.pc = "first")
  OBVIOUS
<1>1. PoolTypeOK' /\ UNCHANGED <<session, changes>>
  BY PoolTickType DEF Tick, IInv, TypeOK
<1>2. PICK left : /\ left = IF turn.started THEN Less(turn.left) ELSE turn.left
                  /\ turn' = [turn EXCEPT !.left = left,
                                 !.recoveryAt = Less(turn.recoveryAt), !.timer = Less(turn.timer)]
  BY DEF Tick
<1>3. /\ turn.left \in 0..Budget /\ turn.timer \in 0..Budget /\ turn.recoveryAt \in 0..Horizon
      /\ Budget \in Nat /\ Horizon \in Nat
  BY SocketNumbersAssumption, HorizonAssumption DEF IInv, TypeOK, Turn
<1>4. left \in 0..Budget /\ Less(turn.recoveryAt) \in 0..Horizon /\ Less(turn.timer) \in 0..Budget
  BY <1>2, <1>3, LessType
<1>5. turn' \in Turn
  BY <1>2, <1>4 DEF IInv, TypeOK, Turn
<1>6. /\ turn'.pc = turn.pc /\ turn'.started = turn.started /\ turn'.timer = Less(turn.timer)
      /\ turn'.left = left /\ turn'.lease = turn.lease /\ turn'.account = turn.account
      /\ turn'.pinned = turn.pinned /\ turn'.preferred = turn.preferred
      /\ turn'.attempted = turn.attempted /\ turn'.sentTo = turn.sentTo
  BY <1>2 DEF IInv, TypeOK, Turn
<1>7. TurnWaitWithinBudget'
  BY <1>2, <1>3, <1>6 DEF IInv, TurnWaitWithinBudget, Less
<1> QED BY <1>1, <1>5, <1>6, <1>7
        DEF session, IInv, TypeOK, SlotOnlyInTurn, AccountOfTurn, StreamOfTurn, SentIsAttempted

\* What happens to an account from outside.
LEMMA ChangeKeepsIInv == IInv /\ Change => IInv' /\ turn' = turn
<1> SUFFICES ASSUME IInv, Change PROVE IInv' /\ turn' = turn
  OBVIOUS
<1>1. /\ changes < MaxChanges /\ changes' = changes + 1 /\ UNCHANGED <<session, turn>>
      /\ \E a \in Accounts : PoolChange(a)
  BY DEF Change
<1>2. PoolTypeOK'
  BY <1>1, PoolChangeType DEF IInv, TypeOK
<1>3. changes' \in 0..MaxChanges
  BY <1>1, SocketNumbersAssumption DEF IInv, TypeOK
<1> QED BY <1>1, <1>2, <1>3
        DEF session, IInv, TypeOK, SlotOnlyInTurn, AccountOfTurn, StreamOfTurn, SentIsAttempted, TurnWaitWithinBudget

\* A step that changes nothing.
LEMMA UnchangedKeepsIInv == IInv /\ UNCHANGED vars => IInv'
BY DEF vars, IInv, TypeOK, PoolTypeOK, SlotOnlyInTurn, AccountOfTurn, StreamOfTurn, SentIsAttempted, TurnWaitWithinBudget

\* No step breaks the invariant, and a turn's payload goes out on a new
\* connection or on a kept one that has seen no failure.
LEMMA NextKeepsIInv == IInv /\ [Next]_vars => IInv' /\ (SentNow => Connected \/ Reused)
<1> SUFFICES ASSUME IInv, [Next]_vars PROVE IInv' /\ (SentNow => Connected \/ Reused)
  OBVIOUS
<1>1. CASE Begin \/ BeginAppend
  <2>1. turn'.pc = "acquire"
    BY <1>1 DEF Begin, BeginAppend, NoTurn
  <2> QED BY <1>1, <2>1, BeginKeepsIInv DEF SentNow
<1>2. CASE Acquired
  <2>1. turn'.pc = "opening"
    BY <1>2 DEF Acquired, IInv, TypeOK, Turn
  <2> QED BY <1>2, <2>1, AcquiredKeepsIInv DEF SentNow
<1>3. CASE Connected \/ Reused
  BY <1>3, ConnectedKeepsIInv, ReusedKeepsIInv
<1>4. CASE NotAcquired \/ DialFailed \/ DialHandled \/ SendFailed \/ FirstEvent \/ FirstFailed
  BY <1>4, NotAcquiredKeepsIInv, DialFailedKeepsIInv, DialHandledKeepsIInv, SendFailedKeepsIInv,
     FirstEventKeepsIInv, FirstFailedKeepsIInv DEF SentNow
<1>5. CASE Recover \/ TimerFired \/ Completed \/ BrokenOff \/ ClientGone
  BY <1>5, RecoverKeepsIInv, TimerFiredKeepsIInv, CompletedKeepsIInv, BrokenOffKeepsIInv,
     ClientGoneKeepsIInv DEF SentNow
<1>6. CASE Tick
  BY <1>6, TickKeepsIInv DEF SentNow
<1>7. CASE Change
  BY <1>7, ChangeKeepsIInv DEF SentNow
<1>8. CASE UNCHANGED vars
  <2>1. turn' = turn
    BY <1>8 DEF vars
  <2> QED BY <1>8, <2>1, UnchangedKeepsIInv DEF SentNow
<1> QED BY <1>1, <1>2, <1>3, <1>4, <1>5, <1>6, <1>7, <1>8 DEF Next, Work, Over
-----------------------------------------------------------------------------

\* The inductive invariant holds in every reachable state.
THEOREM InvariantHolds == Spec => []IInv
<1>1. IInv /\ [Next]_vars => IInv'
  BY NextKeepsIInv
<1> QED BY InitIInv, <1>1, PTL DEF Spec

\* Every variable of the session keeps to its values.
THEOREM TypeCorrect == Spec => []TypeOK
<1>1. IInv => TypeOK
  BY DEF IInv
<1> QED BY InvariantHolds, <1>1, PTL

\* What a turn reads comes from the connection of the account whose slot it
\* holds: a failed turn or a failover never leaves another account's connection
\* in session.stream under this account's name.
THEOREM StreamOfTheLease == Spec => []StreamMatchesLease
<1>1. IInv => StreamMatchesLease
  BY DEF IInv, StreamOfTurn, SlotOnlyInTurn, StreamMatchesLease
<1> QED BY InvariantHolds, <1>1, PTL

\* turnLease is held from the acquisition to the end of the attempt or of the
\* turn, on every way out, and never while the socket is idle or waits.
THEOREM SlotHeldOnlyInTurn == Spec => []SlotOnlyInTurn
<1>1. IInv => SlotOnlyInTurn
  BY DEF IInv
<1> QED BY InvariantHolds, <1>1, PTL

\* However often a turn waits for a recovery, no timer of it runs beyond the one
\* RATE_LIMIT_MAX_WAIT that began with its first wait.
THEOREM WaitStaysWithinBudget == Spec => []TurnWaitWithinBudget
<1>1. IInv => TurnWaitWithinBudget
  BY DEF IInv
<1> QED BY InvariantHolds, <1>1, PTL

\* After a failure the next payload goes out on a connection that was opened for
\* it, never on the one that failed.
THEOREM FailedStreamNotReused == Spec => NoReuseAfterFailure
<1>1. IInv /\ [Next]_vars => (SentNow /\ dirty => ~dirty')
  BY NextKeepsIInv, ReusedKeepsIInv DEF Connected
<1>2. IInv /\ [Next]_vars => [SentNow /\ dirty => ~dirty']_vars
  BY <1>1
<1> QED BY InvariantHolds, <1>2, PTL DEF Spec, NoReuseAfterFailure

\* Between two waits handleResponsesWebSocketTurn sends a turn that is no
\* continuation to each account at most once.
THEOREM EachAccountOnce == Spec => TurnAttemptOnce
<1>1. IInv /\ [Next]_vars => (SentNow /\ ~turn.pinned => turn.account \notin turn.sentTo)
  BY NextKeepsIInv DEF Connected, Reused, IInv, SentIsAttempted
<1>2. IInv /\ [Next]_vars => [SentNow /\ ~turn.pinned => turn.account \notin turn.sentTo]_vars
  BY <1>1
<1> QED BY InvariantHolds, <1>2, PTL DEF Spec, TurnAttemptOnce

\* A continuation is sent to the account of its previous response or to none,
\* whatever fails on the way.
THEOREM ContinuationKeepsAccount == Spec => ContinuationStays
<1>1. IInv /\ [Next]_vars => (SentNow /\ turn.pinned => turn.account = turn.preferred)
  BY NextKeepsIInv, SocketServingAssumption DEF Connected, Reused, IInv, AccountOfTurn
<1>2. IInv /\ [Next]_vars => [SentNow /\ turn.pinned => turn.account = turn.preferred]_vars
  BY <1>1
<1> QED BY InvariantHolds, <1>2, PTL DEF Spec, ContinuationStays
=============================================================================
