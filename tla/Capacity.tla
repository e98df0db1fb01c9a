------------------------------ MODULE Capacity ------------------------------
(***************************************************************************)
(* The per-account slot coordinator of internal/accountmanager             *)
(* (capacity.go).  Every method holds the coordinator's mutex from its     *)
(* first read to its last write, so each critical section is one action.   *)
(* A queued Acquire releases the mutex, blocks in a select on its waiter's *)
(* ready channel and its context, and locks again afterwards: the two      *)
(* outcomes of the select are the actions Wake and Cancel, and anything    *)
(* may happen in between.                                                  *)
(***************************************************************************)
EXTENDS Integers, Sequences, FiniteSets

CONSTANTS Accounts,     \* account ids
          Callers,      \* goroutines, each with at most one slot at a time
          Limit,        \* max_active_requests_per_account
          NoAccount     \* acct of a caller that has asked for nothing

ASSUME LimitAssumption == Limit \in Nat \ {0}
ASSUME CallersFinite == IsFiniteSet(Callers)
ASSUME NoAccountAssumption == NoAccount \notin Accounts

VARIABLES
  closed,     \* CapacityCoordinator.closed
  entries,    \* the keys of CapacityCoordinator.accounts
  active,     \* accountCapacity.active, 0 for an account that has no entry
  waiters,    \* accountCapacity.waiters, <<>> for an account that has no entry
  pc,         \* where each caller is in Acquire, TryAcquire and its release
  acct,       \* the account each caller asked for last
  ready,      \* the waiters whose ready channel has been closed
  granted     \* the waiters whose granted flag has been set

vars == <<closed, entries, active, waiters, pc, acct, ready, granted>>

\* "holding": has a slot and its release function.  "spent": has called the
\* release function and may call it again.  "stray": Acquire returned
\* context.Canceled with neither a grant nor a shutdown.
PCs == {"idle", "waiting", "holding", "spent", "stray"}

TypeOK == /\ closed \in BOOLEAN
          /\ entries \subseteq Accounts
          /\ active \in [Accounts -> 0..Limit]
          /\ waiters \in [Accounts -> Seq(Callers)]
          /\ pc \in [Callers -> PCs]
          /\ acct \in [Callers -> Accounts \union {NoAccount}]
          /\ ready \subseteq Callers
          /\ granted \subseteq ready

Init == /\ closed = FALSE
        /\ entries = {}
        /\ active = [a \in Accounts |-> 0]
        /\ waiters = [a \in Accounts |-> <<>>]
        /\ pc = [c \in Callers |-> "idle"]
        /\ acct = [c \in Callers |-> NoAccount]
        /\ ready = {}
        /\ granted = {}

-----------------------------------------------------------------------------

\* A caller that may start a new call: it waits for nothing and owns nothing.
CanAsk(c) == pc[c] \in {"idle", "spent"}

\* Variants with a plausible bug, used only to show what a property catches,
\* stand before the definition they vary and have a name that ends in Bug.
HasCapacityOneMoreBug(a) == ~closed /\ active[a] <= Limit /\ waiters[a] = <<>>

HasCapacityClosedBug(a) == active[a] < Limit /\ waiters[a] = <<>>

HasCapacity(a) == ~closed /\ active[a] < Limit /\ waiters[a] = <<>>

TakeFreeSlot(c, a) ==
  /\ active' = [active EXCEPT ![a] = @ + 1]
  /\ entries' = entries \union {a}
  /\ pc' = [pc EXCEPT ![c] = "holding"]
  /\ acct' = [acct EXCEPT ![c] = a]
  /\ UNCHANGED <<closed, waiters, ready, granted>>

\* A refused TryAcquire has called stateLocked, which may have added an entry.
TryAcquire(c, a) ==
  /\ CanAsk(c)
  /\ \/ HasCapacity(a) /\ TakeFreeSlot(c, a)
     \/ /\ ~HasCapacity(a)
        /\ entries' = entries \union {a}
        /\ pc' = [pc EXCEPT ![c] = "idle"]
        /\ acct' = [acct EXCEPT ![c] = NoAccount]
        /\ UNCHANGED <<closed, active, waiters, ready, granted>>

\* Acquire up to its select.  A closed coordinator answers before stateLocked.
Acquire(c, a) ==
  /\ CanAsk(c)
  /\ \/ HasCapacity(a) /\ TakeFreeSlot(c, a)
     \/ /\ closed
        /\ pc' = [pc EXCEPT ![c] = "idle"]
        /\ acct' = [acct EXCEPT ![c] = NoAccount]
        /\ UNCHANGED <<closed, entries, active, waiters, ready, granted>>
     \/ /\ ~closed /\ ~HasCapacity(a)
        /\ waiters' = [waiters EXCEPT ![a] = Append(@, c)]
        /\ entries' = entries \union {a}
        /\ pc' = [pc EXCEPT ![c] = "waiting"]
        /\ acct' = [acct EXCEPT ![c] = a]
        /\ UNCHANGED <<closed, active, ready, granted>>

\* The select's ready case: a grant wins over a shutdown.
Wake(c) ==
  /\ pc[c] = "waiting" /\ c \in ready
  /\ \/ /\ c \in granted
        /\ pc' = [pc EXCEPT ![c] = "holding"]
        /\ UNCHANGED acct
     \/ /\ c \notin granted
        /\ pc' = [pc EXCEPT ![c] = IF closed THEN "idle" ELSE "stray"]
        /\ acct' = [acct EXCEPT ![c] = NoAccount]
  /\ ready' = ready \ {c}
  /\ granted' = granted \ {c}
  /\ UNCHANGED <<closed, entries, active, waiters>>

CleanupForgottenBug(a, n, q) == entries

\* cleanupLocked: which keys remain when account a has n active requests and
\* the queue q.
CleanupLocked(a, n, q) == IF n = 0 /\ q = <<>> THEN entries \ {a} ELSE entries

WithoutForgottenBug(s, i) == s

Without(s, i) == [j \in 1..(Len(s) - 1) |-> IF j < i THEN s[j] ELSE s[j + 1]]

Position(c, s) == {i \in 1..Len(s) : s[i] = c}

\* The select's ctx.Done case.  The grant may have come between the end of
\* the select and the lock: the caller then keeps the slot.
Cancel(c) ==
  /\ pc[c] = "waiting"
  /\ \/ /\ c \in granted
        /\ pc' = [pc EXCEPT ![c] = "holding"]
        /\ UNCHANGED <<acct, entries, waiters>>
     \/ /\ c \notin granted
        /\ LET a == acct[c]
           IN \/ \E i \in Position(c, waiters[a]) :
                   /\ waiters' = [waiters EXCEPT ![a] = Without(@, i)]
                   /\ entries' = CleanupLocked(a, active[a], Without(waiters[a], i))
              \/ /\ Position(c, waiters[a]) = {}
                 /\ entries' = CleanupLocked(a, active[a], waiters[a])
                 /\ UNCHANGED waiters
        /\ pc' = [pc EXCEPT ![c] = "idle"]
        /\ acct' = [acct EXCEPT ![c] = NoAccount]
  /\ ready' = ready \ {c}
  /\ granted' = granted \ {c}
  /\ UNCHANGED <<closed, active>>

ReleaseNoHandoffBug(a) ==
  /\ active[a] > 0
  /\ active' = [active EXCEPT ![a] = @ - 1]
  /\ entries' = CleanupLocked(a, active[a] - 1, waiters[a])
  /\ UNCHANGED <<waiters, ready, granted>>

ReleaseToNewestBug(a) ==
  \/ /\ active[a] > 0 /\ ~closed /\ waiters[a] # <<>>
     /\ waiters' = [waiters EXCEPT ![a] = Without(@, Len(@))]
     /\ ready' = ready \union {waiters[a][Len(waiters[a])]}
     /\ granted' = granted \union {waiters[a][Len(waiters[a])]}
     /\ UNCHANGED <<entries, active>>
  \/ /\ active[a] > 0 /\ (closed \/ waiters[a] = <<>>)
     /\ active' = [active EXCEPT ![a] = @ - 1]
     /\ entries' = CleanupLocked(a, active[a] - 1, waiters[a])
     /\ UNCHANGED <<waiters, ready, granted>>

\* release: the slot passes to the head of the queue or becomes free.
ReleaseSlot(a) ==
  \/ /\ active[a] = 0
     /\ UNCHANGED <<entries, active, waiters, ready, granted>>
  \/ /\ active[a] > 0 /\ ~closed /\ waiters[a] # <<>> /\ active[a] - 1 < Limit
     /\ waiters' = [waiters EXCEPT ![a] = Tail(@)]
     /\ ready' = ready \union {Head(waiters[a])}
     /\ granted' = granted \union {Head(waiters[a])}
     /\ UNCHANGED <<entries, active>>
  \/ /\ active[a] > 0 /\ (closed \/ waiters[a] = <<>> \/ active[a] - 1 >= Limit)
     /\ active' = [active EXCEPT ![a] = @ - 1]
     /\ entries' = CleanupLocked(a, active[a] - 1, waiters[a])
     /\ UNCHANGED <<waiters, ready, granted>>

ReleaseTwiceBug(c) ==
  /\ pc[c] \in {"holding", "spent"}
  /\ ReleaseSlot(acct[c])
  /\ pc' = [pc EXCEPT ![c] = "spent"]
  /\ UNCHANGED <<closed, acct>>

\* releaseFunc: sync.Once lets only the first call through.
Release(c) ==
  /\ pc[c] \in {"holding", "spent"}
  /\ IF pc[c] = "holding" THEN ReleaseSlot(acct[c])
                          ELSE UNCHANGED <<entries, active, waiters, ready, granted>>
  /\ pc' = [pc EXCEPT ![c] = "spent"]
  /\ UNCHANGED <<closed, acct>>

CloseSilentBug ==
  /\ ~closed
  /\ closed' = TRUE
  /\ waiters' = [a \in Accounts |-> <<>>]
  /\ UNCHANGED <<entries, active, pc, acct, ready, granted>>

\* Close visits the accounts that have an entry.
Close ==
  /\ ~closed
  /\ closed' = TRUE
  /\ ready' = ready \union {c \in Callers : \E a \in entries : Position(c, waiters[a]) # {}}
  /\ waiters' = [a \in Accounts |-> IF a \in entries THEN <<>> ELSE waiters[a]]
  /\ UNCHANGED <<entries, active, pc, acct, granted>>

Next == \/ \E c \in Callers, a \in Accounts : TryAcquire(c, a) \/ Acquire(c, a)
        \/ \E c \in Callers : Wake(c) \/ Cancel(c) \/ Release(c)
        \/ Close

Spec == Init /\ [][Next]_vars

\* A goroutine whose channel is closed is scheduled again.
WakeFairness == \A c \in Callers : WF_vars(Wake(c))

\* Every lease is released with defer: a request that ends gives its slot back.
ReleaseFairness == \A c \in Callers : WF_vars(pc[c] = "holding" /\ Release(c))

LiveSpec == Spec /\ WakeFairness /\ ReleaseFairness
-----------------------------------------------------------------------------

Owns(c, a) == acct[c] = a /\ (pc[c] = "holding" \/ (pc[c] = "waiting" /\ c \in granted))

Owners(a) == {c \in Callers : Owns(c, a)}

\* The active count of an account is the number of callers that have a slot of
\* it or have been granted one they have not picked up yet: no cancellation,
\* shutdown or double release makes a slot leak or counts it twice.
SlotAccounting == \A a \in Accounts : active[a] = Cardinality(Owners(a))

\* The queue of an account holds exactly the callers blocked on it that nobody
\* has answered, each once: a cancelled or granted waiter is never granted
\* again, and no blocked caller has dropped out of the queue.
QueueExact ==
  \A a \in Accounts :
    /\ \A c \in Callers : Position(c, waiters[a]) # {}
                            <=> acct[c] = a /\ pc[c] = "waiting" /\ c \notin ready
    /\ \A i, j \in 1..Len(waiters[a]) : waiters[a][i] = waiters[a][j] => i = j

\* No slot is idle while a caller waits for it (release hands slots over, so a
\* decrement without a grant would strand the queue).
NoIdleSlot == \A a \in Accounts : waiters[a] # <<>> => active[a] = Limit /\ ~closed

\* While the coordinator is open its map has an entry only for an account with
\* a request or a waiter, and for each of those: cleanupLocked forgets no key
\* and removes none that is in use.
NoEntryLeak ==
  \A a \in Accounts :
    LET used == active[a] > 0 \/ waiters[a] # <<>>
    IN (used => a \in entries) /\ (a \in entries /\ ~closed => used)

\* The last return of Acquire's ready case (context.Canceled without a cancelled
\* context) is never taken: a woken waiter was granted a slot or the
\* coordinator was closed.
NoStrayCancel == \A c \in Callers : pc[c] # "stray"

\* Every woken waiter was granted a slot or found the coordinator closed, only
\* blocked callers are woken, and a caller that has asked has named an account.
WokenForAReason ==
  \A c \in Callers :
    /\ c \in ready => pc[c] = "waiting" /\ (c \in granted \/ closed)
    /\ pc[c] \in {"waiting", "holding", "spent"} => acct[c] \in Accounts

\* The inductive invariant: each conjunct needs the others.
IInv == /\ TypeOK
        /\ SlotAccounting
        /\ QueueExact
        /\ NoIdleSlot
        /\ NoEntryLeak
        /\ WokenForAReason
        /\ NoStrayCancel

\* Whoever gains a slot of an account with a queue is the head of that queue.
NoOvertaking ==
  [][\A a \in Accounts : \A c \in Owners(a)' \ Owners(a) :
       waiters[a] = <<>> \/ c = Head(waiters[a])]_vars

\* Once the coordinator is closed no caller gains a slot, and none that has one
\* loses it other than by releasing it.
NoSlotAfterClose ==
  [][closed => \A a \in Accounts : Owners(a)' \subseteq Owners(a)]_vars

\* A queued caller does not wait for ever if every lease is released in the
\* end, whatever the callers behind and before it do.
Served == \A c \in Callers : pc[c] = "waiting" ~> pc[c] # "waiting"

\* Close answers every queued caller even if no lease is ever released.
ShutdownAnswers == closed ~> (\A c \in Callers : pc[c] # "waiting")

\* The coordinator implements the abstract slot service: the counter stands for
\* the set of owners, and a wake-up is invisible.
Slots == INSTANCE FifoSlots WITH open <- ~closed,
                                 owners <- [a \in Accounts |-> Owners(a)],
                                 queue <- waiters
ImplementsFifoSlots == Slots!Spec

=============================================================================
