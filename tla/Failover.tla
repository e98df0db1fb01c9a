----------------------------- MODULE Failover -----------------------------
(***************************************************************************)
(* The HTTP request path of internal/server: openStream and                *)
(* openStreamWithFailover (public.go) choose an account, wait for one of   *)
(* its slots, refresh its token, send the request, and on a failure try    *)
(* another account or wait until one recovers (rate_limit_recovery.go).    *)
(* Requests run concurrently and share the account pool and the slots.     *)
(* The order in which a slot's waiters are served is Capacity.tla's        *)
(* subject; here any waiter may be next.  Rotation is any choice.          *)
(***************************************************************************)
EXTENDS AccountPool

\* Operators that end in Bug are variants with a plausible mistake; they show
\* what a property catches and are used nowhere else.
CONSTANTS
  Requests,      \* request goroutines
  Kinds,         \* the kinds of request explored, a subset of AllKinds
  Serving,       \* the accounts whose plan supports the requested model
  Limit,         \* max_active_requests_per_account
  Budget,        \* RATE_LIMIT_MAX_WAIT, in ticks
  StickyThread,  \* TRUE when the rotation strategy is sticky-thread
  TokensFresh,   \* TRUE when no access token is close to its expiry
  Signatures,    \* TRUE when the upstream may reject a replayed reasoning signature
  MaxChanges,    \* bound: changes made to the pool from outside
  None           \* no account

\* "new": no continuation.  "selected": X-Proxy-Account.  "explicit": a
\* previous_response_id whose saved history is replayed.  "bare": one whose
\* record has no history.  "implicit": a resume the proxy has recognised.
\* "stripped": what a "bare" request becomes once its reasoning was removed.
AllKinds == {"new", "selected", "explicit", "bare", "implicit"}

ASSUME KindsAssumption == Kinds \subseteq AllKinds
ASSUME ServingAssumption == Serving \subseteq Accounts /\ None \notin Accounts
ASSUME NumbersAssumption == /\ Limit \in Nat \ {0}
                            /\ Budget \in Nat \ {0}
                            /\ MaxChanges \in Nat
ASSUME SwitchesAssumption == {StickyThread, TokensFresh, Signatures} \subseteq BOOLEAN

VARIABLES
  req,       \* one record per request, see Request
  bound,     \* threadAffinities for the conversation key the requests share
  changes    \* changes made to the pool so far

vars == <<status, cooldown, quota, req, bound, changes>>

\* "queued", "queuedSpecific", "queuedPinned": in capacity.Acquire for
\* AcquireMatchingLease, or for AcquireSpecificLease with and without the
\* eligibility check.  "opened": in prepareStreamForDelivery, which reads on until
\* there is something to deliver.
PCs == {"select", "matching", "queued", "queuedSpecific", "queuedPinned", "ready",
        "refreshing", "sent", "opened", "delivering", "recover", "waiting", "done"}

Request == [
  kind       : AllKinds \union {"stripped"},
  preferred  : Accounts \union {None},     \* resolution.PreferredAccountID
  refused    : Accounts \union {None},     \* the account that refused the reasoning
  pc         : PCs,
  account    : Accounts \union {None},
  lease      : Accounts \union {None},     \* the account a slot of which is held
  attempted  : SUBSET Accounts,
  lastErr    : Failures \union {"none"},
  lastAccount: Accounts \union {None},
  started    : BOOLEAN,                    \* started is set
  left       : 0..Budget,                  \* what is left of the wait budget
  recoveryAt : 0..Horizon,                 \* availability.RecoveryAt of the wait
  timer      : 0..Budget,
  canceled   : BOOLEAN,                    \* the request's context is done
  result     : {"none", "ok", "retryAfter", "unavailable", "upstream", "canceled"},
  sentTo     : SUBSET Accounts]            \* history: where it was sent since it last waited

TypeOK == /\ PoolTypeOK
          /\ req \in [Requests -> Request]
          /\ bound \in Accounts \union {None}
          /\ changes \in 0..MaxChanges

Fresh(k, a) == [kind |-> k, preferred |-> a, refused |-> None,
                pc |-> "select", account |-> None, lease |-> None, attempted |-> {},
                lastErr |-> "none", lastAccount |-> None, started |-> FALSE,
                left |-> Budget, recoveryAt |-> 0, timer |-> 0, canceled |-> FALSE,
                result |-> "none", sentTo |-> {}]

\* resolveSession and applyAccountSelector: every kind but "new" names an account.
Resolutions == {Fresh(k, a) : k \in Kinds \ {"new"}, a \in Accounts}
                 \union {Fresh(k, None) : k \in Kinds \intersect {"new"}}

Init == /\ PoolInit
        /\ req \in [Requests -> Resolutions]
        /\ bound \in IF StickyThread THEN Accounts \union {None} ELSE {None}
        /\ changes = 0

-----------------------------------------------------------------------------

\* openStream runs these once, without openStreamWithFailover.
Single(r) == req[r].kind \in {"bare", "stripped", "implicit"}

RoamingSelectedBug(r) == req[r].kind \in {"new", "explicit", "stripped", "selected"}

\* These go through AcquireMatchingLease or their thread's account.
Roaming(r) == req[r].kind \in {"new", "explicit", "stripped"}

\* CapacityCoordinator.HasCapacity
HasSlot(a) == Cardinality({r \in Requests : req[r].lease = a}) < Limit

\* What AcquireMatching may return: eligible, allowed, not attempted.
Candidates(r) == {a \in Serving \ req[r].attempted : Eligible(a)}

\* The preferred account if it is one of S, else what the rotation picks.
Choice(r, S) == IF req[r].preferred \in S THEN {req[r].preferred} ELSE S

\* Requests come with the ConversationKey they share; the resolution of a retry
\* without reasoning has none.
Keyed(r) == StickyThread /\ req[r].refused = None

\* The conversation's account as ThreadAffinity sees it.
Affine(r) == Keyed(r) /\ bound \in Candidates(r)

\* ThreadAffinity drops the binding of an account whose quota is used up.
BoundAfterLookup(r) ==
  IF Keyed(r) /\ bound # None /\ ~Eligible(bound) /\ quota[bound] > 0
  THEN None ELSE bound

FinishKeepsLeaseBug(r, result) ==
  req' = [req EXCEPT ![r] = [Fresh(@.kind, @.preferred) EXCEPT
                               !.pc = "done", !.canceled = req[r].canceled, !.lease = req[r].lease,
                               !.result = IF req[r].canceled THEN "canceled" ELSE result]]

\* The handler answers and its local state is gone.  A context that is done is
\* reported as a cancellation.
Finish(r, result) ==
  req' = [req EXCEPT ![r] = [Fresh(@.kind, @.preferred) EXCEPT
                               !.pc = "done", !.canceled = req[r].canceled,
                               !.result = IF req[r].canceled THEN "canceled" ELSE result]]

\* openStream's fallback after a failed implicit resume: an ordinary request.
StartOver(r) ==
  req' = [req EXCEPT ![r] = [Fresh("new", None) EXCEPT !.canceled = req[r].canceled]]

\* The second openStream of resolveAndOpenRequest and of the Messages endpoint,
\* without the encrypted reasoning: the account that refused is a preference.
\* X-Proxy-Account survives in the first of them only.  An error event of the
\* stream is acted on even when the context is done.
StripAndRetry(r) ==
  /\ Signatures /\ req[r].refused = None /\ req[r].kind # "implicit"
  /\ req[r].kind = "bare" \/ req[r].pc = "opened" \/ ~req[r].canceled
  /\ \E kind \in CASE req[r].kind = "selected" -> {"selected", "explicit"}
                   [] req[r].kind = "bare" -> {"stripped"}
                   [] OTHER -> {"explicit"} :
       req' = [req EXCEPT ![r] = [Fresh(kind, @.account) EXCEPT
                !.refused = req[r].account, !.canceled = req[r].canceled]]

\* No lease could be acquired: the attempt names no account.
TurnedAway(r) ==
  \/ req[r].kind \in {"bare", "stripped"} /\ Finish(r, "unavailable")
  \/ req[r].kind = "implicit" /\ StartOver(r)
  \/ ~Single(r) /\ req' = [req EXCEPT ![r] = [@ EXCEPT !.pc = "recover", !.account = None, !.lease = None]]

-----------------------------------------------------------------------------

\* acquireLeaseForResolution up to its first wait: a selected account and a
\* thread's account must be eligible, a continuation's need not be; any other
\* request goes on to AcquireMatchingLease.
Route(r) ==
  /\ req[r].pc = "select"
  /\ \/ /\ ~Roaming(r)
        /\ req' = [req EXCEPT ![r] = [@ EXCEPT
                       !.pc = IF Single(r) THEN "queuedPinned" ELSE "queuedSpecific",
                       !.account = req[r].preferred]]
        /\ UNCHANGED bound
     \/ /\ Roaming(r) /\ Affine(r)
        /\ req' = [req EXCEPT ![r] = [@ EXCEPT !.pc = "queuedSpecific", !.account = bound]]
        /\ UNCHANGED bound
     \/ /\ Roaming(r) /\ ~Affine(r)
        /\ req' = [req EXCEPT ![r] = [@ EXCEPT !.pc = "matching"]]
        /\ bound' = BoundAfterLookup(r)
  /\ UNCHANGED <<pool, changes>>

\* One turn of AcquireMatchingLease: take a free slot of a candidate, queue for
\* a candidate when all are full, or fail ("no active accounts", or the context
\* is done).  A TryAcquire that loses its slot to another request starts the
\* turn again and has changed nothing: it is this action, taken later.
Match(r) ==
  /\ req[r].pc = "matching"
  /\ LET free == {a \in Candidates(r) : HasSlot(a)}
     IN \/ /\ ~req[r].canceled
           /\ \E a \in Choice(r, free) :
                req' = [req EXCEPT ![r] = [@ EXCEPT !.pc = "ready", !.account = a, !.lease = a]]
        \/ /\ ~req[r].canceled /\ free = {}
           /\ \E a \in Choice(r, Candidates(r)) :
                req' = [req EXCEPT ![r] = [@ EXCEPT !.pc = "queued", !.account = a]]
        \/ /\ req[r].canceled \/ Candidates(r) = {}
           /\ TurnedAway(r)
  /\ UNCHANGED <<pool, bound, changes>>

Queued(r) == req[r].pc \in {"queued", "queuedSpecific", "queuedPinned"}

\* A slot came free.  The account may have changed while the request waited:
\* a matching acquisition chooses again, a specific one gives up.
Granted(r) ==
  /\ Queued(r) /\ HasSlot(req[r].account)
  /\ \/ /\ req[r].pc = "queuedPinned" \/ Eligible(req[r].account)
        /\ req' = [req EXCEPT ![r] = [@ EXCEPT !.pc = "ready", !.lease = req[r].account]]
     \/ /\ req[r].pc = "queued" /\ ~Eligible(req[r].account)
        /\ req' = [req EXCEPT ![r] = [@ EXCEPT !.pc = "matching", !.account = None]]
     \/ /\ req[r].pc = "queuedSpecific" /\ ~Eligible(req[r].account)
        /\ TurnedAway(r)
  /\ UNCHANGED <<pool, bound, changes>>

\* Acquire returns the context's error to a queued request.
QueueCanceled(r) ==
  /\ Queued(r) /\ req[r].canceled
  /\ TurnedAway(r)
  /\ UNCHANGED <<pool, bound, changes>>

Send(r) ==
  IF req[r].account \in Serving
  THEN req' = [req EXCEPT ![r] = [@ EXCEPT !.pc = "sent", !.sentTo = req[r].sentTo \union {req[r].account}]]
  ELSE TurnedAway(r)

\* ensureReady before it calls OAuth.  Only a disabled account is rejected.
EnsureReady(r) ==
  /\ req[r].pc = "ready"
  /\ \/ status[req[r].account] = "disabled" /\ TurnedAway(r)
     \/ status[req[r].account] # "disabled" /\ Send(r)
     \/ /\ status[req[r].account] # "disabled" /\ ~TokensFresh
        /\ req' = [req EXCEPT ![r].pc = "refreshing"]
  /\ UNCHANGED <<pool, bound, changes>>

\* refreshLocked: a refresh fails for good (invalid_grant), for now, or
\* succeeds.  The caller's cancellation is a failure for now.
Refreshed(r) ==
  /\ req[r].pc = "refreshing"
  /\ \/ ~req[r].canceled /\ UpdateAuth(req[r].account) /\ Send(r)
     \/ ~req[r].canceled /\ MarkError(req[r].account) /\ TurnedAway(r)
     \/ SetCooldown(req[r].account, Fallback) /\ TurnedAway(r)
  /\ UNCHANGED <<bound, changes>>

-----------------------------------------------------------------------------

\* The upstream accepts the request.  openStream leaves the events of a request
\* it runs once to the handler.
Open(r) ==
  /\ req[r].pc = "sent" /\ ~req[r].canceled
  /\ req' = [req EXCEPT ![r].pc = IF Single(r) THEN "delivering" ELSE "opened"]
  /\ UNCHANGED <<pool, bound, changes>>

\* observeQuotaEvent, or observeQuotaSnapshot of the headers once openStream has
\* returned.
Snapshot(r) ==
  /\ req[r].pc \in {"opened", "delivering"}
  /\ \E q \in 0..Horizon : ObserveQuota(req[r].account, q)
  /\ UNCHANGED <<req, bound, changes>>

\* There are events to deliver.
Deliver(r) ==
  /\ req[r].pc = "opened"
  /\ req' = [req EXCEPT ![r].pc = "delivering"]
  /\ UNCHANGED <<pool, bound, changes>>

\* NoteThreadQuotaFailure
Unbound(r, f) ==
  IF Keyed(r) /\ f = "payment" /\ bound = req[r].account THEN None ELSE bound

TryAnotherForgetsBug(r, f) ==
  /\ ~Single(r)
  /\ Classify(req[r].account, f)
  /\ req' = [req EXCEPT ![r] = [@ EXCEPT !.pc = "select", !.account = None, !.lease = None,
                                !.lastErr = f, !.lastAccount = req[r].account]]
  /\ bound' = Unbound(r, f)

\* After a failure that another account may not have, the failed account is put
\* on hold and remembered for this pass.
TryAnother(r, f) ==
  /\ ~Single(r)
  /\ Classify(req[r].account, f)
  /\ req' = [req EXCEPT ![r] = [@ EXCEPT !.pc = "select", !.account = None, !.lease = None,
                                !.attempted = req[r].attempted \union {req[r].account},
                                !.lastErr = f, !.lastAccount = req[r].account]]
  /\ bound' = Unbound(r, f)

FailBlamesBug(r, f) ==
  /\ req[r].pc \in {"sent", "opened"}
  /\ \/ TryAnother(r, f)
     \/ /\ req[r].kind \in {"bare", "stripped"}
        /\ Classify(req[r].account, f) /\ Finish(r, "upstream") /\ UNCHANGED bound
     \/ req[r].kind = "implicit" /\ StartOver(r) /\ UNCHANGED <<pool, bound>>
  /\ UNCHANGED changes

\* The upstream refuses the request, or breaks off or reports an error before
\* anything was delivered.  A request whose context is done still classifies an
\* error that prepareStreamForDelivery reads from the stream, and goes on to the
\* next account.  An implicit resume falls back unclassified.
Fail(r, f) ==
  /\ req[r].pc = "opened" \/ (req[r].pc = "sent" /\ ~req[r].canceled)
  /\ \/ TryAnother(r, f)
     \/ /\ req[r].kind \in {"bare", "stripped"}
        /\ Classify(req[r].account, f) /\ Finish(r, "upstream") /\ UNCHANGED bound
     \/ req[r].kind = "implicit" /\ StartOver(r) /\ UNCHANGED <<pool, bound>>
  /\ UNCHANGED changes

\* A status that no other account would change, or the client has gone: any
\* other error of a context that is done counts as its cancellation.  A rejected
\* reasoning signature is tried again once.
Abandon(r) ==
  /\ req[r].pc \in {"sent", "opened"}
  /\ \/ req[r].kind = "implicit" /\ StartOver(r)
     \/ req[r].kind # "implicit" /\ Finish(r, "upstream")
     \/ StripAndRetry(r)
  /\ UNCHANGED <<pool, bound, changes>>

\* finalizeSuccessfulStream, which derives the key again, and the deferred Close.
Complete(r) ==
  /\ req[r].pc = "delivering"
  /\ req' = [req EXCEPT ![r] = [Fresh(@.kind, @.preferred) EXCEPT
                                  !.pc = "done", !.canceled = req[r].canceled, !.result = "ok"]]
  /\ bound' = IF StickyThread THEN req[r].account ELSE bound
  /\ UNCHANGED <<pool, changes>>

\* Too late for another account: the failure is classified and passed on; only
\* a streaming answer tells the conversation's binding of it.
BreakOff(r) ==
  /\ req[r].pc = "delivering"
  /\ \/ req[r].canceled /\ UNCHANGED <<pool, bound>>
     \/ /\ ~req[r].canceled
        /\ \E f \in Failures : /\ Classify(req[r].account, f)
                               /\ bound' \in {bound, Unbound(r, f)}
  /\ Finish(r, "upstream")
  /\ UNCHANGED changes

-----------------------------------------------------------------------------

WaitForRestartsBug(r, d) == Lower(d, Budget)

WaitForGivesUpBug(r, d) == IF d > req[r].left THEN 0 ELSE d

\* How long waitForCapacityRecovery sleeps when the earliest recovery is d away.
WaitFor(r, d) == Lower(d, req[r].left)

\* waitForCapacityRecovery up to its timer.  Without a known recovery the last
\* failure is passed on, and classified again.  Every account that supports
\* the model counts, attempted or not.  Its two looks at the clock are one here:
\* a recovery that passes between them is a wait whose timer fires at once.
Recover(r) ==
  /\ req[r].pc = "recover"
  /\ LET d == EarliestAvailability(Serving)
     IN \/ /\ d = 0 /\ req[r].lastErr = "none"
           /\ Finish(r, "unavailable")
           /\ UNCHANGED pool
        \/ /\ d = 0 /\ req[r].lastErr # "none"
           /\ Finish(r, "upstream")
           /\ IF req[r].canceled THEN UNCHANGED pool ELSE Classify(req[r].lastAccount, req[r].lastErr)
        \/ /\ d > 0 /\ WaitFor(r, d) = 0
           /\ Finish(r, "retryAfter")
           /\ UNCHANGED pool
        \/ /\ d > 0 /\ WaitFor(r, d) > 0
           /\ req' = [req EXCEPT ![r] = [@ EXCEPT !.pc = "waiting", !.started = TRUE,
                                         !.recoveryAt = d, !.timer = WaitFor(r, d)]]
           /\ UNCHANGED pool
  /\ UNCHANGED <<bound, changes>>

\* The timer has fired, perhaps late.  The recovery is the one computed before.
TimerFired(r) ==
  /\ req[r].pc = "waiting" /\ req[r].timer = 0
  /\ \/ /\ req[r].canceled \/ req[r].recoveryAt > 0
        /\ Finish(r, "retryAfter")
     \/ /\ ~req[r].canceled /\ req[r].recoveryAt = 0
        /\ req' = [req EXCEPT ![r] = [@ EXCEPT !.pc = "select", !.attempted = {},
                                      !.sentTo = {}]]
  /\ UNCHANGED <<pool, bound, changes>>

\* The select's ctx.Done case.
WaitCanceled(r) ==
  /\ req[r].pc = "waiting" /\ req[r].canceled
  /\ Finish(r, "canceled")
  /\ UNCHANGED <<pool, bound, changes>>

-----------------------------------------------------------------------------

\* The client goes away.
Cancel(r) ==
  /\ req[r].pc # "done" /\ ~req[r].canceled
  /\ req' = [req EXCEPT ![r].canceled = TRUE]
  /\ UNCHANGED <<pool, bound, changes>>

Aged(q) == [q EXCEPT !.left = IF q.started THEN Less(@) ELSE @,
                     !.recoveryAt = Less(@),
                     !.timer = Less(@)]

\* Time passes; a request that has been answered no longer counts it.
Tick == /\ \/ \E a \in Accounts : cooldown[a] > 0 \/ quota[a] > 0
           \/ \E r \in Requests : req[r].pc # "done" /\ (req[r].timer > 0 \/ (req[r].started /\ req[r].left > 0))
        /\ PoolTick
        /\ req' = [r \in Requests |-> IF req[r].pc = "done" THEN req[r] ELSE Aged(req[r])]
        /\ UNCHANGED <<bound, changes>>

\* The admin API, a device login or traffic outside this model.
Change == /\ changes < MaxChanges
          /\ changes' = changes + 1
          /\ \/ \E a \in Accounts : PoolChange(a)
                /\ UNCHANGED bound
             \/ bound' = None /\ bound # None /\ UNCHANGED pool
          /\ UNCHANGED req

Step(r) == \/ Route(r) \/ Match(r) \/ Granted(r) \/ QueueCanceled(r) \/ EnsureReady(r)
           \/ Refreshed(r) \/ Open(r) \/ Deliver(r) \/ Abandon(r) \/ Complete(r) \/ BreakOff(r)
           \/ Recover(r) \/ TimerFired(r) \/ WaitCanceled(r)
           \/ \E f \in Failures : Fail(r, f)

AllDone == /\ \A r \in Requests : req[r].pc = "done"
           /\ UNCHANGED vars

Next == \/ \E r \in Requests : Step(r) \/ Snapshot(r) \/ Cancel(r)
        \/ Tick
        \/ Change
        \/ AllDone

Spec == Init /\ [][Next]_vars

\* Goroutines are scheduled, the upstream answers in the end or the connection
\* breaks, and time passes.
Fairness == WF_vars(Tick) /\ \A r \in Requests : WF_vars(Step(r))

LiveSpec == Spec /\ Fairness

-----------------------------------------------------------------------------

\* A request has a slot of its account from the moment it may use the account
\* until the account's answer has been dealt with, and at no other time: it
\* never waits for another slot or for a recovery with a slot in its hands, and
\* no way out of openHTTPStream, openWSStream or AcquireMatchingLease loses one.
LeaseExact ==
  \A r \in Requests :
    req[r].lease = IF req[r].pc \in {"ready", "refreshing", "sent", "opened", "delivering"}
                   THEN req[r].account ELSE None

\* However often a request waits for capacity, no timer of it runs beyond the end
\* of the one RATE_LIMIT_MAX_WAIT that began with its first wait.
WaitWithinBudget ==
  \A r \in Requests : req[r].timer > 0 => req[r].started /\ req[r].timer <= req[r].left

\* A 429 with Retry-After is the answer only when the whole budget has passed
\* since the first wait began.
RetryAfterEarned ==
  [][\A r \in Requests :
       req[r].result = "none" /\ req'[r].result = "retryAfter"
         => req[r].started /\ req[r].left = 0]_vars

SentNow(r) == req[r].pc # "sent" /\ req'[r].pc = "sent"

\* Between two waits a request that may move between accounts is sent to each of
\* them at most once, on whichever path it acquires them; removing its reasoning
\* makes it another request.
AttemptOnce ==
  [][\A r \in Requests :
       Roaming(r) /\ SentNow(r) => req[r].account \notin req[r].sentTo]_vars

\* A request whose client has gone expires no account and sets no cooldown: not
\* by giving up its place in a queue, by the request it breaks off, by the
\* failures it remembers of other accounts, nor by the answer it no longer reads.
\* Two steps may still blame the one account it is using: a refresh that its
\* context cuts short, and an error event read from a stream already open.
CanceledBlamesOnlyItsOwn ==
  [][\A r \in Requests :
       req[r].canceled /\ req[r].pc # "done" /\ req'[r] # req[r]
         => \A a \in Accounts :
              \/ status'[a] = status[a] /\ cooldown'[a] <= cooldown[a]
              \/ req[r].pc \in {"refreshing", "opened"} /\ a = req[r].account]_vars

\* A request that names a saved account with X-Proxy-Account, and a continuation
\* without history, is sent to that account or to none.
NamedAccountKept ==
  [][\A r \in Requests :
       req[r].kind \in {"selected", "bare"} /\ SentNow(r)
         => req[r].account = req[r].preferred]_vars

\* Every request is answered, whatever the accounts answer, except that one with
\* X-Proxy-Account may be sent to its account again and again.
Answered == \A r \in Requests : req[r].kind # "selected" ~> req[r].pc = "done"

\* That one, too, ends when its client goes away.
CancelEnds == \A r \in Requests : req[r].canceled ~> req[r].pc = "done"

-----------------------------------------------------------------------------
\* What the documentation says and the code does not do.

\* docs/TRANSLATION.md: "Each account is attempted at most once per recovery
\* pass", for a request with X-Proxy-Account.
SelectedAttemptOnce ==
  [][\A r \in Requests :
       req[r].kind = "selected" /\ SentNow(r) => req[r].account \notin req[r].sentTo]_vars

\* README.md: explicit previous_response_id continuations "remain pinned to
\* their original account".
ExplicitPinned ==
  [][\A r \in Requests :
       req[r].kind = "explicit" /\ SentNow(r) => req[r].account = req[r].preferred]_vars
=============================================================================
