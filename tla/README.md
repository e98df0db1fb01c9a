# Formal models of chatgpt-codex-proxy

TLA+ models of the concurrent core of the proxy, the TLC configurations that
check them on small instances, and TLAPS proofs of what holds for every
instance. Everything is translated from the Go code under `src/internal`; a
comment above each operator names the function it models, and the `map` of
`PROJECT.json` gives the lines.

## The system

The proxy takes OpenAI and Anthropic requests, chooses one of several logged-in
Codex accounts, sends the translated request upstream and translates the answer
back. One process, many goroutines, state in memory and in a few files.

| component | state | operations | model |
|---|---|---|---|
| capacity coordinator `accountmanager/capacity.go` | per account: active count, FIFO of waiters; closed flag | TryAcquire, Acquire, release, Close | `Capacity`, abstract `FifoSlots` |
| account manager `accountmanager/manager.go` | one lock per account | AcquireMatchingLease, AcquireSpecificLease, ensureReady, Refresh, GetUsage | `Failover`, `Credentials` |
| account service `accounts/service.go` | records: status, token, cooldown, quota; sticky index, thread affinities | Upsert, Patch, Remove, UpdateAuth, MarkError, SetCooldown, ObserveQuota, AcquireMatching, EarliestAvailability | `AccountPool`, `Credentials` |
| accounts file `accounts/jsonstore` | the file | Load, Save (write beside, rename) | `Credentials` |
| device login `devicelogin/service.go` | pending logins | Start, poll, DeleteExpired, Close | `DeviceLogins` on `Credentials` |
| HTTP request path `server/public.go`, `rate_limit_recovery.go` | per request: resolution, accounts tried, wait budget | openStream, openStreamWithFailover, wait, finish | `Failover` |
| Responses WebSocket `server/responses_websocket.go` | per socket: upstream connection, its account, last response | turns, dial, reuse, relay | `SocketSession` |
| session resolution `server/session.go`, `continuation_history.go` | none | which history and account a request continues, what is recorded of it | `Continuations`, `Failover` |
| continuation store `conversation/*` | response id to record, with a TTL | Put, Get, Sweep, Derive | `Continuations` |
| Claude replay cache `anthropic/replay.go` | conversation key to blocks, least recently used | Remember, Apply, Delete, Sweep | `ClaudeReplay` |
| turn accumulator `turn/accumulator*.go` | the response built so far | Apply, and the objects made from it | `Turn` |
| Anthropic stream and message `anthropic/stream.go`, `response.go` | open block, tools held back | Events, hydrateTerminal, BuildMessage | `AnthropicStream` |
| OpenAI streams `server/stream_*.go`, `public.go`, `completions.go`, `openai/response_tuple.go` | tools and images announced, text kept back | one event in, chunks out | `OpenAIStreams` |
| endpoints `server/*` | phase of the response | the loops over upstream events, one-shot answers | `ResponseStreams` |
| activity store `activity/store.go` | live records, subscribers with bounded channels, daily log | Start, Update, Finish, Subscribe, Sweep, QueryLogs, Close | `Activity` |
| generation log `generation/store.go`, `server/generation.go` | one record per upstream attempt, daily log | Start, Finish, finishGenerations | `Generations` |
| model catalog `models/*` | merged catalog, cache file | refresh, merge, lookup | not modelled |
| request translation `anthropic/request*.go`, `openai/request*.go`, `schema.go` | none | JSON to JSON | not modelled |
| images, passthrough, admin, middleware, Codex client | none of their own | I/O | not modelled |

How they interact. A handler asks the account manager for a lease. The manager
asks the account service for an eligible account (status, cooldown, quota,
strategy, model plan) and the coordinator for a slot; it may queue, and chooses
again when the account has changed meanwhile. It then refreshes the token under
the account's lock. The handler sends the request; a failure is classified into
an expired account, a cooldown or nothing, and the handler goes on to another
account or sleeps until the earliest recovery. Quota snapshots from response
headers, the admin API and device logins change the same records. Every change
of a record is written to the accounts file inside the service's mutex. Each
request and each attempt is reported to the activity store and the generation
log, which admins watch and page through.

Before that, a request is matched with what is remembered of its conversation:
by `previous_response_id`, by the start of the conversation, or, for Claude
clients, by what their session sent last. Upstream events are folded into one
accumulator; each endpoint turns every event into its own protocol, with the
accumulator at hand, and a request without streaming is answered from the
accumulator alone. What the finished response leaves in the two caches decides
the next request.

What is hard here:

- a cancellation racing the grant of a slot, a double release, a shutdown with
  callers queued;
- an account read as eligible and used after a queue, a refresh or a wait;
- loops of failover, waiting and starting over, which must end, within one wait
  budget, without trying an account twice or losing a slot;
- rotating refresh tokens: two goroutines, a device login and a crash between
  the provider's answer and the file;
- a persistent upstream connection reused by the next turn;
- tool calls known by an item id, a call id or both, whose fragments are
  missing, interleaved or repeated in the terminal event, under five protocols
  that must tell the same thing;
- histories that are cut where they agree with what is recorded, replayed,
  stripped of signatures and recorded again; caches that expire and are evicted
  while parallel requests of one session use them;
- a device login whose deadline, answer and shutdown come together;
- bounded channels to slow watchers, half-written log lines, paging in a log
  that grows.

`PROJECT.json` lists them as hazards, each at its line with the properties that
would catch it.

## Modules

**`FifoSlots`** is what the coordinator promises: a set of owners and a queue
per account, no counters, channels or map.

**`Capacity`** is `capacity.go`. Each critical section is one action; the two
cases of the `select` in `Acquire` are `Wake` and `Cancel`, so every other step
may come between the select and the lock that follows it. The Go map is the set
`entries` with `active` and `waiters`; a waiter's `ready` channel and `granted`
flag are membership of two sets. The instance `Slots` maps it to `FifoSlots`.

**`CapacityProofs`** holds the theorems about `Capacity`; each module `*Proofs`
below those about the component it is named after (see Proofs).

**`AccountPool`** is the part of an account record that routing looks at.
Deadlines are kept as the time left, so one `Tick` moves all of them. `Classify`
is `classifyUpstreamError`: what each kind of failure does to the record.
**`AccountPoolProofs`** has the lemmas about its operators.

**`Failover`** is the life of one HTTP request, several of them sharing the
pool and the slots. A request is a record with the local variables of
`openStream`, `openStreamWithFailover`, `acquireLeaseForResolution`,
`AcquireMatchingLease` and `waitForCapacityRecovery`; an action is the code
between two points where the goroutine may block (lock, queue, OAuth, upstream,
timer). The rotation strategy is a free choice among eligible accounts, except
that sticky-thread's binding is modelled, for requests with a conversation key
(`Keyed`; the retry without reasoning has none). An accepted request is `opened`
while `prepareStreamForDelivery` reads on, and may still fail over then, also when
its client has gone: an error event that is already in the stream is read and
classified. `Snapshot` is a quota snapshot from the stream or the headers.
`sentTo` is a history variable. Theorems: **`FailoverProofs`**.

**`SocketSession`** is one Responses WebSocket: the turn's local variables and
the connection that outlives the turn. All else that happens to the accounts is
`Change`. Theorems: **`SocketSessionProofs`**.

**`Credentials`** is one account's saved login. The OAuth provider is modelled
from how `codexauth/client.go` uses it: it accepts a set of refresh tokens, a
refresh may replace the token, and the answer may be lost. The write of the file
is a step of its own that succeeds, fails, or never happens because the process
stops. `excused` and `overtaken` are history variables.

**`DeviceLogins`** extends `Credentials` with the pending logins and their
poll goroutines. The provider's answer, the deadline and the shutdown race; the
account is saved under the service's mutex and the status afterwards, so a
refresh may come between. **`CredentialsProofs`** has the theorems about the two
modules together.

**`Activity`** is the activity store. The log is one day's file, known by the
number of its readable lines and by whether it ends in half a line; `pager` is a
client that follows the cursors. Theorems: **`ActivityProofs`**.

**`Generations`** is the log of upstream attempts as the handlers write it.
`happened` is history: what became of each attempt, whatever the log says.
A handler may go on after an attempt that was opened and failed before anything
was delivered (`FirstEventFails`, over HTTP and on a socket); its record stays
active until the request ends. The theorems about this log, too, are in
**`ActivityProofs`**.

**`Continuations`** is what is kept of a conversation for its next request:
`resolveSession` with an explicit or an implicit continuation, the comparison of
histories and their trimming, the fallbacks of `openStream`,
`continuationInputHistory`, the store with its expiry, compaction, and a socket
that holds its own last response. Items are records with a kind, a call and who
said them; a conversation is a sequence of them. `upstream` and `said` are
history: what the provider's conversation was for each response, and what its
client takes it to be.

**`ClaudeReplay`** is `anthropic/replay.go`: what a response leaves under the key
of its session, eviction by number and bytes, the two looks at the expiry in
`get`, and `Apply`, which puts back what the client left out. The client is
external: it sends the conversation back without some kinds of blocks.
**`ConversationsProofs`** has the theorems about both.

**`Turn`** is the accumulator. An event is a record; a text is the sequence of
its fragments, so that a lost, doubled or swapped fragment shows. Tool calls are
found by call id, item id or output index as in `ensureToolCallState`.

**`AnthropicStream`** is the encoder (blocks opened and closed, tools held back
until complete, what the terminal event adds) and `BuildMessage`.
**`OpenAIStreams`** has the chunks of Chat and Completions and the events of
Responses. Both are operators on a writer's state.

**`ResponseStreams`** composes them: an upstream that sends a plan of items, each
with one of the scripts that are possible for its kind (fragments missing or
not, announced or not, finished or cut off), one client on one endpoint, and
beside it the accumulator of the same request without streaming. The ids of items
and calls are constants. Theorems: **`StreamProofs`**.

`MC*` modules give the instances. Operators whose name ends in `Bug` are
variants of the definition that follows them, each with one plausible mistake;
no specification uses them.

## Runs

| run | module | shows |
|---|---|---|
| `capacity` | MCCapacity | slot accounting, exact queues, no idle slot behind a queue, FIFO service, no leak of map entries, no slot after Close, everyone served, refinement of `FifoSlots` |
| `failover` | MCFailover | two requests, one slot per account: leases are neither lost nor doubled on any path; a canceled request blames at most the account it is using |
| `failover_kinds` | MCFailover | one request of every kind and any pool: the wait budget, one attempt per account and pass, accounts that may not change, every request answered |
| `socket` | MCSocketSession | connection, lease and account agree, no reuse after a failure, slots only during turns, continuations stay and end |
| `credentials` | MCCredentials | no refresh token is spent twice or forgotten, none is declared dead while it lives, and a device login is reported as what became of it |
| `activity` | MCActivity | snapshot plus events equal the store, nothing is told backwards, pages skip no line; the log of attempts says what became of each that did not open, answered, or broke off |
| `stream` | MCResponseStreams | every stream follows its protocol, tells what the one-shot answer tells, and takes back no item it has told as done |
| `conversation` | MCConversations | what is sent upstream is the conversation that the client means, blocks a Claude client left out are put back where they were, and no record goes without a reason |
| `selected_retry`, `explicit_migrates` | MCFailover | violations, as are the next rows: see below |
| `socket_spin` | MCSocketSession | |
| `lost_history` | MCConversations | |

Bounds, and why they are enough (the safety properties but `StreamedAsOneShot`
and `ReplayRestores` are also proved without them):

- *Capacity*: 2 accounts, 2 slots, 4 callers. Four callers fill an account and
  queue two more, so that a waiter may leave from the head or the tail while a
  slot is handed over, and the other account shows that nothing leaks across.
- *Failover*: 2 accounts, so one failover and one exhaustion; deadlines and
  budget of 1 or 2 ticks, so a wait may be within, equal to or beyond what is
  left of the budget, and there may be a second wait. `MCFailover.cfg` has two
  requests on one slot each (queueing and handover) and one change from
  outside; `MCFailoverKinds.cfg` one request with token refreshes, rejected
  signatures and every pool the accounts file may hold.
- *SocketSession*: any number of turns, two accounts, one outside change at any
  time. `attempts` is kept modulo 2, for only its being the first matters.
- *Credentials*: 2 goroutines (one holds the lock, one has read the old token),
  1 device login, which is a third actor without the lock, and 3 refresh tokens
  (a login and two replacements). A third goroutine behaves as the second does
  later.
- *Activity*: 2 request ids, reused after they expire; a channel of 2 events,
  so that it overflows; pages of 1 line in a file of up to 3, so that lines are
  added between pages.
- *Generations*: one request with 3 attempts: a failed one, one that breaks off,
  one that completes. Requests share nothing but the store's lock; the proof has
  any number of both.
- *ResponseStreams*: plans of at most two items and at most one message, two
  fragments for each tool call. Two calls are the least that can be interleaved
  or confused; a second item beside a call is what is held back behind it. The
  terminal event repeats all the output or a part of it.
- *Continuations*: one request at a time, three responses, so that a chain has a
  turn before the previous one; two models, since records are compared by model.
  Requests do not interact but through the store.
- *ClaudeReplay*: two requests of one session at once, each leaving out one set
  of blocks, and two records of other sessions; the cache holds two records. With
  only one, a batch of evictions would always take the record that has just
  come. `MaxBytes` is set so that a long record can push out others. Ages are
  distinct; a record larger than 15/16 of `MaxBytes` may be evicted by its own
  arrival, in the code as well.

`Failover` has a final stutter `AllDone` and `SocketSession` has `Over`, so that
deadlock is checked; only `stream`, `conversation` and `lost_history`, where a
behaviour ends with the response or with the bound on responses, do not check it.
`MCActivity` and `MCConversations` each hold two state machines without a common
variable; a behaviour is about one of them.

### Fairness

- `Capacity`: a goroutine whose channel is closed runs again (`Wake`), and a
  lease is released (every handler defers `Release`). Nothing is assumed of
  TryAcquire, Acquire or Close. `Cancel` is not fair, so nobody is served only
  because somebody gave up.
- `Failover`: each request's own steps and time. A step waiting on the upstream
  is fair since `codex` bounds it by the request's timeouts or the connection
  breaks; which answer comes is free.
- `SocketSession`: the turn's own steps and time; the client need not send
  anything.
- The other specifications state safety only: a login's goroutine, an upstream
  and a client may stop at any time, and nothing in the code promises otherwise.

## Proofs

TLC checks the instances above; the modules `*Proofs` prove the safety properties
of the runs for every value of the constants: any set of accounts, goroutines,
streams or keys, any limit, budget or number of attempts. Each has the same plan:
an inductive invariant `IInv` (the properties alone are not inductive), one lemma
for each action or for each way a handler can end, a lemma that joins them
along `Next`, and the theorems read from it. The invariants were model-checked
before they were proved.

The only assumptions are those the modules state about their constants:

| assumption | what it says and why the code justifies it |
|---|---|
| `LimitAssumption`, `NumbersAssumption`, `SocketNumbersAssumption`, `HorizonAssumption`, `MaxTokensAssumption`, `MaxAttemptsAssumption`, `MaxResponsesAssumption` | ranges of numbers: limits and waits that the configuration requires to be positive, and bounds |
| `CallersFinite`, `IsFiniteSet(Ids)` in `BoundsAssumption` | finitely many callers of the coordinator and live records |
| `BoundsAssumption` | channels hold and pages have at least one entry (`SubscriberBuffer`, `LogQuery.Limit`) |
| `NoAccountAssumption`, `ServingAssumption`, `SocketServingAssumption`, `NamesAssumption`, `NoneAssumption` | the values that stand for nothing, or for other writers, are not members of the sets they are told apart from |
| `KindsAssumption`, `FailuresAssumption`, `SwitchesAssumption`, `SocketSwitchesAssumption`, `ReachedAssumption` | kinds, failures and phases are some of those the code has; switches are on or off |
| `EndpointsAssumption`, `PlansAssumption` | endpoints and kinds of items are some of those the code has; a plan is a sequence |
| `IdsAssumption` | the upstream gives every item and every call of a response an id of its own |
| `ReplayAssumption` | the replay cache holds at least two records (the code: `defaultReplayMaxEntries`) |

### `CapacityProofs`

`Invariance` (`Spec => []IInv`) and from it `SlotsAccounted`, `QueuesExact`,
`SlotsNotIdle`, `EntriesExact`; the action properties `ServedInOrder` and
`ClosedGrantsNothing`; `Refinement`: `Spec => ImplementsFifoSlots`.

`SlotAccounting` (the counter is the number of owners) needs `WokenForAReason` and
`QueueExact`, for `release` hands the slot to the head of the queue without
touching the counter: that is right only if the head is a blocked caller of this
account that has not been granted anything. `NoIdleSlot` needs `SlotAccounting` to
know that the released slot was counted. `NoEntryLeak` needs the queue for
`cleanupLocked`. `IInv` is their conjunction with `TypeOK` and `NoStrayCancel`,
and TLC checks it in the run `capacity`. Three lemmas about queues (append, tail,
remove the i-th) come first, then one for each way a critical section can end,
giving `IInv'` and the new owners of every account; the action properties and the
refinement are read from the second half.

### `AccountPoolProofs`

Lemmas that the next two modules share: what each operation on an account record
leaves of its type, and that `EarliestAvailability` is the least of the recovery
times (`MinOfNaturals`, by well-foundedness of the naturals).

### `FailoverProofs`

`TypeCorrect`, `LeaseHeldExactly`, `WaitStaysWithinBudget`, `RetryAfterOnlyEarned`,
`EachAccountOnce`, `NamedAccountIsKept`, `CanceledBlame`. That no account serves
more than its limit is the coordinator's business (`CapacityProofs`).

`IInv` is `TypeOK` and what holds of each request record at each line of the
handler (`RequestOK`). `AttemptOnce` needs `MovableRequest`: all accounts the
request was sent to since its last wait are in `attempted`, except the one it is
using, and the account that it has chosen is not; so it must be known of each of
the three queues and of the refresh that the account is not one of them, and that
starting over without the history or the signature begins with empty sets.
`WaitWithinBudget` needs the timer to be the smaller of the recovery and what is
left (`TimerOfRequest`), so that both run out together or the budget does. Since no
step changes another request (`Becomes`, `Progress`), each action is analysed for
one record. `CanceledBlamesOnlyItsOwn` is about the pool and has lemmas of its own
(`CanceledStep`, `CanceledNext`): of all that a request without a client still does,
only the refresh and the error event of an open stream reach an account, and it is
the one in use.

### `SocketSessionProofs`

`TypeCorrect`, `StreamOfTheLease`, `SlotHeldOnlyInTurn`, `WaitStaysWithinBudget`,
`FailedStreamNotReused`, `EachAccountOnce`, `ContinuationKeepsAccount`.

The connection outlives the turn, so what is known of it must hold between turns:
an open one has seen no failure (`StreamOfTurn`), and the nil left by a refused
dial is there only until the failed dial is handled. With `SentIsAttempted`, as
above, and with `AccountOfTurn` (a continuation has the account it is pinned to, or
none), the properties follow.

### `CredentialsProofs`

About `LoginSpec`, the logins and the refreshes together: `TypeCorrect`,
`TokenStaysUsable`, `NoTokenSpentTwice`, `ExpiryHasAReason`, `LoginsToldTheTruth`.

The invariant says who may hold which token. Two goroutines never hold the same
one (`TokensApart`), because each asks with the record's token under the account's
lock (`LockExclusive`), an id is never used again, a login that saves its token
overtakes the goroutine that is asking, and no goroutine survives a restart. One
that is not overtaken asks with the token of the record (`CallerOK`), so that the
provider replaces no other's; the token of a login that is not saved yet is
nobody else's (`LoginOK`, `LoginsApart`). Memory and file agree unless a write is
missing (`SavedOK`).

### `ActivityProofs`

`StreamsAreExact`, `NoLineSkipped`, `StreamsGoForward`.

Every event in a channel goes on from the one before it about the same request,
and the first from what the client shows (`Coherent`); the last about a request,
or else what is shown, is what the store has. `PublishedKeeps`, by the lemmas about
a longer and a received channel, says that an update keeps this or closes the
stream. For the pages, the lines between the cursor and the newest line of the
first page have all been seen, counted from the end of a file that grows.

About the generation log: `AttemptsKeptApart` (`GenerationSpec => []GenerationInv`) and `EveryAttemptTold`
(`GenerationsTold`).

When `finishGenerations` writes a record, it is right because of what
the context said when the request ended (`EndTold`), which follows from every
attempt before the one at work being finished or left behind (`EarlierSettled`,
`CurrentActive`), from the context saying nothing before the end unless a turn of
a socket has completed or broken off (`NothingSaid`), and from no attempt
belonging to two requests (`Apart`). `OthersKept` and `StayApart` say that a step of
one request leaves the others alone; then there is one lemma for each action. An
attempt that was left behind after it had been opened is marked in `happened` and
excepted, for the log is wrong about it (see the disagreements below).

### `ConversationsProofs`

About the continuations: `ContinuationInvariant`, `ContinuationTypes`,
`ConversationsAreWhole`. A response that was no continuation has its whole
conversation upstream, and in the store while it has a record (`SavedWhole`). So a
history that is a prefix of the input may be replaced by its response
(`ImplicitOK`), and a new input put after it or after the response (`ExplicitOK`);
either way what is sent is what is meant (`ResolutionOK`). This must be kept of
requests in flight too: their record may expire between the resolution and the
sending, and their signatures may be stripped (`OpenedOK`, `RejectSignatureOK`).
Trimming takes a position that is the largest of its kind, so `MaxIsMember` and
`HistoryAndRest` come first. `SentTheConversation` is about requests whose previous
response is no continuation; the others lose their start, as the code does.

About the replay cache: `ReplayInvariant`, `RecordsAreKept`. The counter `bytes` is
the size of what is held (`StoreOK`; the lemmas `SizeOf*` say how the size
changes with the set of keys), and no stamp is larger than the number of answers, so
a new record is the newest. What `Evicted` takes is then older than all it leaves,
and nothing of that could have stayed within the targets (`EvictedFacts`). The
disjunct `Outgrown` of `ReplayKept`, a new answer of the key that is larger than the
whole store, is for small `MaxBytes`; no answer of the instance is so large.

### `StreamProofs`

`AnthropicBlocksNested`, `ChatChunksOrdered` and `ResponsesPaired`, and from the
three `StreamsFollowProtocol` (`ProtocolFollowed`), and `DoneItemsStay`
(`DoneItemsStand`), for every plan and all ids.

The encoders work through what they hold back with folds (the fragments of a
tool, the tools that wait, the output of the terminal response). A fold has no
induction theorem that these provers can use, but each of these folds, unrolled,
is a run `g[0], g[1], ...` whose steps are known (the lemmas `*Unrolled`), and what
every step keeps, the last has (`Steps`). The first lemmas about sequences
(`IsSeq`) ask nothing of the elements, since an event has no type.

- Anthropic: what is written so far has as many starts as stops or one more,
  according to the open block, whose index is the number of starts less one, and
  the next index is the number of starts (`Nested`). Each operator of the encoder keeps
  this, and only the terminal event and the error end it.
- Chat and Completions: the calls with a place have different ones, all less than
  the next, and those with a header have their one header at their place
  (`Headers`).
- Responses: the flags `added` and `done` of a call say what was written at the output
  index of its item (`Linked`). So each call must stay at that index, and each id
  must lead to the call of one tool: the accumulator knows a call by item id, call
  id or both, in any order (`CallsOK`, `EnsureOK`). A fragment that comes after the
  end of its call would be written; the scripts have none (`ClosesAfter`), and a call
  is done exactly when its end has come (`AsTold`). The output of the terminal event
  names items by their number among those that were begun, which need not be
  their index. A call that it moves is done by then, or is cut off and is
  not written again (`OutputOK`, `Ready`); that needs `NthBegun` to be the place
  of an item of which nothing was told (`OnlyAtEndInPlace`).
- Items told as done: each is the item of a tool whose end has come or the last
  event of another item (`Stood`), and the accumulator has it: the call has the id,
  name and body of its tool (`ToldCall`), and the item is held under its id
  (`SaidHeld`). So it was when it was told, and the terminal event takes nothing
  away: the items are forgotten and captured again only from an output that has all
  of them, and the calls are told again what they were told (`OutputTells`,
  `TerminalStands`). The last frame has every call and item of the accumulator,
  since sorting loses none (`OrderedHasAll`, `OutputStands`). It uses what the scripts
  say of every event (`ItemTold`): all ends of a tool call tell one body, after its
  name, and another item is done with its last event. The induction is on
  `StandInv`, with `PairInv` of the theorem before.

### What stays with TLC

- Liveness and fairness (`Served`, `ShutdownAnswers`, `Answered`, `CancelEnds`,
  `ContinuationEnds`): the proof system has no support for ENABLED.
- The four violations.
- `StreamedAsOneShot`: it compares what a client joins from the events with objects
  that the accumulator builds by filtering and sorting, which needs induction over
  the texts themselves and not only over what is open.
- `ReplayRestores`: `Apply` filters and flattens sequences of sequences
  (`SelectSeq`, `FlattenSeq`), which are recursive.

`StreamExact`, `Stripped` (in `Continuations`), `TotalSize`, `Ordered` (in `Turn`)
and `FullOutput` (in `ResponseStreams`) are stated with
quantifiers, positions and cardinalities rather than folds, since only so could
they be reasoned about.

## Where the code and its documents disagree

In each of these TLC finds the disagreement; the name is that of the run.

1. `selected_retry`: `docs/TRANSLATION.md:645` says "Each account is attempted
   at most once per recovery pass"; a request with `X-Proxy-Account` ignores the
   accounts it has tried (`public.go:471`), and a failure without a cooldown
   (408, 5xx, transport) repeats at once and without limit.
2. `explicit_migrates`: `README.md:154` says explicit continuations "remain
   pinned to their original account"; one with saved history is replayed with
   its account only preferred (`public.go:222`).
3. `socket_spin`: `docs/TRANSLATION.md:112` says each turn ends; when no account
   is left after a failed attempt the loop of `responses_websocket.go:174-246`
   continues for ever, without a wait.
4. `lost_history`: `docs/TRANSLATION.md:401` says a request with
   `previous_response_id` expands "the locally saved transcript"; the response to
   such a request is recorded without the history it was sent with
   (`public.go:222`, `:722`), so the next one loses all but the last turn.

Seen while modelling, without a run. About accounts and failover:

- `docs/MULTI_ACCOUNT_ROTATION_STRATEGY.md:364-371` lets the first two requests
  of a sticky thread fail with `quota_exhausted` and releases the third;
  `accounts/service.go:436-454` and `public.go:287-298` release the thread and
  fail over within the first request.
- A token refresh that fails inside `AcquireMatchingLease` returns no account,
  so other eligible accounts are not tried (`manager.go:87`, `public.go:272`).
- A request with `X-Proxy-Account` waits for, and reports, the earliest recovery
  of any account (`rate_limit_recovery.go:91`).
- A device login takes no account lock, so a refresh of the older token that
  fails afterwards expires the account that has just logged in, and one that
  succeeds overwrites the new token (`service.go:364`, `manager.go:247`).
  `ExpiredForAReason` excepts this case by name.
- A client that cancels while its request refreshes a token sets the fallback
  cooldown on the account and may lose the replacement of the token
  (`manager.go:247`). `CanceledBlamesOnlyItsOwn` and `TokenUsable` except it by name.
- An error event that was already in the stream is classified even though the
  client has gone, for `prepareStreamForDelivery` asks for the context only when
  the reading itself fails (`public.go:363`, `:265-306`): a 401, 402 or 429 expires or
  holds the account, and the loop goes on. `CanceledBlamesOnlyItsOwn` allows it;
  no document says otherwise.
- The retry without reasoning has no conversation key, so a sticky thread's account
  and the quota hold are not looked at (`public.go:191-196`).
- `MarkError` has no guard, so a disabled account may become expired and, after
  a refresh, active (`service.go:364`, `:333`).
- A continuation without history, after an invalid reasoning signature, is
  retried with its account only preferred (`public.go:190`).
- `README.md:162-164` says the account of `X-Proxy-Account` "is required to serve
  that request". When the upstream rejects a reasoning signature, the Messages
  endpoint sends the request again with that account only preferred
  (`anthropic.go:90`); the OpenAI endpoints keep it (`public.go:195`).
  `StripAndRetry` has both.
- A refused dial leaves a typed nil in the session of a socket; the check for
  nil is passed and closing it panics (`responses_websocket.go:195`, `:236`).
  `SocketSession` ends there in the state `crashed`.
- `acquireLeaseForResolution` fails the request when an account recovers between
  the failed selection and `EarliestAvailability` (`rate_limit_recovery.go:43`).
- The `least_used` comparison is not transitive when reset times are missing
  (`accounts/rotation.go:73`), so the order depends on the input order.
- A cooldown that `refreshAllLocked` clears in memory while the write fails is
  not written again until something else changes (`accounts/service.go:686`).
- A device login whose deadline comes during a poll reports "error", not
  "expired"; one whose write fails reports "error" although the account in
  memory has the new token (`devicelogin/service.go:102`, `:126`). `LoginTold`
  allows both.

About the log of attempts (`server/generation.go`):

- On a WebSocket, attempts are finished only when the socket ends, all with the
  outcome and response of its last words, and one that fails at its first event is
  not told to the context (`responses_websocket.go:217`).
- Over HTTP an attempt whose stream was opened and failed before anything was
  delivered is left active when the handler goes on to the next account or drops
  the reasoning (`public.go:261-316`, `:188-199`), and `finishGenerations` gives it
  the outcome and response of the last one (`generation.go:74`), although
  `README.md:180-181` says that attempts, "including account failover attempts", are
  retained "with [...] terminal summaries". `GenerationsTold` excepts every attempt that was left behind after it had been
  opened, and is false without that.
- `finishGenerations` is not deferred (`app.go:100`): after a panic the attempts
  stay active. A one-shot Anthropic answer never sets the summary, so the log has
  no response id.
- The filter of `Query` writes into the slice it reads, from the other end
  (`generation/store.go:166`), so that the newer half of a day may be listed twice
  and the older half not at all, and a filter may find what does not match it.
  `store_test.go:49-56` counts records, and the count is right. Not modelled.
- `generation.Store.records` never shrinks (`generation/store.go:103`).

About streams:

- `StreamEncoder` and `chatToolCallStreamer` know a tool by `CallID`, which
  changes when a fragment without a call id comes before the item is announced:
  Anthropic sends the call twice or never, Chat gives it a second index
  (`anthropic/stream.go:385`). `StreamedAsOneShot` excepts it (`Renamed`).
- Chat emits no tool call that only the terminal event has (`public.go:589`), and
  Anthropic none when a text block is still open at the end
  (`anthropic/stream.go:398`); excepted as `OnlyAtEnd`, `Nameless` and `LeftOpen`.
- A custom tool's call is streamed by Chat in the shape of a function and has its own
  in the one-shot object (`stream_chat_tools.go:39`, `accumulator_tools.go:185`).
  `docs/TRANSLATION.md:556-570` says that this is intended; `StreamedAsOneShot` states it
  (`AsStreamed`), with the native shape of the object (`NativeShape`).
- Anthropic writes one thinking block, however many reasoning items there are
  (`MixedThoughts`), and writes a call cut off in `output_item.done` that the
  message leaves out (`stream.go:126`).
- An incomplete item is told as completed by the Responses stream
  (`accumulator_tools.go:173`), and with a tuple schema the item that is done has
  the text before the conversion.
- The stop reason is `tool_use` even when no call is executable
  (`response.go:478`).

About conversations:

- An implicit resume records only the trimmed input and the output
  (`session.go:193`, `public.go:722`): a second resume starts from there.
  `SentTheConversation` excepts what continues a continuation.
- After an invalid signature the replay record is deleted by its key, which may
  by then hold the record of a parallel request (`anthropic.go:83`); a parallel
  request without tool use wipes the record of the main one (`replay.go:111`).
  `ReplayKept` counts these as reasons.
- `matchingReplayTextMessage` may find the text of an earlier turn that said the
  same, and put the blocks there (`replay.go:401`); excepted as `Echoed`.

## Not modelled

- The translation of requests, schema rewriting, tool-name aliases, signatures
  and token counts: pure functions on JSON, whose interesting part is the JSON.
- HTTP and WebSocket framing, headers and cookies, images and passthrough (the
  failover path, then bytes), the admin console, configuration, middleware.
- The model catalog: it decides the constant `Serving`.
- The choice a rotation strategy makes among eligible accounts, the removal of
  old log files, and the filters and dates of log queries.
- The second look at the clock in `waitForCapacityRecovery`, which tries again at once
  when the recovery has passed since the first (`rate_limit_recovery.go:56-58`). `Recover`
  has one look; the case is that of a wait whose timer fires at once.
- A write of the accounts file that stops half way: it goes to a file beside, is
  synced and renamed. A line of the activity log that is cut just before its
  newline, which could be read: a torn line is unreadable in `Activity`.
- On a socket, a ping that fails while a turn waits for its slot.
- In streams: refusals, annotations, stop sequences, usage estimates of
  `message_start`, several messages in one response. The conversion of a tuple
  schema succeeds exactly when the text is whole.
- In conversations: which account a replay prefers (that is `Failover`), and
  signatures that are missing: every thought has one.
- Wall-clock time is a tick; the order of two deadlines matters, their distance
  does not.

## Plan

1. `Catalog`: per-account model lists, merge, cache file and fetcher, which
   replaces the constant `Serving`.
2. `Rotation`: the strategies and the quota windows as operators; which pairs of
   accounts the comparison orders, and that every strategy returns an eligible
   account. `Failover`'s free choice is then shown to cover them.
3. Image and passthrough requests beside `Failover`: their leases and retries.
4. Proofs: with `Rotation`, that every strategy refines the free choice of
   `Failover`; that the slots of `Failover` behave as `FifoSlots`; the catalog's
   merge. Of the properties checked now, those left are out of the provers' reach
   (see above).
