------------------------ MODULE ConversationsProofs ------------------------
(* Proofs about what is kept of a conversation for its next request, for any
   number of requests, keys, models and responses.

   Continuations: the model answers the conversation its client means.  A response
   that was no continuation has its whole conversation in the store and upstream,
   so that a history that is a prefix of an input can be replaced by the response,
   and a new input can be put after either of them.

   ClaudeReplay: a fresh record goes only for a reason.  The count of bytes is what
   the records hold, and a new record is younger than all the others, so that what
   an eviction takes is the oldest and no more than the limits ask for. *)
EXTENDS Continuations, ClaudeReplay, FiniteSetTheorems, SequenceTheorems,
        WellFoundedInduction, TLAPS

Items == [kind: {"key", "user", "message", "reasoning", "call", "result"}, of: Nat]
ItemSeqs == Seq(Items)

SavedRecords == [history: ItemSeqs, key: ItemSeqs, model: Models, calls: SUBSET Nat,
                 expired: BOOLEAN]

Resolutions == [input: ItemSeqs, previous: Nat, original: ItemSeqs, explicit: BOOLEAN,
                implicit: BOOLEAN, replay: BOOLEAN, key: ItemSeqs]

Active == [pc: {"resolved", "open"}, transport: {"http", "socket", "compact"},
           model: Models, explicit: BOOLEAN, meant: ItemSeqs, from: Nat,
           resolution: Resolutions, context: ItemSeqs]

StoreTypeOK ==
  /\ DOMAIN records \subseteq 1..Len(said)
  /\ \A p \in DOMAIN records : records[p] \in SavedRecords
  /\ upstream \in Seq(ItemSeqs)
  /\ said \in Seq([conversation: ItemSeqs, continued: BOOLEAN])
  /\ Len(upstream) = Len(said)
  /\ lastResponse \in 0..Len(said)

TypeOK == StoreTypeOK /\ request \in [Requests -> Active \union {Idle}]

\* The response did not continue another: the store and the provider have all of
\* the conversation.
Whole(p) == p = 0 \/ ~said[p].continued

SavedWhole == \A p \in 1..Len(said) : Whole(p) =>
  /\ upstream[p] = said[p].conversation
  /\ p \in DOMAIN records => records[p].history = said[p].conversation

\* What a request was resolved to is what is meant, in both ways of sending it.
ResolutionOK(res, from, meant) ==
  /\ from \in 0..Len(said) /\ res.previous \in {0, from}
  /\ Whole(from) =>
       /\ res.original = meant
       /\ res.previous = 0 => res.input = meant
       /\ res.previous # 0 => upstream[res.previous] \o res.input = meant

RequestOK(q) == q.pc # "idle" =>
  /\ ResolutionOK(q.resolution, q.from, q.meant)
  /\ q.pc = "open" /\ Whole(q.from) => q.context = q.meant

ContinuationIInv == TypeOK /\ SavedWhole /\ \A r \in Requests : RequestOK(request[r])
-----------------------------------------------------------------------------

USE MaxResponsesAssumption

\* A set of numbers up to a bound has a greatest one.
LEMMA MaxIsMember ==
  ASSUME NEW n \in Nat, NEW S \in SUBSET (1..n), S # {}
  PROVE  Max(S) \in S
<1> DEFINE T == {m \in Nat : \E x \in S : m = n - x}
<1>1. ASSUME NEW x \in S PROVE n - x \in T /\ x \in Nat
  <2>1. n - x \in Nat /\ x \in Nat
    OBVIOUS
  <2> QED
    BY <2>1
<1>2. T \in SUBSET Nat /\ T # {}
  BY <1>1
<1>3. \E m \in T : \A k \in T : ~(<<k, m>> \in OpToRel(<, Nat))
  BY <1>2, NatLessThanWellFounded, WFMin
<1>4. \A m, k \in Nat : k < m => <<k, m>> \in OpToRel(<, Nat)
  BY DEF OpToRel
<1>5. PICK m \in T : \A k \in T : ~(k < m)
  BY <1>2, <1>3, <1>4
<1>6. PICK x \in S : m = n - x
  BY <1>5
<1>7. ASSUME NEW y \in S PROVE x >= y
  <2>1. n - y \in T /\ x \in Nat /\ y \in Nat
    BY <1>1
  <2>2. ~(n - y < n - x)
    BY <2>1, <1>5, <1>6
  <2> QED
    BY <2>1, <2>2
<1> QED
  BY <1>7 DEF Max

\* Every rank from 1 to the size of a finite set of numbers is a member's.
LEMMA EveryRank ==
  ASSUME NEW kept, IsFiniteSet(kept), kept \in SUBSET Nat,
         NEW n \in 1..Cardinality(kept)
  PROVE  \E i \in kept : Cardinality({j \in kept : j < i}) = n - 1
<1> DEFINE N == Cardinality(kept)
           below(i) == {j \in kept : j < i}
           size(i) == Cardinality(below(i))
           rank == [i \in kept |-> size(i) + 1]
<1>1. N \in Nat
  BY FS_CardinalityType
<1>2. ASSUME NEW i \in kept
      PROVE  IsFiniteSet(below(i)) /\ size(i) \in Nat /\ size(i) < N
  <2>1. below(i) \in SUBSET kept /\ i \notin below(i)
    OBVIOUS
  <2>2. IsFiniteSet(below(i)) /\ size(i) <= N /\ size(i) # N
    BY <2>1, FS_Subset
  <2>3. size(i) \in Nat
    BY <2>2, FS_CardinalityType
  <2> HIDE DEF N, size
  <2> QED
    BY <1>1, <2>2, <2>3
<1>3. ASSUME NEW i \in kept, NEW j \in kept, i < j
      PROVE  size(i) # size(j)
  <2>1. i \in Nat /\ j \in Nat /\ \A k \in kept : k \in Nat
    OBVIOUS
  <2>2. \A k \in kept : k < i => k < j
    BY <1>3, <2>1
  <2>3. below(i) \in SUBSET below(j)
    BY <2>2
  <2>5. i \in below(j) /\ i \notin below(i)
    BY <1>3, <2>1
  <2>4. IsFiniteSet(below(j))
    BY <1>2
  <2> QED
    BY <2>3, <2>4, <2>5, FS_Subset
<1>4. \A i \in kept : rank[i] = size(i) + 1
  OBVIOUS
<1>5. \A i \in kept : size(i) \in Nat /\ size(i) < N
  BY <1>2
<1>6. \A i \in kept : \A j \in kept : i < j => size(i) # size(j)
  BY <1>3
<1> HIDE DEF N, size
<1>7. \A i \in kept : size(i) + 1 \in 1..N
  BY <1>1, <1>5
<1>8. rank \in [kept -> 1..N]
  BY <1>7
<1> HIDE DEF rank
<1>9. rank \in Injection(kept, 1..N)
  <2>1. ASSUME NEW i \in kept, NEW j \in kept, rank[i] = rank[j] PROVE i = j
    <3>1. size(i) = size(j)
      BY <1>4, <1>5, <2>1
    <3>2. ~(i < j) /\ ~(j < i) /\ i \in Nat /\ j \in Nat
      BY <3>1, <1>6
    <3> QED
      BY <3>2
  <2> QED
    BY <1>8, <2>1 DEF Injection, IsInjective
<1>10. rank \in Surjection(kept, 1..N)
  <2>1. IsFiniteSet(1..N) /\ Cardinality(1..N) = N
    BY <1>1, FS_Interval
  <2> QED
    BY <1>9, <2>1, FS_Injection DEF N
<1>11. PICK i \in kept : rank[i] = n
  BY <1>10 DEF Surjection, N
<1>12. size(i) = n - 1
  <2>1. rank[i] = size(i) + 1 /\ size(i) \in Nat
    BY <1>4, <1>5
  <2> QED
    BY <1>11, <2>1
<1> QED
  BY <1>12 DEF size

\* What is left of the items is made of them.
LEMMA StrippedType ==
  ASSUME NEW items \in ItemSeqs
  PROVE  Stripped(items) \in ItemSeqs
<1> DEFINE kept == {i \in DOMAIN items : items[i].kind # "reasoning"}
           N == Cardinality(kept)
           Nth(n) == CHOOSE i \in kept : Cardinality({j \in kept : j < i}) = n - 1
<1>1. /\ kept \in SUBSET (1..Len(items)) /\ Len(items) \in Nat
      /\ \A i \in kept : items[i] \in Items
  BY DEF ItemSeqs
<1>2. IsFiniteSet(1..Len(items)) /\ 1..Len(items) \in SUBSET Nat
  BY <1>1, FS_Interval
<1> HIDE DEF kept
<1>3. IsFiniteSet(kept) /\ kept \in SUBSET Nat /\ N \in Nat
  BY <1>1, <1>2, FS_Subset, FS_CardinalityType
<1>4. ASSUME NEW n \in 1..N PROVE Nth(n) \in kept
  BY <1>3, EveryRank
<1>5. Stripped(items) = [n \in 1..N |-> items[Nth(n)]]
  BY DEF Stripped, kept
<1> HIDE DEF N, Nth
<1>6. \A n \in 1..N : items[Nth(n)] \in Items
  BY <1>1, <1>4
<1> QED
  BY <1>3, <1>5, <1>6, IsASeq DEF ItemSeqs

\* An input that starts with a history is the history and the rest.
LEMMA HistoryAndRest ==
  ASSUME NEW history \in ItemSeqs, NEW items \in ItemSeqs,
         IsPrefix(history, items)
  PROVE  /\ SubSeq(items, Len(history) + 1, Len(items)) \in ItemSeqs
         /\ history \o SubSeq(items, Len(history) + 1, Len(items)) = items
<1> DEFINE rest == SubSeq(items, Len(history) + 1, Len(items))
<1>1. /\ Len(history) \in Nat /\ Len(items) \in Nat /\ Len(history) <= Len(items)
      /\ \A i \in 1..Len(history) : history[i] = items[i]
  <2>1. /\ Len(history) \in Nat /\ Len(items) \in Nat /\ Len(history) <= Len(items)
        /\ SubSeq(history, 1, Len(history)) = SubSeq(items, 1, Len(history))
    BY DEF IsPrefix, ItemSeqs
  <2>2. ASSUME NEW i \in 1..Len(history) PROVE history[i] = items[i]
    <3>1. /\ SubSeq(history, 1, Len(history))[i] = history[i]
          /\ SubSeq(items, 1, Len(history))[i] = items[i]
      BY <2>1 DEF ItemSeqs
    <3> QED
      BY <2>1, <3>1
  <2> QED
    BY <2>1, <2>2
<1>2. /\ rest \in ItemSeqs /\ Len(rest) = Len(items) - Len(history)
      /\ \A i \in 1..Len(rest) : rest[i] = items[Len(history) + i]
  BY <1>1 DEF ItemSeqs
<1> HIDE DEF rest
<1>3. /\ history \o rest \in ItemSeqs /\ Len(history \o rest) = Len(items)
  BY <1>1, <1>2 DEF ItemSeqs
<1>4. ASSUME NEW i \in 1..Len(items) PROVE (history \o rest)[i] = items[i]
  <2>1. CASE i <= Len(history)
    BY <2>1, <1>1, <1>2 DEF ItemSeqs
  <2>2. CASE ~(i <= Len(history))
    <3>1. i - Len(history) \in 1..Len(rest) /\ Len(history) + (i - Len(history)) = i
      BY <2>2, <1>1, <1>2
    <3>2. (history \o rest)[i] = rest[i - Len(history)]
      BY <2>2, <3>1, <1>1, <1>2 DEF ItemSeqs
    <3> QED
      BY <3>1, <3>2, <1>2
  <2> QED
    BY <2>1, <2>2
<1>5. history \o rest = items
  BY <1>3, <1>4, SeqEqual DEF ItemSeqs
<1> QED
  BY <1>2, <1>5 DEF rest
-----------------------------------------------------------------------------
(* The operators of the model *)

\* A derived key is made of items.
LEMMA DeriveType ==
  ASSUME NEW items \in ItemSeqs
  PROVE  Derive(items) \in ItemSeqs
<1> DEFINE S == ModelItems(items)
<1>1. Len(items) \in Nat /\ S \in SUBSET (1..Len(items))
  BY DEF ModelItems, ItemSeqs
<1>2. CASE S = {}
  BY <1>2 DEF Derive
<1>3. CASE S # {}
  <2>1. Max(S) \in 1..Len(items)
    BY <1>1, <1>3, MaxIsMember
  <2>2. SubSeq(items, 1, Max(S)) \in ItemSeqs
    <3> HIDE DEF S
    <3> QED
      BY <1>1, <2>1 DEF ItemSeqs
  <2> QED
    BY <1>3, <2>2 DEF Derive
<1> QED
  BY <1>2, <1>3

\* What a client says next is an item.
LEMMA NextItemType ==
  ASSUME NEW conversation \in ItemSeqs
  PROVE  NextItem(conversation) \in Items
<1>1. CASE conversation # <<>>
  <2>1. Last(conversation) \in Items
    BY <1>1 DEF Last, ItemSeqs
  <2> QED
    BY <2>1 DEF NextItem, Items, User
<1>2. CASE conversation = <<>>
  BY <1>2 DEF NextItem, Items, User
<1> QED
  BY <1>1, <1>2

\* The output of a response is made of items.
LEMMA OutputType ==
  ASSUME NEW kinds \in OutputKinds, NEW response \in Nat
  PROVE  Output(kinds, response) \in ItemSeqs
<1>1. /\ Len(kinds) \in Nat /\ DOMAIN kinds = 1..Len(kinds)
      /\ \A i \in 1..Len(kinds) : OutputItem(kinds[i], response) \in Items
  BY DEF OutputKinds, OutputItem, Items
<1> QED
  BY <1>1, IsASeq DEF Output, ItemSeqs

\* An item more is the same as a sequence of one item put after it.
LEMMA AppendOne ==
  ASSUME NEW items \in ItemSeqs, NEW item \in Items
  PROVE  /\ <<item>> \in ItemSeqs /\ Append(items, item) \in ItemSeqs
         /\ items \o <<item>> = Append(items, item)
BY AppendIsConcat DEF ItemSeqs
-----------------------------------------------------------------------------
(* The resolution of a request *)

\* Typing and meaning of what a request with previous_response_id is resolved to.
LEMMA ExplicitOK ==
  ASSUME StoreTypeOK, SavedWhole,
         NEW req \in [model: Models, key: ItemSeqs, previous: Nat, input: ItemSeqs],
         req.previous \in Live
  PROVE  /\ ResolveExplicit(req) \in Resolutions
         /\ ResolveExplicit(req).previous = req.previous
         /\ ResolutionOK(ResolveExplicit(req), req.previous,
                         said[req.previous].conversation \o req.input)
<1> DEFINE p == req.previous
           record == records[p]
           res == ResolveExplicit(req)
<1>1. /\ p \in DOMAIN records /\ p \in 1..Len(said) /\ Len(said) \in Nat
      /\ record \in SavedRecords /\ req.input \in ItemSeqs
  BY DEF StoreTypeOK, Live
<1>2. record.history \in ItemSeqs /\ record.key \in ItemSeqs
  BY <1>1 DEF SavedRecords
<1>3. record.history \o req.input \in ItemSeqs
  BY <1>1, <1>2 DEF ItemSeqs
<1>4. /\ res \in Resolutions /\ res.previous = p /\ res.input = req.input
      /\ res.original = record.history \o req.input
  BY <1>1, <1>2, <1>3 DEF ResolveExplicit, Resolutions
<1>5. ~said[p].continued => /\ upstream[p] = said[p].conversation
                            /\ record.history = said[p].conversation
  BY <1>1 DEF SavedWhole, Whole
<1> HIDE DEF res, record
<1>6. ResolutionOK(res, p, said[p].conversation \o req.input)
  <2>1. p \in 0..Len(said) /\ p # 0
    BY <1>1
  <2> QED
    BY <2>1, <1>4, <1>5 DEF ResolutionOK, Whole
<1> QED
  BY <1>4, <1>6 DEF res

\* Typing and meaning of what a request without one is resolved to.
LEMMA ImplicitOK ==
  ASSUME StoreTypeOK, SavedWhole,
         NEW req \in [model: Models, key: ItemSeqs, previous: Nat, input: ItemSeqs]
  PROVE  /\ ResolveImplicit(req) \in Resolutions
         /\ ResolutionOK(ResolveImplicit(req), ResolveImplicit(req).previous, req.input)
<1> DEFINE key == IF req.key # <<>> THEN req.key ELSE Derive(req.input)
           fits == {p \in Live : /\ CanImplicitlyResume(records[p], req)
                                 /\ Trimmable(req.input, records[p])}
           listed == {p \in fits : records[p].key = key}
           candidates == IF listed # {} THEN listed ELSE fits
           p == Max(candidates)
           res == ResolveImplicit(req)
<1>1. req.input \in ItemSeqs /\ key \in ItemSeqs
  BY DeriveType
<1>2. Len(said) \in Nat /\ Live \in SUBSET (1..Len(said))
  BY DEF StoreTypeOK, Live
<1>3. Fresh(req.input, key) \in Resolutions
  BY <1>1 DEF Fresh, Resolutions
<1>4. CASE fits = {}
  <2>1. res = Fresh(req.input, key)
    BY <1>4 DEF ResolveImplicit
  <2>2. res.previous = 0 /\ res.input = req.input /\ res.original = req.input
    BY <2>1 DEF Fresh
  <2> HIDE DEF res
  <2>3. ResolutionOK(res, res.previous, req.input)
    BY <1>2, <2>2 DEF ResolutionOK
  <2> QED
    BY <1>3, <2>1, <2>3 DEF res
<1>5. CASE fits # {}
  <2>1. candidates \in SUBSET (1..Len(said)) /\ candidates # {} /\ candidates \subseteq fits
    BY <1>2, <1>5
  <2> HIDE DEF candidates
  <2>2. p \in fits
    BY <1>2, <2>1, MaxIsMember
  <2>3. /\ p \in Live /\ p \in 1..Len(said) /\ p \in DOMAIN records
        /\ IsPrefix(records[p].history, req.input)
        /\ records[p] \in SavedRecords
    BY <1>2, <2>2 DEF Trimmable, Live, StoreTypeOK
  <2>4. /\ records[p].history \in ItemSeqs /\ records[p].key \in ItemSeqs
    BY <2>3 DEF SavedRecords
  <2>5. /\ Trimmed(req.input, records[p]) \in ItemSeqs
        /\ records[p].history \o Trimmed(req.input, records[p]) = req.input
    BY <1>1, <2>3, <2>4, HistoryAndRest DEF Trimmed
  <2>6. res = [Fresh(req.input, key) EXCEPT !.input = Trimmed(req.input, records[p]),
                 !.previous = p, !.implicit = TRUE, !.key = records[p].key]
    BY <1>5 DEF ResolveImplicit, candidates
  <2> HIDE DEF fits, p, res, key
  <2>7. p \in Nat
    BY <1>2, <2>3
  <2>8. res \in Resolutions
    BY <1>3, <2>4, <2>5, <2>6, <2>7 DEF Resolutions
  <2>9. /\ res.previous = p /\ res.input = Trimmed(req.input, records[p])
        /\ res.original = req.input
    BY <2>6 DEF Fresh
  <2>10. ~said[p].continued => records[p].history = upstream[p]
    BY <2>3 DEF SavedWhole, Whole
  <2>11. ResolutionOK(res, res.previous, req.input)
    <3>1. p \in 0..Len(said) /\ p # 0
      BY <1>2, <2>3
    <3>2. ~said[p].continued => upstream[p] \o res.input = req.input
      BY <2>5, <2>9, <2>10
    <3> QED
      BY <2>9, <3>1, <3>2 DEF ResolutionOK, Whole
  <2> QED
    BY <2>8, <2>11 DEF res
<1> QED
  BY <1>4, <1>5
-----------------------------------------------------------------------------
(* The steps *)

\* A step that forgets or ages records keeps what is known of the conversations.
LEMMA StoreKept ==
  ASSUME StoreTypeOK, SavedWhole, UNCHANGED <<upstream, said, lastResponse>>,
         DOMAIN records' \subseteq DOMAIN records,
         \A p \in DOMAIN records' : /\ records'[p] \in SavedRecords
                                    /\ records'[p].history = records[p].history
  PROVE  StoreTypeOK' /\ SavedWhole'
<1>1. StoreTypeOK'
  BY DEF StoreTypeOK
<1>2. SavedWhole'
  BY DEF SavedWhole, Whole
<1> QED
  BY <1>1, <1>2

\* Requests stay right while no conversation grows, if the one that moves does.
LEMMA RequestsKept ==
  ASSUME ContinuationIInv, UNCHANGED <<upstream, said>>, NEW r \in Requests,
         request' \in [Requests -> Active \union {Idle}],
         \A q \in Requests \ {r} : request'[q] = request[q],
         RequestOK(request'[r])
  PROVE  \A q \in Requests : RequestOK(request[q])'
<1>1. ASSUME NEW q \in Requests PROVE RequestOK(request[q])'
  <2>1. RequestOK(request'[q])
    <3>1. CASE q = r
      BY <3>1
    <3>2. CASE q # r
      BY <3>2 DEF ContinuationIInv
    <3> QED
      BY <3>1, <3>2
  <2> QED
    BY <2>1 DEF RequestOK, ResolutionOK, Whole
<1> QED
  BY <1>1

\* Expire and Sweep
LEMMA ExpireOK ==
  ASSUME ContinuationIInv, NEW p \in DOMAIN records, Expire(p)
  PROVE  ContinuationIInv'
<1>1. /\ DOMAIN records' = DOMAIN records
      /\ \A q \in DOMAIN records : /\ records'[q] \in SavedRecords
                                   /\ records'[q].history = records[q].history
  BY DEF ContinuationIInv, TypeOK, StoreTypeOK, Expire, SavedRecords
<1>2. StoreTypeOK' /\ SavedWhole'
  BY <1>1, StoreKept DEF ContinuationIInv, TypeOK, Expire
<1> QED
  BY <1>2 DEF ContinuationIInv, TypeOK, Expire, RequestOK, ResolutionOK, Whole

\* So does a step that deletes what has expired.
LEMMA LiveRecordsKept ==
  ASSUME StoreTypeOK, SavedWhole, UNCHANGED <<upstream, said, lastResponse>>,
         records' = [p \in Live |-> records[p]]
  PROVE  StoreTypeOK' /\ SavedWhole'
<1>1. /\ DOMAIN records' \subseteq DOMAIN records
      /\ \A p \in DOMAIN records' : /\ records'[p] \in SavedRecords
                                    /\ records'[p].history = records[p].history
  BY DEF StoreTypeOK, Live
<1> QED
  BY <1>1, StoreKept

\* Sweep deletes nothing but expired records.
LEMMA SweepOK ==
  ASSUME ContinuationIInv, Sweep
  PROVE  ContinuationIInv'
<1>1. StoreTypeOK' /\ SavedWhole'
  BY LiveRecordsKept DEF ContinuationIInv, TypeOK, Sweep
<1> QED
  BY <1>1 DEF ContinuationIInv, TypeOK, Sweep, RequestOK, ResolutionOK, Whole

\* A request that is sent with the conversation that is meant.
LEMMA OpenedOK ==
  ASSUME ContinuationIInv, NEW r \in Requests, NEW context \in ItemSeqs, Opened(r, context),
         request[r].pc = "resolved",
         Whole(request[r].from) => context = request[r].meant
  PROVE  ContinuationIInv'
<1>1. request[r] \in Active /\ RequestOK(request[r])
  BY DEF ContinuationIInv, TypeOK, Idle
<1>2. /\ request'[r] = [request[r] EXCEPT !.pc = "open", !.context = context]
      /\ \A q \in Requests \ {r} : request'[q] = request[q]
      /\ DOMAIN request' = Requests
      /\ request' = [q \in Requests |-> request'[q]]
  BY DEF Opened, ContinuationIInv, TypeOK
<1>3. request'[r] \in Active
  BY <1>1, <1>2 DEF Active
<1>4. request' \in [Requests -> Active \union {Idle}]
  BY <1>2, <1>3 DEF ContinuationIInv, TypeOK
<1>5. /\ request'[r].pc = "open" /\ request'[r].context = context
      /\ request'[r].meant = request[r].meant /\ request'[r].from = request[r].from
      /\ request'[r].resolution = request[r].resolution
  BY <1>1, <1>2 DEF Active
<1>6. RequestOK(request'[r])
  BY <1>1, <1>5 DEF RequestOK
<1>7. \A q \in Requests : RequestOK(request[q])'
  BY <1>2, <1>4, <1>6, RequestsKept DEF Opened
<1> QED
  BY <1>4, <1>7 DEF ContinuationIInv, TypeOK, StoreTypeOK, SavedWhole, Whole, Opened

\* What is known of a request that was resolved: what may be sent for it.
LEMMA SendingOK ==
  ASSUME ContinuationIInv, NEW r \in Requests, request[r].pc = "resolved"
  PROVE  LET res == request[r].resolution
         IN  /\ res.input \in ItemSeqs /\ res.original \in ItemSeqs
             /\ res.previous # 0 => upstream[res.previous] \o res.input \in ItemSeqs
             /\ Whole(request[r].from) =>
                  /\ res.original = request[r].meant
                  /\ res.previous = 0 => res.input = request[r].meant
                  /\ res.previous # 0 => upstream[res.previous] \o res.input = request[r].meant
<1> DEFINE res == request[r].resolution
<1>1. /\ request[r] \in Active /\ res \in Resolutions
      /\ ResolutionOK(res, request[r].from, request[r].meant)
  BY DEF ContinuationIInv, TypeOK, RequestOK, Idle, Active
<1>2. /\ res.input \in ItemSeqs /\ res.original \in ItemSeqs
  BY <1>1 DEF Resolutions
<1>3. res.previous # 0 => res.previous \in 1..Len(upstream)
  <2>1. request[r].from \in 0..Len(said) /\ res.previous \in {0, request[r].from}
    BY <1>1 DEF ResolutionOK
  <2>2. Len(said) \in Nat /\ Len(upstream) = Len(said)
    BY DEF ContinuationIInv, TypeOK, StoreTypeOK
  <2> QED
    BY <2>1, <2>2
<1>4. res.previous # 0 => upstream[res.previous] \in ItemSeqs
  BY <1>3 DEF ContinuationIInv, TypeOK, StoreTypeOK
<1> HIDE DEF res
<1>5. res.previous # 0 => upstream[res.previous] \o res.input \in ItemSeqs
  BY <1>2, <1>4 DEF ItemSeqs
<1> QED
  BY <1>1, <1>2, <1>5 DEF ResolutionOK, res

\* Every way of sending a request.
LEMMA OpenOK ==
  ASSUME ContinuationIInv, NEW r \in Requests,
         OpenHTTP(r) \/ OpenResumed(r) \/ FallBack(r) \/ OpenSocket(r) \/ OpenCompact(r)
  PROVE  ContinuationIInv'
<1> DEFINE res == request[r].resolution
<1>1. request[r].pc = "resolved"
  BY DEF OpenHTTP, OpenResumed, FallBack, OpenSocket, OpenCompact
<1>2. /\ res.input \in ItemSeqs /\ res.original \in ItemSeqs
      /\ res.previous # 0 => upstream[res.previous] \o res.input \in ItemSeqs
      /\ Whole(request[r].from) =>
           /\ res.original = request[r].meant
           /\ res.previous = 0 => res.input = request[r].meant
           /\ res.previous # 0 => upstream[res.previous] \o res.input = request[r].meant
  BY <1>1, SendingOK
<1>3. CASE Opened(r, res.original)
  BY <1>1, <1>2, <1>3, OpenedOK
<1>4. CASE res.previous = 0 /\ Opened(r, res.input)
  BY <1>1, <1>2, <1>4, OpenedOK
<1>5. CASE res.previous # 0 /\ Opened(r, upstream[res.previous] \o res.input)
  BY <1>1, <1>2, <1>5, OpenedOK
<1>6. \/ Opened(r, res.original)
      \/ res.previous = 0 /\ Opened(r, res.input)
      \/ res.previous # 0 /\ Opened(r, upstream[res.previous] \o res.input)
  BY DEF OpenHTTP, OpenResumed, FallBack, OpenSocket, OpenCompact, Resumes
<1> QED
  BY <1>3, <1>4, <1>5, <1>6

\* Without its thoughts the request is a whole one of its own.
LEMMA RejectSignatureOK ==
  ASSUME ContinuationIInv, NEW r \in Requests, RejectSignature(r)
  PROVE  ContinuationIInv'
<1> DEFINE q == request[r]
           stripped == Stripped(q.resolution.original)
           res == Fresh(stripped, q.resolution.key)
<1>1. /\ q \in Active /\ q.pc = "resolved" /\ q.resolution \in Resolutions
      /\ q.meant \in ItemSeqs
      /\ ResolutionOK(q.resolution, q.from, q.meant)
  BY DEF ContinuationIInv, TypeOK, Idle, RejectSignature, RequestOK, Active
<1>2. q.resolution.original \in ItemSeqs /\ q.resolution.key \in ItemSeqs
  BY <1>1 DEF Resolutions
<1>3. stripped \in ItemSeqs /\ Stripped(q.meant) \in ItemSeqs
  BY <1>1, <1>2, StrippedType
<1>4. res \in Resolutions
  BY <1>2, <1>3 DEF Fresh, Resolutions
<1>5. res.previous = 0 /\ res.input = stripped /\ res.original = stripped
  BY DEF Fresh
<1>6. ResolutionOK(res, q.from, Stripped(q.meant))
  <2>1. q.from \in 0..Len(said) /\ (Whole(q.from) => stripped = Stripped(q.meant))
    BY <1>1 DEF ResolutionOK
  <2> HIDE DEF res
  <2> QED
    BY <2>1, <1>5 DEF ResolutionOK
<1> HIDE DEF stripped, res
<1>7. /\ request'[r] = [q EXCEPT !.resolution = res, !.meant = Stripped(q.meant)]
      /\ \A x \in Requests \ {r} : request'[x] = request[x]
      /\ request' = [x \in Requests |-> request'[x]]
  BY DEF RejectSignature, ContinuationIInv, TypeOK, res, stripped
<1>8. /\ request'[r] \in Active
      /\ request'[r].pc = "resolved" /\ request'[r].from = q.from
      /\ request'[r].meant = Stripped(q.meant) /\ request'[r].resolution = res
  <2> DEFINE m == Stripped(q.meant)
  <2>1. m \in ItemSeqs /\ request'[r] = [q EXCEPT !.resolution = res, !.meant = m]
    BY <1>3, <1>7
  <2> HIDE DEF m
  <2>2. /\ request'[r] \in Active
        /\ request'[r].pc = "resolved" /\ request'[r].from = q.from
        /\ request'[r].meant = m /\ request'[r].resolution = res
    BY <1>1, <1>4, <2>1 DEF Active
  <2> QED
    BY <2>2 DEF m
<1>9. request' \in [Requests -> Active \union {Idle}]
  BY <1>7, <1>8 DEF ContinuationIInv, TypeOK
<1>10. RequestOK(request'[r])
  BY <1>6, <1>8 DEF RequestOK
<1>11. \A x \in Requests : RequestOK(request[x])'
  BY <1>7, <1>9, <1>10, RequestsKept DEF RejectSignature
<1> QED
  BY <1>9, <1>11 DEF ContinuationIInv, TypeOK, StoreTypeOK, SavedWhole, Whole, RejectSignature

\* A request that ends without a record.
LEMMA EndedOK ==
  ASSUME ContinuationIInv, NEW r \in Requests, Fail(r) \/ FinishCompact(r)
  PROVE  ContinuationIInv'
<1>1. /\ request' = [request EXCEPT ![r] = Idle]
      /\ UNCHANGED <<records, upstream, said, lastResponse>>
  BY DEF Fail, FinishCompact
<1>2. /\ request'[r] = Idle /\ \A q \in Requests \ {r} : request'[q] = request[q]
      /\ request' \in [Requests -> Active \union {Idle}]
  BY <1>1 DEF ContinuationIInv, TypeOK
<1>3. RequestOK(request'[r])
  BY <1>2 DEF RequestOK, Idle
<1>4. \A q \in Requests : RequestOK(request[q])'
  BY <1>1, <1>2, <1>3, RequestsKept
<1> QED
  BY <1>1, <1>2, <1>4 DEF ContinuationIInv, TypeOK, StoreTypeOK, SavedWhole, Whole

\* A request that comes: its resolution means what its client means.
LEMMA AskedOK ==
  ASSUME ContinuationIInv, NEW r \in Requests, NEW transport \in {"http", "socket", "compact"},
         NEW model \in Models, NEW key \in ItemSeqs, NEW previous \in 0..Len(said),
         NEW input \in ItemSeqs, NEW meant \in ItemSeqs,
         previous = 0 => meant = input,
         previous # 0 => meant = said[previous].conversation \o input,
         Asked(r, transport, model, key, previous, input, meant)
  PROVE  ContinuationIInv'
<1> DEFINE req == [model |-> model, key |-> key, previous |-> previous, input |-> input]
           res == Resolved(req)
           q == [pc |-> "resolved", transport |-> transport, model |-> model,
                 explicit |-> previous # 0, meant |-> meant, from |-> res.previous,
                 resolution |-> res, context |-> <<>>]
<1>1. /\ Len(said) \in Nat /\ StoreTypeOK /\ SavedWhole
      /\ request \in [Requests -> Active \union {Idle}]
  BY DEF ContinuationIInv, TypeOK, StoreTypeOK
<1>2. previous \in Nat
  BY <1>1
<1>3. req \in [model: Models, key: ItemSeqs, previous: Nat, input: ItemSeqs]
  BY <1>2
<1>4. previous = 0 \/ previous \in Live
  BY DEF Asked, Resolvable
<1>5. /\ request' = [request EXCEPT ![r] = q]
      /\ records' = [p \in Live |-> records[p]]
      /\ UNCHANGED <<upstream, said, lastResponse>>
  BY DEF Asked
<1>6. req.previous = previous /\ req.input = input
  OBVIOUS
<1>7. res \in Resolutions /\ ResolutionOK(res, res.previous, meant)
  <2>1. CASE previous = 0
    <3>1. res = ResolveImplicit(req) /\ meant = input
      BY <2>1, <1>6 DEF Resolved
    <3> HIDE DEF req, res
    <3> QED
      BY <3>1, <1>1, <1>3, <1>6, ImplicitOK
  <2>2. CASE previous # 0
    <3>1. res = ResolveExplicit(req) /\ meant = said[previous].conversation \o input
      BY <2>2, <1>6 DEF Resolved
    <3> HIDE DEF req, res
    <3>2. /\ ResolveExplicit(req) \in Resolutions
          /\ ResolveExplicit(req).previous = req.previous
          /\ ResolutionOK(ResolveExplicit(req), req.previous,
                          said[req.previous].conversation \o req.input)
      BY <2>2, <1>1, <1>3, <1>4, <1>6, ExplicitOK
    <3> QED
      BY <3>1, <3>2, <1>6
  <2> QED
    BY <2>1, <2>2
<1> HIDE DEF res, req
<1>8. res.previous \in Nat
  BY <1>7 DEF Resolutions
<1>9. q \in Active
  <2>1. <<>> \in ItemSeqs /\ (previous # 0) \in BOOLEAN
    BY DEF ItemSeqs
  <2> QED
    BY <1>7, <1>8, <2>1 DEF Active
<1>10. /\ q.pc = "resolved" /\ q.from = res.previous /\ q.meant = meant
       /\ q.resolution = res
  OBVIOUS
<1> HIDE DEF q
<1>11. /\ request'[r] = q /\ \A x \in Requests \ {r} : request'[x] = request[x]
       /\ request' \in [Requests -> Active \union {Idle}]
  BY <1>1, <1>5, <1>9
<1>12. RequestOK(request'[r])
  BY <1>7, <1>10, <1>11 DEF RequestOK
<1>13. \A x \in Requests : RequestOK(request[x])'
  BY <1>5, <1>11, <1>12, RequestsKept
<1>14. StoreTypeOK' /\ SavedWhole'
  BY <1>1, <1>5, LiveRecordsKept
<1> QED
  BY <1>11, <1>13, <1>14 DEF ContinuationIInv, TypeOK

\* A conversation that was said is made of items.
LEMMA SaidType ==
  ASSUME ContinuationIInv, NEW p \in DOMAIN said
  PROVE  p \in 1..Len(said) /\ said[p].conversation \in ItemSeqs
<1>1. said \in Seq([conversation: ItemSeqs, continued: BOOLEAN])
  BY DEF ContinuationIInv, TypeOK, StoreTypeOK
<1>2. p \in 1..Len(said)
  BY <1>1
<1>3. said[p] \in [conversation: ItemSeqs, continued: BOOLEAN]
  BY <1>1, <1>2, ElementOfSeq
<1> QED
  BY <1>2, <1>3

\* A client that sends the whole conversation.
LEMMA AskWholeOK ==
  ASSUME ContinuationIInv, NEW r \in Requests, NEW transport \in {"http", "socket", "compact"},
         NEW model \in Models, NEW key \in ItemSeqs, AskWhole(r, transport, model, key)
  PROVE  ContinuationIInv'
<1>1. 0 \in 0..Len(said)
  BY DEF ContinuationIInv, TypeOK, StoreTypeOK
<1>2. CASE Asked(r, transport, model, key, 0, <<User>>, <<User>>)
  <2>1. <<User>> \in ItemSeqs
    BY DEF ItemSeqs, Items, User
  <2> QED
    BY <1>1, <1>2, <2>1, AskedOK
<1>3. ASSUME NEW p \in DOMAIN said,
             NEW u, NEW whole, whole = Append(said[p].conversation, NextItem(said[p].conversation)),
             NEW input,
             \/ u \in DOMAIN whole /\ input = SubSeq(whole, u, Len(whole))
             \/ input = Stripped(whole),
             Asked(r, transport, model, key, 0, input, input)
      PROVE  ContinuationIInv'
  <2>1. whole \in ItemSeqs
    BY <1>3, SaidType, NextItemType, AppendOne
  <2>2. input \in ItemSeqs
    <3>1. CASE u \in DOMAIN whole /\ input = SubSeq(whole, u, Len(whole))
      <4>1. /\ u \in Int /\ Len(whole) \in Int
            /\ \A i \in u..Len(whole) : whole[i] \in Items
        BY <2>1, <3>1 DEF ItemSeqs
      <4> QED
        BY <3>1, <4>1, SubSeqProperties DEF ItemSeqs
    <3>2. CASE input = Stripped(whole)
      BY <2>1, <3>2, StrippedType
    <3> QED
      BY <1>3, <3>1, <3>2
  <2> QED
    BY <1>1, <1>3, <2>2, AskedOK
<1> QED
  BY <1>2, <1>3 DEF AskWhole

\* A client that names the response it goes on after.
LEMMA AskOnOK ==
  ASSUME ContinuationIInv, NEW r \in Requests, NEW transport \in {"http", "socket", "compact"},
         NEW model \in Models, NEW p \in 1..Len(said), AskOn(r, transport, model, p)
  PROVE  ContinuationIInv'
<1> DEFINE conversation == said[p].conversation
           next == NextItem(conversation)
<1>1. /\ p \in 0..Len(said) /\ p # 0 /\ p \in DOMAIN said
  BY DEF ContinuationIInv, TypeOK, StoreTypeOK
<1>2. conversation \in ItemSeqs
  BY <1>1, SaidType
<1>3. next \in Items
  BY <1>2, NextItemType
<1>4. /\ <<next>> \in ItemSeqs /\ Append(conversation, next) \in ItemSeqs
      /\ conversation \o <<next>> = Append(conversation, next) /\ <<>> \in ItemSeqs
  BY <1>2, <1>3, AppendOne DEF ItemSeqs
<1>5. Asked(r, transport, model, <<>>, p, <<next>>, Append(conversation, next))
  BY DEF AskOn
<1> HIDE DEF next
<1> QED
  BY <1>1, <1>4, <1>5, AskedOK

\* Every request that may come.
LEMMA AskOK ==
  ASSUME ContinuationIInv, NEW r \in Requests, Ask(r)
  PROVE  ContinuationIInv'
<1>1. <<>> \in ItemSeqs /\ ClientKey \in ItemSeqs
  BY DEF ClientKey, ItemSeqs, Items
<1>2. DOMAIN said = 1..Len(said) /\ (lastResponse # 0 => lastResponse \in 1..Len(said))
  BY DEF ContinuationIInv, TypeOK, StoreTypeOK
<1>3. ASSUME NEW model \in Models, NEW key \in {<<>>, ClientKey}, AskWhole(r, "http", model, key)
      PROVE  ContinuationIInv'
  BY <1>1, <1>3, AskWholeOK
<1>4. ASSUME NEW model \in Models, NEW p \in DOMAIN said, NEW transport \in {"http", "compact"},
             AskOn(r, transport, model, p)
      PROVE  ContinuationIInv'
  BY <1>2, <1>4, AskOnOK
<1>5. ASSUME NEW model \in Models, AskSocket(r, model)
      PROVE  ContinuationIInv'
  <2>1. \/ lastResponse # 0 /\ AskOn(r, "socket", model, lastResponse)
        \/ lastResponse = 0 /\ AskWhole(r, "socket", model, <<>>)
        \/ lastResponse # 0 /\ \E p \in DOMAIN said : AskOn(r, "socket", model, p)
    BY <1>5 DEF AskSocket
  <2> QED
    BY <1>1, <1>2, <2>1, AskWholeOK, AskOnOK
<1> QED
  BY <1>3, <1>4, <1>5 DEF Ask

\* The model has answered: the next response has its record, and is remembered
\* as the provider and as its client know it.
LEMMA FinishOK ==
  ASSUME ContinuationIInv, NEW r \in Requests, Finish(r)
  PROVE  ContinuationIInv'
<1> DEFINE req == request[r]
           response == Len(said) + 1
<1>1. PICK kinds \in OutputKinds :
        LET output == Output(kinds, response)
        IN  /\ records' = [p \in DOMAIN records \union {response} |->
                             IF p = response THEN Record(req, output) ELSE records[p]]
            /\ upstream' = Append(upstream, req.context \o output)
            /\ said' = Append(said, [conversation |-> req.meant \o output,
                                     continued |-> req.from # 0])
  BY DEF Finish
<1> DEFINE output == Output(kinds, response)
           told == [conversation |-> req.meant \o output, continued |-> req.from # 0]
           record == Record(req, output)
           context == req.context \o output
<1>2. /\ req \in Active /\ req.pc = "open" /\ req.resolution \in Resolutions
      /\ req.meant \in ItemSeqs /\ req.context \in ItemSeqs /\ req.model \in Models
      /\ ResolutionOK(req.resolution, req.from, req.meant)
      /\ Whole(req.from) => req.context = req.meant
  BY DEF ContinuationIInv, TypeOK, Idle, Finish, RequestOK, Active
<1>3. req.resolution.input \in ItemSeqs /\ req.resolution.key \in ItemSeqs
  BY <1>2 DEF Resolutions
<1>4. /\ Len(said) \in Nat /\ response \in Nat /\ StoreTypeOK /\ SavedWhole
      /\ request \in [Requests -> Active \union {Idle}]
      /\ \A q \in Requests : RequestOK(request[q])
  BY DEF ContinuationIInv, TypeOK, StoreTypeOK
<1>5. output \in ItemSeqs
  BY <1>4, OutputType
<1>6. FunctionCallIDs(output) \in SUBSET Nat
  <2>1. \A i \in DOMAIN output : output[i].of \in Nat
    <3>1. \A i \in DOMAIN output : output[i] \in Items
      BY <1>5 DEF ItemSeqs
    <3> QED
      BY <3>1 DEF Items
  <2>2. \A item \in ToSet(output) : item.of \in Nat
    BY <2>1 DEF ToSet
  <2> QED
    BY <2>2 DEF FunctionCallIDs
<1> HIDE DEF output
<1>7. /\ req.meant \o output \in ItemSeqs /\ context \in ItemSeqs
      /\ req.resolution.input \o output \in ItemSeqs
  BY <1>2, <1>3, <1>5 DEF ItemSeqs
<1>8. record \in SavedRecords /\ record.history = req.resolution.input \o output
  BY <1>2, <1>3, <1>6, <1>7 DEF Record, ContinuationInputHistory, SavedRecords
<1>9. /\ told \in [conversation: ItemSeqs, continued: BOOLEAN]
      /\ told.conversation = req.meant \o output /\ (~told.continued => req.from = 0)
  BY <1>7
<1>10. req.from = 0 => context = req.meant \o output /\ record.history = req.meant \o output
  <2>1. req.from = 0 => req.context = req.meant /\ req.resolution.input = req.meant
    BY <1>2 DEF Whole, ResolutionOK
  <2> QED
    BY <2>1, <1>8
<1>11. /\ records' = [p \in DOMAIN records \union {response} |->
                        IF p = response THEN record ELSE records[p]]
       /\ upstream' = Append(upstream, context) /\ said' = Append(said, told)
       /\ request' = [request EXCEPT ![r] = Idle]
       /\ lastResponse' \in {lastResponse, response}
  BY <1>1 DEF Finish, output
<1> HIDE DEF record, told, context
<1>12. /\ Len(upstream) = Len(said) /\ upstream \in Seq(ItemSeqs)
       /\ said \in Seq([conversation: ItemSeqs, continued: BOOLEAN])
       /\ DOMAIN records \subseteq 1..Len(said) /\ lastResponse \in 0..Len(said)
       /\ \A p \in DOMAIN records : records[p] \in SavedRecords
  BY <1>4 DEF StoreTypeOK
<1>13. /\ upstream' \in Seq(ItemSeqs) /\ Len(upstream') = response
       /\ upstream'[response] = context
       /\ \A p \in 1..Len(said) : upstream'[p] = upstream[p]
  BY <1>7, <1>11, <1>12, AppendProperties
<1>14. /\ said' \in Seq([conversation: ItemSeqs, continued: BOOLEAN]) /\ Len(said') = response
       /\ said'[response] = told
       /\ \A p \in 1..Len(said) : said'[p] = said[p]
  BY <1>9, <1>11, <1>12, AppendProperties
<1>15. 1..response = 1..Len(said) \union {response} /\ response \notin 1..Len(said)
  BY <1>4
<1>16. /\ DOMAIN records' = DOMAIN records \union {response}
       /\ records'[response] = record
       /\ \A p \in DOMAIN records : records'[p] = records[p]
  BY <1>11, <1>12, <1>15
<1>17. lastResponse' \in 0..response
  BY <1>4, <1>11, <1>12
<1>18. StoreTypeOK'
  <2>1. DOMAIN records' \subseteq 1..response
    BY <1>12, <1>15, <1>16
  <2>2. \A p \in DOMAIN records' : records'[p] \in SavedRecords
    BY <1>8, <1>12, <1>16
  <2> HIDE DEF response
  <2> QED
    BY <1>13, <1>14, <1>17, <2>1, <2>2 DEF StoreTypeOK
<1> HIDE DEF response
<1>19. SavedWhole'
  <2>1. ASSUME NEW p \in 1..response, ~said'[p].continued
        PROVE  /\ upstream'[p] = said'[p].conversation
               /\ p \in DOMAIN records' => records'[p].history = said'[p].conversation
    <3>1. CASE p = response
      BY <2>1, <3>1, <1>9, <1>10, <1>13, <1>14, <1>16
    <3>2. CASE p \in 1..Len(said)
      <4>1. said'[p] = said[p] /\ upstream'[p] = upstream[p] /\ p # response
        BY <3>2, <1>13, <1>14, <1>15
      <4>2. /\ upstream[p] = said[p].conversation
            /\ p \in DOMAIN records => records[p].history = said[p].conversation
        BY <2>1, <3>2, <4>1, <1>4 DEF SavedWhole, Whole
      <4> QED
        BY <4>1, <4>2, <1>16
    <3> QED
      BY <1>15, <3>1, <3>2
  <2>2. \A p \in 1..response : p # 0
    BY <1>4
  <2> QED
    BY <2>1, <2>2, <1>14 DEF SavedWhole, Whole
<1>20. ASSUME NEW q \in Requests PROVE RequestOK(request[q])'
  <2>1. CASE q = r
    <3>1. request'[q] = Idle
      BY <2>1, <1>4, <1>11
    <3> QED
      BY <3>1 DEF RequestOK, Idle
  <2>2. CASE q # r
    <3>1. request'[q] = request[q] /\ RequestOK(request[q])
      BY <2>2, <1>4, <1>11
    <3>2. ASSUME NEW from, NEW res, NEW meant, ResolutionOK(res, from, meant)
          PROVE  ResolutionOK(res, from, meant)' /\ (Whole(from)' <=> Whole(from))
      <4>1. /\ from \in 0..Len(said) /\ res.previous \in {0, from}
            /\ from \in 0..response /\ (from # 0 => from \in 1..Len(said))
        BY <3>2, <1>4, <1>15 DEF ResolutionOK, response
      <4>2. from # 0 => said'[from] = said[from] /\ upstream'[from] = upstream[from]
        BY <4>1, <1>13, <1>14
      <4>3. Whole(from)' <=> Whole(from)
        BY <4>2 DEF Whole
      <4>4. res.previous # 0 => upstream'[res.previous] = upstream[res.previous]
        BY <4>1, <4>2
      <4> QED
        BY <3>2, <4>1, <4>3, <4>4, <1>14 DEF ResolutionOK
    <3> QED
      BY <3>1, <3>2 DEF RequestOK
  <2> QED
    BY <2>1, <2>2
<1>21. request' \in [Requests -> Active \union {Idle}]
  BY <1>4, <1>11
<1> QED
  BY <1>18, <1>19, <1>20, <1>21 DEF ContinuationIInv, TypeOK
-----------------------------------------------------------------------------
(* The theorems *)

\* Nothing is stored and nobody has said anything at first.
LEMMA InitOK ==
  ASSUME ContinuationInit
  PROVE  ContinuationIInv
<1>1. /\ records = <<>> /\ upstream = <<>> /\ said = <<>> /\ lastResponse = 0
      /\ request = [r \in Requests |-> Idle]
  BY DEF ContinuationInit
<1>2. TypeOK
  BY <1>1 DEF TypeOK, StoreTypeOK
<1>3. SavedWhole
  BY <1>1 DEF SavedWhole
<1>4. \A r \in Requests : RequestOK(request[r])
  BY <1>1 DEF RequestOK, Idle
<1> QED
  BY <1>2, <1>3, <1>4 DEF ContinuationIInv

\* Every step keeps the invariant.
LEMMA NextOK ==
  ASSUME ContinuationIInv, [ContinuationNext]_continuationVars
  PROVE  ContinuationIInv'
<1>1. CASE UNCHANGED continuationVars
  BY <1>1 DEF continuationVars, ContinuationIInv, TypeOK, StoreTypeOK, SavedWhole, Whole, RequestOK,
              ResolutionOK
<1>2. CASE Sweep
  BY <1>2, SweepOK
<1>3. ASSUME NEW p \in DOMAIN records, Expire(p) PROVE ContinuationIInv'
  BY <1>3, ExpireOK
<1>4. ASSUME NEW r \in Requests, Ask(r) PROVE ContinuationIInv'
  BY <1>4, AskOK
<1>5. ASSUME NEW r \in Requests,
             OpenHTTP(r) \/ OpenResumed(r) \/ FallBack(r) \/ OpenSocket(r) \/ OpenCompact(r)
      PROVE  ContinuationIInv'
  BY <1>5, OpenOK
<1>6. ASSUME NEW r \in Requests, RejectSignature(r) PROVE ContinuationIInv'
  BY <1>6, RejectSignatureOK
<1>7. ASSUME NEW r \in Requests, Fail(r) \/ FinishCompact(r) PROVE ContinuationIInv'
  BY <1>7, EndedOK
<1>8. ASSUME NEW r \in Requests, Finish(r) PROVE ContinuationIInv'
  BY <1>8, FinishOK
<1> QED
  BY <1>1, <1>2, <1>3, <1>4, <1>5, <1>6, <1>7, <1>8 DEF ContinuationNext

\* The inductive invariant of the store, the provider and the requests under way.
THEOREM ContinuationInvariant == ContinuationSpec => []ContinuationIInv
<1>1. ContinuationInit => ContinuationIInv
  BY InitOK
<1>2. ContinuationIInv /\ [ContinuationNext]_continuationVars => ContinuationIInv'
  BY NextOK
<1> QED
  BY <1>1, <1>2, PTL DEF ContinuationSpec

\* Every variable has its type: in particular a request, resolved or sent, names
\* only responses that were made.
THEOREM ContinuationTypes == ContinuationSpec => []TypeOK
<1>1. ContinuationIInv => TypeOK
  BY DEF ContinuationIInv
<1> QED
  BY <1>1, ContinuationInvariant, PTL

\* However the requests are resolved, sent, resent and remembered, in any order
\* with the expiry of what is remembered, the model answers the conversation its
\* client means, but for continuations of continuations.
THEOREM ConversationsAreWhole == ContinuationSpec => []SentTheConversation
<1>1. ContinuationIInv => SentTheConversation
  <2> SUFFICES ASSUME ContinuationIInv, NEW r \in Requests, request[r].pc = "open"
               PROVE  \/ request[r].context = request[r].meant
                      \/ request[r].from # 0 /\ said[request[r].from].continued
    BY DEF SentTheConversation
  <2>1. Whole(request[r].from) => request[r].context = request[r].meant
    BY DEF ContinuationIInv, RequestOK
  <2> QED
    BY <2>1 DEF Whole
<1> QED
  BY <1>1, ContinuationInvariant, PTL
-----------------------------------------------------------------------------
(* The replay cache *)

BlocksOK(blocks) == Len(blocks) \in 1..3 /\ DOMAIN blocks = 1..Len(blocks)

\* The store of Claude responses: what is counted is what is there, and each
\* record is younger than the ones before it.
StoreOK ==
  /\ remembered \in Nat
  /\ IsFiniteSet(DOMAIN replays)
  /\ \A k \in DOMAIN replays : BlocksOK(replays[k].blocks) /\ replays[k].stamp \in 1..remembered
  /\ bytes = TotalSize(replays, DOMAIN replays)

MessageFields == {"pc", "conversation", "left", "asked", "record", "sent", "thoughtless"}

MessagesOK ==
  /\ DOMAIN message = ClaudeRequests
  /\ \A r \in ClaudeRequests : message[r].pc # "none" => DOMAIN message[r] = MessageFields

ReplayIInv == StoreOK /\ MessagesOK
-----------------------------------------------------------------------------

USE ReplayAssumption

\* The blocks of finitely many records can be counted.
LEMMA SizeFacts ==
  ASSUME NEW saved, NEW keys, IsFiniteSet(keys),
         \A k \in keys : BlocksOK(saved[k].blocks)
  PROVE  LET all == StoredBlocks(saved, keys)
         IN  /\ IsFiniteSet(all) /\ Cardinality(all) \in Nat
             /\ TotalSize(saved, keys) = 4 * Cardinality(all)
             /\ TotalSize(saved, keys) \in Nat
<1> DEFINE all == StoredBlocks(saved, keys)
<1>1. ASSUME NEW k \in keys PROVE DOMAIN saved[k].blocks \subseteq 1..3
  BY DEF BlocksOK
<1>2. ASSUME NEW x \in all PROVE x \in keys \X (1..3)
  <2>1. PICK k \in keys : x \in {k} \X DOMAIN saved[k].blocks
    BY DEF StoredBlocks
  <2> QED
    BY <2>1, <1>1
<1>3. IsFiniteSet(keys \X (1..3))
  <2>1. IsFiniteSet(1..3)
    BY 1 \in Int, 3 \in Int, FS_Interval
  <2> QED
    BY <2>1, FS_Product
<1>4. all \in SUBSET (keys \X (1..3))
  BY <1>2
<1> HIDE DEF all
<1>5. IsFiniteSet(all) /\ Cardinality(all) \in Nat
  BY <1>3, <1>4, FS_Subset, FS_CardinalityType
<1>6. TotalSize(saved, keys) = 4 * Cardinality(all)
  BY DEF TotalSize, BlockSize, all
<1> QED
  BY <1>5, <1>6 DEF all

\* The records of two sets of keys count for both sets.
LEMMA SizeOfParts ==
  ASSUME NEW saved, NEW S, NEW T, IsFiniteSet(S), IsFiniteSet(T), S \intersect T = {},
         \A k \in S \union T : BlocksOK(saved[k].blocks)
  PROVE  TotalSize(saved, S \union T) = TotalSize(saved, S) + TotalSize(saved, T)
<1> DEFINE all(keys) == StoredBlocks(saved, keys)
<1>1. \A x : x \in all(S \union T) <=> x \in all(S) \/ x \in all(T)
  BY DEF StoredBlocks
<1>2. ASSUME NEW x \in all(S) PROVE x \notin all(T)
  BY DEF StoredBlocks
<1>3. all(S \union T) = all(S) \union all(T) /\ all(S) \intersect all(T) = {}
  <2> HIDE DEF all
  <2> QED
    BY <1>1, <1>2
<1>4. /\ IsFiniteSet(all(S)) /\ Cardinality(all(S)) \in Nat
      /\ TotalSize(saved, S) = 4 * Cardinality(all(S))
  BY SizeFacts
<1>5. /\ IsFiniteSet(all(T)) /\ Cardinality(all(T)) \in Nat
      /\ TotalSize(saved, T) = 4 * Cardinality(all(T))
  BY SizeFacts
<1>6. TotalSize(saved, S \union T) = 4 * Cardinality(all(S \union T))
  BY DEF TotalSize, BlockSize
<1>7. Cardinality(all(S) \union all(T)) = Cardinality(all(S)) + Cardinality(all(T))
  <2>1. Cardinality(all(S) \intersect all(T)) = 0
    BY <1>3, FS_EmptySet
  <2>2. /\ Cardinality(all(S) \union all(T)) =
             Cardinality(all(S)) + Cardinality(all(T)) - Cardinality(all(S) \intersect all(T))
    BY <1>4, <1>5, FS_Union
  <2> QED
    BY <1>4, <1>5, <2>1, <2>2
<1>8. \A a, b \in Nat : 4 * (a + b) = 4 * a + 4 * b
  OBVIOUS
<1>9. TotalSize(saved, S \union T) = 4 * (Cardinality(all(S)) + Cardinality(all(T)))
  BY <1>3, <1>6, <1>7
<1> HIDE DEF all
<1> QED
  BY <1>4, <1>5, <1>8, <1>9

\* Records with the same blocks count the same.
LEMMA SizeOfSame ==
  ASSUME NEW saved, NEW others, NEW keys,
         \A k \in keys : saved[k].blocks = others[k].blocks
  PROVE  TotalSize(saved, keys) = TotalSize(others, keys)
<1>1. StoredBlocks(saved, keys) = StoredBlocks(others, keys)
  BY DEF StoredBlocks
<1> QED
  BY <1>1 DEF TotalSize

\* One record counts for its blocks.
LEMMA SizeOfOne ==
  ASSUME NEW saved, NEW key, BlocksOK(saved[key].blocks)
  PROVE  /\ TotalSize(saved, {key}) = ReplayContentSize(saved[key].blocks)
         /\ ReplayContentSize(saved[key].blocks) \in 0..12
<1> DEFINE n == Len(saved[key].blocks)
<1>1. n \in 1..3 /\ DOMAIN saved[key].blocks = 1..n
  BY DEF BlocksOK
<1>2. StoredBlocks(saved, {key}) = {key} \X (1..n)
  BY <1>1 DEF StoredBlocks
<1> HIDE DEF n
<1>3. IsFiniteSet(1..n) /\ Cardinality(1..n) = n
  <2>1. n \in Int /\ 1 \in Int /\ ~(1 > n) /\ n - 1 + 1 = n
    BY <1>1
  <2> QED
    BY <2>1, FS_Interval
<1>4. IsFiniteSet({key}) /\ Cardinality({key}) = 1
  BY FS_Singleton
<1>5. Cardinality({key} \X (1..n)) = n
  <2>1. Cardinality({key} \X (1..n)) = Cardinality({key}) * Cardinality(1..n)
    BY <1>3, <1>4, FS_Product
  <2>2. 1 * n = n
    BY <1>1
  <2> QED
    BY <1>3, <1>4, <2>1, <2>2
<1>6. TotalSize(saved, {key}) = 4 * Cardinality({key} \X (1..n))
  BY <1>2 DEF TotalSize, BlockSize
<1>7. ReplayContentSize(saved[key].blocks) = 4 * n
  BY DEF ReplayContentSize, BlockSize, n
<1> QED
  BY <1>1, <1>5, <1>6, <1>7

\* Max and Min of two numbers.
LEMMA OfTwo ==
  ASSUME NEW m \in Nat, NEW n \in Nat
  PROVE  /\ Max({m, n}) = IF m >= n THEN m ELSE n
         /\ Min({m, n}) = IF m <= n THEN m ELSE n
<1>1. \E x \in {m, n} : \A y \in {m, n} : x >= y
  OBVIOUS
<1>2. Max({m, n}) \in {m, n} /\ \A y \in {m, n} : Max({m, n}) >= y
  BY <1>1 DEF Max
<1>3. \E x \in {m, n} : \A y \in {m, n} : x <= y
  OBVIOUS
<1>4. Min({m, n}) \in {m, n} /\ \A y \in {m, n} : Min({m, n}) <= y
  BY <1>3 DEF Min
<1> QED
  BY <1>2, <1>4

\* evictLocked: what goes is older than all that stays, and there would not be
\* room for it and what is newer; the newest record stays.
LEMMA EvictedFacts ==
  ASSUME NEW saved, NEW key \in DOMAIN saved, NEW total, IsFiniteSet(DOMAIN saved),
         \A k \in DOMAIN saved : BlocksOK(saved[k].blocks) /\ saved[k].stamp \in Nat,
         \A k \in DOMAIN saved \ {key} : saved[k].stamp < saved[key].stamp,
         total = TotalSize(saved, DOMAIN saved),
         ReplayContentSize(saved[key].blocks) <= MaxBytes
  PROVE  /\ key \notin Evicted(saved, total)
         /\ \A k \in Evicted(saved, total) :
              /\ k \in DOMAIN saved
              /\ \A j \in DOMAIN saved \ Evicted(saved, total) :
                   saved[j].stamp > saved[k].stamp
              /\ \/ /\ Cardinality(DOMAIN saved) > MaxEntries
                    /\ Cardinality(Newer(saved, k)) > MaxEntries - Max({1, MaxEntries \div 8})
                 \/ /\ total > MaxBytes
                    /\ TotalSize(saved, Newer(saved, k)) > MaxBytes - MaxBytes \div 16
<1> DEFINE count == Cardinality(DOMAIN saved)
           eighth == Max({1, MaxEntries \div 8})
           batch == Min({128, eighth})
           entryTarget == IF count > MaxEntries THEN MaxEntries - batch ELSE MaxEntries
           byteTarget == IF total > MaxBytes THEN MaxBytes - MaxBytes \div 16 ELSE MaxBytes
           Fits(kept) == /\ Cardinality(kept) <= entryTarget
                         /\ total - TotalSize(saved, DOMAIN saved \ kept) <= byteTarget
           fitting == {kept \in {Newer(saved, k) : k \in DOMAIN saved} : Fits(kept)}
           evicted == Evicted(saved, total)
<1>1. evicted = IF count <= MaxEntries /\ total <= MaxBytes THEN {}
                ELSE DOMAIN saved \ UNION fitting
  BY DEF Evicted
<1>2. /\ MaxEntries \in Nat /\ MaxEntries >= 2 /\ MaxBytes \in Nat
      /\ MaxEntries \div 8 \in Nat /\ MaxEntries \div 8 < MaxEntries
      /\ MaxBytes \div 16 \in Nat
      /\ \A n \in 0..12 : n <= MaxBytes => n <= MaxBytes - MaxBytes \div 16
  OBVIOUS
<1>3. /\ count \in Nat /\ total \in Nat
      /\ eighth \in Nat /\ eighth >= 1 /\ eighth < MaxEntries
      /\ batch \in Nat /\ batch >= 1 /\ batch <= eighth
  <2>1. count \in Nat
    BY FS_CardinalityType
  <2>2. total \in Nat
    BY SizeFacts
  <2>3. eighth = IF 1 >= MaxEntries \div 8 THEN 1 ELSE MaxEntries \div 8
    BY <1>2, OfTwo
  <2>4. eighth \in Nat /\ eighth >= 1 /\ eighth < MaxEntries
    BY <1>2, <2>3
  <2>5. batch = IF 128 <= eighth THEN 128 ELSE eighth
    <3> HIDE DEF eighth
    <3>1. 128 \in Nat /\ eighth \in Nat
      BY <2>4
    <3> QED
      BY <3>1, OfTwo
  <2> QED
    BY <2>1, <2>2, <2>4, <2>5
<1> HIDE DEF count, eighth, batch
<1>4. /\ entryTarget \in Nat /\ entryTarget >= 1
      /\ count > MaxEntries => entryTarget >= MaxEntries - eighth
      /\ ~(count > MaxEntries) => entryTarget >= count
  BY <1>2, <1>3
<1>5. /\ byteTarget \in Nat
      /\ total > MaxBytes => byteTarget = MaxBytes - MaxBytes \div 16
      /\ ~(total > MaxBytes) => byteTarget >= total
      /\ ReplayContentSize(saved[key].blocks) <= byteTarget
  <2>1. ReplayContentSize(saved[key].blocks) \in 0..12
    BY SizeOfOne
  <2>2. ReplayContentSize(saved[key].blocks) <= MaxBytes - MaxBytes \div 16
    BY <1>2, <2>1
  <2>3. 0 <= MaxBytes - MaxBytes \div 16
    BY <1>2
  <2> QED
    BY <1>2, <1>3, <2>1, <2>2, <2>3
<1> HIDE DEF entryTarget, byteTarget
\* What the records of one set leave to those of the rest.
<1>6. ASSUME NEW kept \in SUBSET DOMAIN saved
      PROVE  /\ total - TotalSize(saved, DOMAIN saved \ kept) = TotalSize(saved, kept)
             /\ Cardinality(kept) \in Nat /\ Cardinality(kept) <= count
             /\ TotalSize(saved, kept) \in Nat /\ TotalSize(saved, kept) <= total
  <2> DEFINE rest == DOMAIN saved \ kept
  <2>1. /\ IsFiniteSet(kept) /\ IsFiniteSet(rest) /\ kept \intersect rest = {}
        /\ kept \union rest = DOMAIN saved
        /\ Cardinality(kept) \in Nat /\ Cardinality(kept) <= count
    BY FS_Subset, FS_CardinalityType DEF count
  <2>2. total = TotalSize(saved, kept) + TotalSize(saved, rest)
    BY <2>1, SizeOfParts
  <2>3. TotalSize(saved, kept) \in Nat /\ TotalSize(saved, rest) \in Nat
    BY <2>1, SizeFacts
  <2> HIDE DEF rest
  <2>4. /\ total - TotalSize(saved, rest) = TotalSize(saved, kept)
        /\ TotalSize(saved, kept) <= total
    BY <2>2, <2>3
  <2> QED
    BY <2>1, <2>3, <2>4 DEF rest
<1>7. \A k \in DOMAIN saved : Newer(saved, k) \in SUBSET DOMAIN saved /\ k \in Newer(saved, k)
  BY DEF Newer
<1>8. key \notin evicted
  <2>1. Newer(saved, key) = {key}
    <3>1. \A j \in DOMAIN saved \ {key} : ~(saved[j].stamp >= saved[key].stamp)
      OBVIOUS
    <3> QED
      BY <1>7, <3>1 DEF Newer
  <2>2. Cardinality({key}) = 1
    BY FS_Singleton
  <2>3. TotalSize(saved, {key}) = ReplayContentSize(saved[key].blocks)
    BY SizeOfOne
  <2>4. Fits({key})
    BY <1>4, <1>5, <1>6, <2>2, <2>3
  <2> HIDE DEF Fits
  <2>5. {key} \in fitting
    BY <2>1, <2>4
  <2> QED
    BY <1>1, <2>5
<1>9. ASSUME NEW k \in evicted
      PROVE  /\ k \in DOMAIN saved /\ ~Fits(Newer(saved, k))
             /\ \A j \in DOMAIN saved \ evicted : saved[j].stamp > saved[k].stamp
  <2>1. evicted = DOMAIN saved \ UNION fitting /\ k \in DOMAIN saved
    BY <1>1, <1>9
  <2> HIDE DEF Fits, evicted
  <2>2. ~Fits(Newer(saved, k))
    <3>1. ASSUME Fits(Newer(saved, k)) PROVE FALSE
      <4>1. Newer(saved, k) \in fitting
        BY <2>1, <3>1
      <4> QED
        BY <2>1, <1>7, <1>9, <4>1
    <3> QED
      BY <3>1
  <2>3. ASSUME NEW j \in DOMAIN saved \ evicted
        PROVE  saved[j].stamp > saved[k].stamp
    <3>1. PICK i \in DOMAIN saved : Newer(saved, i) \in fitting /\ j \in Newer(saved, i)
      BY <2>1
    <3>2. k \notin Newer(saved, i)
      BY <2>1, <1>9, <3>1
    <3>3. saved[j].stamp >= saved[i].stamp /\ ~(saved[k].stamp >= saved[i].stamp)
      BY <2>1, <3>1, <3>2 DEF Newer
    <3> QED
      BY <2>1, <3>3
  <2> QED
    BY <2>1, <2>2, <2>3
<1>10. ASSUME NEW k \in evicted
       PROVE  \/ /\ count > MaxEntries
                 /\ Cardinality(Newer(saved, k)) > MaxEntries - eighth
              \/ /\ total > MaxBytes
                 /\ TotalSize(saved, Newer(saved, k)) > MaxBytes - MaxBytes \div 16
  <2> DEFINE newer == Newer(saved, k)
             number == Cardinality(newer)
             size == TotalSize(saved, newer)
  <2>1. number \in Nat /\ number <= count /\ size \in Nat /\ size <= total
    BY <1>6, <1>7, <1>9
  <2>2. ~(number <= entryTarget) \/ ~(size <= byteTarget)
    BY <1>6, <1>7, <1>9
  <2> HIDE DEF number, size
  <2>3. \/ count > MaxEntries /\ number > MaxEntries - eighth
        \/ total > MaxBytes /\ size > MaxBytes - MaxBytes \div 16
    BY <2>1, <2>2, <1>2, <1>3, <1>4, <1>5
  <2> QED
    BY <2>3 DEF number, size
<1> QED
  BY <1>8, <1>9, <1>10 DEF count, eighth
-----------------------------------------------------------------------------

\* deleteLocked: the count stays that of the records.
LEMMA DeleteLockedOK ==
  ASSUME StoreOK, NEW keys, DeleteLocked(keys),
         remembered' = remembered \/ remembered' = remembered + 1
  PROVE  StoreOK' /\ DOMAIN replays' = DOMAIN replays \ keys
<1> DEFINE gone == keys \intersect DOMAIN replays
           left == DOMAIN replays \ keys
<1>1. /\ replays' = [k \in left |-> replays[k]]
      /\ bytes' = bytes - TotalSize(replays, gone)
  BY DEF DeleteLocked, Without
<1>2. /\ IsFiniteSet(left) /\ IsFiniteSet(gone) /\ left \intersect gone = {}
      /\ left \union gone = DOMAIN replays
      /\ \A k \in DOMAIN replays : BlocksOK(replays[k].blocks) /\ replays[k].stamp \in 1..remembered
      /\ bytes = TotalSize(replays, DOMAIN replays) /\ remembered \in Nat
  BY FS_Subset DEF StoreOK
<1>3. TotalSize(replays, DOMAIN replays) = TotalSize(replays, left) + TotalSize(replays, gone)
  BY <1>2, SizeOfParts
<1>4. TotalSize(replays, left) \in Nat /\ TotalSize(replays, gone) \in Nat
  BY <1>2, SizeFacts
<1>5. bytes' = TotalSize(replays, left)
  BY <1>1, <1>2, <1>3, <1>4
<1>6. DOMAIN replays' = left /\ \A k \in left : replays'[k] = replays[k]
  BY <1>1
<1>7. TotalSize(replays', left) = TotalSize(replays, left)
  BY <1>6, SizeOfSame
<1>8. /\ remembered' \in Nat
      /\ \A k \in left : replays[k].stamp \in 1..remembered'
  BY <1>2
<1>9. StoreOK'
  BY <1>2, <1>5, <1>6, <1>7, <1>8 DEF StoreOK
<1> QED
  BY <1>6, <1>9

\* Remember: the store stays counted, and a record goes for its own key's new
\* answer or because the store is full.
LEMMA RememberOK ==
  ASSUME StoreOK, NEW key, NEW blocks, BlocksOK(blocks), Remember(key, blocks)
  PROVE  /\ StoreOK'
         /\ \A k \in DOMAIN replays : k \notin DOMAIN replays' =>
              \/ /\ k = key
                 /\ Calls(blocks) = {} \/ ReplayContentSize(blocks) > MaxBytes
              \/ MustGo(k)
<1> DEFINE others == Without(replays, {key})
           new == [blocks |-> blocks, stamp |-> remembered + 1, expired |-> FALSE]
           stored == [k \in DOMAIN others \union {key} |-> IF k = key THEN new ELSE others[k]]
           old == {key} \intersect DOMAIN replays
           total == TotalSize(stored, {key}) + bytes - TotalSize(replays, old)
           evicted == Evicted(stored, total)
<1>1. /\ remembered \in Nat /\ remembered' = remembered + 1
      /\ remembered' \in Nat /\ remembered' >= remembered
      /\ IsFiniteSet(DOMAIN replays) /\ bytes = TotalSize(replays, DOMAIN replays)
      /\ \A k \in DOMAIN replays : BlocksOK(replays[k].blocks) /\ replays[k].stamp \in 1..remembered
  BY DEF Remember, StoreOK
<1>2. CASE Calls(blocks) = {} \/ ReplayContentSize(blocks) > MaxBytes
  <2>1. DeleteLocked({key})
    BY <1>2 DEF Remember
  <2>2. StoreOK' /\ DOMAIN replays' = DOMAIN replays \ {key}
    BY <1>1, <2>1, DeleteLockedOK
  <2> QED
    BY <1>2, <2>2
<1>3. CASE ~(Calls(blocks) = {} \/ ReplayContentSize(blocks) > MaxBytes)
  <2> DEFINE rest == DOMAIN replays \ {key}
  <2>1. /\ DOMAIN others = rest /\ \A k \in rest : others[k] = replays[k]
    BY DEF Without
  <2>2. /\ DOMAIN stored = rest \union {key} /\ stored[key] = new
        /\ \A k \in rest : stored[k] = replays[k]
    BY <2>1
  <2>3. new.blocks = blocks /\ new.stamp = remembered + 1
    OBVIOUS
  <2>4. replays' = Without(stored, evicted) /\ bytes' = total - TotalSize(stored, evicted)
    BY <1>3 DEF Remember
  <2> HIDE DEF others, new, stored
  <2>5. IsFiniteSet(rest) /\ IsFiniteSet(rest \union {key}) /\ IsFiniteSet({key}) /\ key \notin rest
    BY <1>1, FS_Subset, FS_AddElement, FS_Singleton
  <2>6. \A k \in rest \union {key} :
          BlocksOK(stored[k].blocks) /\ stored[k].stamp \in 1..remembered'
    <3>1. BlocksOK(stored[key].blocks) /\ stored[key].stamp \in 1..remembered'
      BY <1>1, <2>2, <2>3
    <3>2. ASSUME NEW k \in rest
          PROVE  BlocksOK(stored[k].blocks) /\ stored[k].stamp \in 1..remembered'
      BY <1>1, <2>2
    <3> QED
      BY <3>1, <3>2
  <2>7. total = TotalSize(stored, DOMAIN stored)
    <3>1. TotalSize(stored, rest \union {key}) = TotalSize(stored, rest) + TotalSize(stored, {key})
      BY <2>5, <2>6, SizeOfParts
    <3>2. TotalSize(stored, rest) = TotalSize(replays, rest)
      BY <2>2, SizeOfSame
    <3>3. TotalSize(replays, DOMAIN replays) = TotalSize(replays, rest) + TotalSize(replays, old)
      <4>1. rest \union old = DOMAIN replays /\ rest \intersect old = {} /\ IsFiniteSet(old)
        BY <1>1, FS_Subset
      <4> QED
        BY <4>1, <1>1, <2>5, SizeOfParts
    <3>4. /\ TotalSize(replays, rest) \in Nat /\ TotalSize(replays, old) \in Nat
          /\ TotalSize(stored, {key}) \in Nat
      <4>1. IsFiniteSet(old) /\ old \subseteq DOMAIN replays
        BY <1>1, FS_Subset
      <4> QED
        BY <4>1, <1>1, <2>5, <2>6, SizeFacts
    <3> QED
      BY <1>1, <2>2, <3>1, <3>2, <3>3, <3>4
  <2>8. /\ key \notin evicted
        /\ \A k \in evicted :
             /\ k \in DOMAIN stored
             /\ \A j \in DOMAIN stored \ evicted : stored[j].stamp > stored[k].stamp
             /\ \/ /\ Cardinality(DOMAIN stored) > MaxEntries
                   /\ Cardinality(Newer(stored, k)) > MaxEntries - Max({1, MaxEntries \div 8})
                \/ /\ total > MaxBytes
                   /\ TotalSize(stored, Newer(stored, k)) > MaxBytes - MaxBytes \div 16
    <3>1. key \in DOMAIN stored /\ IsFiniteSet(DOMAIN stored)
      BY <2>2, <2>5
    <3>2. \A k \in DOMAIN stored : BlocksOK(stored[k].blocks) /\ stored[k].stamp \in Nat
      BY <1>1, <2>2, <2>6
    <3>3. \A k \in DOMAIN stored \ {key} : stored[k].stamp < stored[key].stamp
      BY <1>1, <2>2, <2>3
    <3>4. ReplayContentSize(stored[key].blocks) <= MaxBytes
      <4>1. ReplayContentSize(blocks) \in 0..12
        BY <2>2, <2>3, SizeOfOne
      <4> QED
        BY <1>3, <2>2, <2>3, <4>1
    <3> QED
      BY <2>7, <3>1, <3>2, <3>3, <3>4, EvictedFacts
  <2> HIDE DEF total, evicted
  <2> DEFINE left == DOMAIN stored \ evicted
  <2>9. DOMAIN replays' = left /\ \A k \in left : replays'[k] = stored[k]
    BY <2>4 DEF Without
  <2>10. StoreOK'
    <3>1. /\ evicted \subseteq DOMAIN stored /\ IsFiniteSet(left) /\ IsFiniteSet(evicted)
          /\ left \union evicted = DOMAIN stored /\ left \intersect evicted = {}
      BY <2>2, <2>5, <2>8, FS_Subset
    <3>2. total = TotalSize(stored, left) + TotalSize(stored, evicted)
      BY <2>2, <2>6, <2>7, <3>1, SizeOfParts
    <3>3. TotalSize(stored, left) \in Nat /\ TotalSize(stored, evicted) \in Nat
      BY <2>2, <2>6, <3>1, SizeFacts
    <3>4. bytes' = TotalSize(stored, left)
      BY <2>4, <3>2, <3>3
    <3>5. TotalSize(replays', left) = TotalSize(stored, left)
      BY <2>9, SizeOfSame
    <3>6. \A k \in left : BlocksOK(replays'[k].blocks) /\ replays'[k].stamp \in 1..remembered'
      BY <2>2, <2>6, <2>9
    <3> HIDE DEF left
    <3> QED
      BY <1>1, <2>9, <3>1, <3>4, <3>5, <3>6 DEF StoreOK
  <2>11. ASSUME NEW k \in DOMAIN replays, k \notin DOMAIN replays' PROVE MustGo(k)
    <3> DEFINE all == [j \in DOMAIN replays \union left |->
                         IF j \in left THEN replays'[j] ELSE replays[j]]
    <3>1. k \in evicted /\ k # key
      BY <2>2, <2>8, <2>9, <2>11
    <3>2. DOMAIN replays \union left = DOMAIN stored
      BY <2>2, <2>8
    <3>3. \A j \in DOMAIN stored : all[j] = stored[j]
      BY <2>2, <2>8, <2>9, <3>2
    <3>4. DOMAIN all = DOMAIN stored
      BY <3>2
    <3> HIDE DEF all
    <3>5. {j \in DOMAIN all : all[j].stamp >= all[k].stamp} = Newer(stored, k)
      BY <2>8, <3>1, <3>3, <3>4 DEF Newer
    <3>6. \A j \in left : all[j].stamp > all[k].stamp
      BY <2>8, <3>1, <3>3
    <3>7. /\ TotalSize(all, DOMAIN all) = total
          /\ TotalSize(all, Newer(stored, k)) = TotalSize(stored, Newer(stored, k))
      <4>1. TotalSize(all, DOMAIN stored) = TotalSize(stored, DOMAIN stored)
        BY <3>3, SizeOfSame
      <4>2. \A j \in Newer(stored, k) : all[j].blocks = stored[j].blocks
        BY <3>3 DEF Newer
      <4> QED
        BY <2>7, <3>4, <4>1, <4>2, SizeOfSame
    <3>8. \/ /\ Cardinality(DOMAIN all) > MaxEntries
             /\ Cardinality(Newer(stored, k)) > MaxEntries - Max({1, MaxEntries \div 8})
          \/ /\ TotalSize(all, DOMAIN all) > MaxBytes
             /\ TotalSize(all, Newer(stored, k)) > MaxBytes - MaxBytes \div 16
      BY <2>8, <3>1, <3>4, <3>7
    <3> HIDE DEF left
    <3>9. DOMAIN replays' = left
      BY <2>9
    <3> QED
      BY <3>5, <3>6, <3>8, <3>9 DEF MustGo, all
  <2> QED
    BY <2>10, <2>11
<1> QED
  BY <1>2, <1>3
-----------------------------------------------------------------------------
(* The steps *)

\* A record that has not expired goes in a step only as ReplayKept allows.
KeptInStep == \A key \in Valid : key \notin DOMAIN replays' =>
  \/ key = MainKey /\ \E r \in ClaudeRequests : message[r].pc = "sent" /\ message'[r] # message[r]
  \/ key \in OtherKeys /\ Outgrown(key)
  \/ MustGo(key)

\* A response has one to three blocks.
LEMMA PlansOK ==
  ASSUME NEW n, NEW blocks \in BlockPlans(n)
  PROVE  BlocksOK(blocks)
BY DEF BlockPlans, BlocksOK

\* A step that leaves the store alone.
LEMMA StoreUnchanged ==
  ASSUME StoreOK, UNCHANGED <<replays, bytes, remembered>>
  PROVE  StoreOK' /\ KeptInStep
<1>1. StoreOK'
  BY DEF StoreOK
<1>2. KeptInStep
  BY DEF KeptInStep, Valid
<1> QED
  BY <1>1, <1>2

\* A step that changes one request.
LEMMA MessageKept ==
  ASSUME MessagesOK, NEW r \in ClaudeRequests, NEW m, message' = [message EXCEPT ![r] = m],
         m.pc # "none" => DOMAIN m = MessageFields
  PROVE  MessagesOK'
BY DEF MessagesOK

\* A step without a request.
LEMMA MessagesUnchanged ==
  ASSUME MessagesOK, UNCHANGED message
  PROVE  MessagesOK'
BY DEF MessagesOK

\* A sweep deletes only what has expired.
LEMMA SweepReplaysOK ==
  ASSUME ReplayIInv, SweepReplays
  PROVE  ReplayIInv' /\ KeptInStep
<1>1. /\ DeleteLocked(DOMAIN replays \ Valid) /\ remembered' = remembered
      /\ StoreOK /\ MessagesOK /\ message' = message
  BY DEF SweepReplays, ReplayIInv, StoreOK
<1>2. StoreOK' /\ DOMAIN replays' = DOMAIN replays \ (DOMAIN replays \ Valid)
  BY <1>1, DeleteLockedOK
<1>3. KeptInStep
  BY <1>2 DEF KeptInStep, Valid
<1> QED
  BY <1>1, <1>2, <1>3, MessagesUnchanged DEF ReplayIInv

\* The response of another key.
LEMMA RememberOtherOK ==
  ASSUME ReplayIInv, NEW key \in OtherKeys, RememberOther(key)
  PROVE  ReplayIInv' /\ KeptInStep
<1>1. PICK blocks \in BlockPlans(0) : Calls(blocks) # {} /\ Remember(key, blocks)
  BY DEF RememberOther
<1>2. BlocksOK(blocks)
  BY PlansOK
<1>3. /\ StoreOK'
      /\ \A k \in DOMAIN replays : k \notin DOMAIN replays' =>
           \/ /\ k = key
              /\ Calls(blocks) = {} \/ ReplayContentSize(blocks) > MaxBytes
           \/ MustGo(k)
  BY <1>1, <1>2, RememberOK DEF ReplayIInv
<1>4. KeptInStep
  <2> SUFFICES ASSUME NEW k \in Valid, k \notin DOMAIN replays'
               PROVE  (k \in OtherKeys /\ Outgrown(k)) \/ MustGo(k)
    BY DEF KeptInStep
  <2>1. k \in DOMAIN replays
    BY DEF Valid
  <2> QED
    BY <1>1, <1>3, <2>1 DEF Outgrown
<1>5. MessagesOK'
  BY MessagesUnchanged DEF ReplayIInv, RememberOther
<1> QED
  BY <1>3, <1>4, <1>5 DEF ReplayIInv

\* A record that expires stays until somebody looks.
LEMMA LapseOK ==
  ASSUME ReplayIInv, NEW key, Lapse(key)
  PROVE  ReplayIInv' /\ KeptInStep
<1>1. /\ replays' = [replays EXCEPT ![key].expired = TRUE]
      /\ UNCHANGED <<bytes, answers, remembered, message>> /\ key \in DOMAIN replays
  BY DEF Lapse, Valid
<1>2. DOMAIN replays' = DOMAIN replays
  BY <1>1
<1>3. \A k \in DOMAIN replays : /\ replays'[k].blocks = replays[k].blocks
                                /\ replays'[k].stamp = replays[k].stamp
  BY <1>1
<1>4. TotalSize(replays', DOMAIN replays) = TotalSize(replays, DOMAIN replays)
  BY <1>3, SizeOfSame
<1>5. StoreOK'
  BY <1>1, <1>2, <1>3, <1>4 DEF StoreOK, ReplayIInv, BlocksOK
<1>6. KeptInStep
  BY <1>2 DEF KeptInStep, Valid
<1> QED
  BY <1>1, <1>5, <1>6, MessagesUnchanged DEF ReplayIInv

\* A request that comes only reads the store.
LEMMA AskClaudeOK ==
  ASSUME ReplayIInv, NEW r \in ClaudeRequests, AskClaude(r)
  PROVE  ReplayIInv' /\ KeptInStep
<1>1. PICK conversation, asked, left : Get(r, conversation, asked, left)
  BY DEF AskClaude
<1>2. UNCHANGED <<replays, bytes, answers, remembered>>
  BY DEF AskClaude
<1> DEFINE found == IF MainKey \in DOMAIN replays THEN replays[MainKey] ELSE NoRecord
           m == [pc |-> IF found.expired THEN "expired" ELSE "sent",
                 conversation |-> conversation, left |-> left, asked |-> asked,
                 record |-> IF found.expired THEN <<>> ELSE found.blocks,
                 sent |-> IF found.expired THEN asked ELSE Apply(asked, found),
                 thoughtless |-> FALSE]
<1>3. message' = [message EXCEPT ![r] = m]
  BY <1>1 DEF Get
<1>4. MessagesOK'
  <2>1. DOMAIN m = MessageFields
    BY DEF MessageFields
  <2> HIDE DEF m
  <2> QED
    BY <1>3, <2>1, MessageKept DEF ReplayIInv
<1> QED
  BY <1>2, <1>4, StoreUnchanged DEF ReplayIInv

\* get looks again under its lock: what is fresh stays.
LEMMA DropExpiredOK ==
  ASSUME ReplayIInv, NEW r \in ClaudeRequests, DropExpired(r)
  PROVE  ReplayIInv' /\ KeptInStep
<1>1. /\ DeleteLocked({MainKey} \ Valid) /\ remembered' = remembered
      /\ StoreOK /\ MessagesOK /\ message[r].pc = "expired"
      /\ message' = [message EXCEPT ![r].pc = "sent"]
  BY DEF DropExpired, ReplayIInv, StoreOK
<1>2. StoreOK' /\ DOMAIN replays' = DOMAIN replays \ ({MainKey} \ Valid)
  BY <1>1, DeleteLockedOK
<1>3. KeptInStep
  BY <1>2 DEF KeptInStep, Valid
<1>4. DOMAIN message[r] = MessageFields /\ DOMAIN message = ClaudeRequests
  BY <1>1 DEF MessagesOK
<1>5. MessagesOK'
  BY <1>1, <1>4 DEF MessagesOK
<1> QED
  BY <1>2, <1>3, <1>5 DEF ReplayIInv

\* A rejected signature deletes the record of its own key.
LEMMA RejectThinkingOK ==
  ASSUME ReplayIInv, NEW r \in ClaudeRequests, RejectThinking(r)
  PROVE  ReplayIInv' /\ KeptInStep
<1> DEFINE sanitized == WithoutThinking(message[r].sent)
<1>1. /\ DeleteLocked({MainKey}) /\ remembered' = remembered
      /\ StoreOK /\ MessagesOK /\ message[r].pc = "sent" /\ sanitized # message[r].sent
      /\ message' = [message EXCEPT ![r].sent = sanitized, ![r].thoughtless = TRUE]
  BY DEF RejectThinking, ReplayIInv, StoreOK
<1> HIDE DEF sanitized
<1>2. StoreOK' /\ DOMAIN replays' = DOMAIN replays \ {MainKey}
  BY <1>1, DeleteLockedOK
<1>3. DOMAIN message[r] = MessageFields /\ DOMAIN message = ClaudeRequests
  BY <1>1 DEF MessagesOK
<1>4. message'[r].sent = sanitized /\ DOMAIN message'[r] = MessageFields
  BY <1>1, <1>3 DEF MessageFields
<1>5. KeptInStep
  BY <1>1, <1>2, <1>4 DEF KeptInStep, Valid
<1>6. MessagesOK'
  BY <1>1, <1>4 DEF MessagesOK
<1> QED
  BY <1>2, <1>5, <1>6 DEF ReplayIInv

\* A request that fails leaves the store alone.
LEMMA AnswerFailsOK ==
  ASSUME ReplayIInv, NEW r \in ClaudeRequests, AnswerFails(r)
  PROVE  ReplayIInv' /\ KeptInStep
<1>1. message' = [message EXCEPT ![r] = IdleMessage] /\ IdleMessage.pc = "none"
  BY DEF AnswerFails, IdleMessage
<1>2. MessagesOK'
  BY <1>1, MessageKept DEF ReplayIInv
<1> QED
  BY <1>2, StoreUnchanged DEF AnswerFails, ReplayIInv

\* An answer replaces the record of its own key.
LEMMA AnswerOK ==
  ASSUME ReplayIInv, NEW r \in ClaudeRequests, Answer(r)
  PROVE  ReplayIInv' /\ KeptInStep
<1>1. PICK blocks \in BlockPlans(Len(answers) + 1) : Remember(MainKey, blocks)
  BY DEF Answer
<1>2. BlocksOK(blocks)
  BY PlansOK
<1>3. /\ StoreOK'
      /\ \A k \in DOMAIN replays : k \notin DOMAIN replays' => k = MainKey \/ MustGo(k)
  BY <1>1, <1>2, RememberOK DEF ReplayIInv
<1>4. /\ message' = [message EXCEPT ![r] = IdleMessage] /\ IdleMessage.pc = "none"
      /\ message[r].pc = "sent"
  BY DEF Answer, IdleMessage
<1>5. MessagesOK'
  BY <1>4, MessageKept DEF ReplayIInv
<1>6. message'[r] # message[r]
  BY <1>4 DEF ReplayIInv, MessagesOK
<1>7. KeptInStep
  BY <1>3, <1>4, <1>6 DEF KeptInStep, Valid
<1> QED
  BY <1>3, <1>5, <1>7 DEF ReplayIInv
-----------------------------------------------------------------------------
(* The theorems *)

\* The store is empty at first.
LEMMA ReplayInitOK ==
  ASSUME ReplayInit
  PROVE  ReplayIInv
<1>1. /\ replays = <<>> /\ bytes = 0 /\ remembered = 0
      /\ message = [r \in ClaudeRequests |-> IdleMessage]
  BY DEF ReplayInit
<1>2. DOMAIN replays = {}
  BY <1>1
<1>3. TotalSize(replays, {}) = 0
  <2>1. StoredBlocks(replays, {}) = {}
    BY DEF StoredBlocks
  <2> QED
    BY <2>1, FS_EmptySet DEF TotalSize, BlockSize
<1>4. StoreOK
  BY <1>1, <1>2, <1>3, FS_EmptySet DEF StoreOK
<1>5. MessagesOK
  BY <1>1 DEF MessagesOK, IdleMessage
<1> QED
  BY <1>4, <1>5 DEF ReplayIInv

\* Every step keeps the invariant, and each record as promised.
LEMMA ReplayNextOK ==
  ASSUME ReplayIInv, [ReplayNext]_replayVars
  PROVE  ReplayIInv' /\ KeptInStep
<1>1. CASE UNCHANGED replayVars
  BY <1>1, StoreUnchanged, MessagesUnchanged DEF replayVars, ReplayIInv
<1>2. CASE SweepReplays
  BY <1>2, SweepReplaysOK
<1>3. ASSUME NEW key \in OtherKeys, RememberOther(key) PROVE ReplayIInv' /\ KeptInStep
  BY <1>3, RememberOtherOK
<1>4. ASSUME NEW key \in OtherKeys \union {MainKey}, Lapse(key) PROVE ReplayIInv' /\ KeptInStep
  BY <1>4, LapseOK
<1>5. ASSUME NEW r \in ClaudeRequests,
             AskClaude(r) \/ DropExpired(r) \/ RejectThinking(r) \/ AnswerFails(r) \/ Answer(r)
      PROVE  ReplayIInv' /\ KeptInStep
  BY <1>5, AskClaudeOK, DropExpiredOK, RejectThinkingOK, AnswerFailsOK, AnswerOK
<1> QED
  BY <1>1, <1>2, <1>3, <1>4, <1>5 DEF ReplayNext

\* The inductive invariant of the replay cache: its count of bytes is what it holds.
THEOREM ReplayInvariant == ReplaySpec => []ReplayIInv
<1>1. ReplayInit => ReplayIInv
  BY ReplayInitOK
<1>2. ReplayIInv /\ [ReplayNext]_replayVars => ReplayIInv'
  BY ReplayNextOK
<1> QED
  BY <1>1, <1>2, PTL DEF ReplaySpec

\* A fresh record of the replay cache goes only for a new answer or a rejected
\* signature of its own key, or as the oldest of a full store.
THEOREM RecordsAreKept == ReplaySpec => ReplayKept
<1>1. ReplayIInv /\ [ReplayNext]_replayVars =>
        [\A key \in Valid : key \notin DOMAIN replays' =>
           \/ key = MainKey /\ \E r \in ClaudeRequests :
                message[r].pc = "sent" /\ message'[r] # message[r]
           \/ key \in OtherKeys /\ Outgrown(key)
           \/ MustGo(key)]_replayVars
  BY ReplayNextOK DEF KeptInStep
<1> QED
  BY <1>1, ReplayInvariant, PTL DEF ReplaySpec, ReplayKept
=============================================================================
