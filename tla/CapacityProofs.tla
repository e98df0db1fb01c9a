--------------------------- MODULE CapacityProofs ---------------------------
(***************************************************************************)
(* Proofs about the capacity coordinator for every set of accounts, every  *)
(* finite set of callers and every limit: the invariant of Capacity.tla is *)
(* inductive, callers are served in order, a closed coordinator grants     *)
(* nothing, and the coordinator implements FifoSlots.tla.                  *)
(***************************************************************************)
EXTENDS Capacity, FiniteSetTheorems, SequenceTheorems, TLAPS

USE DEF PCs

\* The elements of a sequence are pairwise different.
Distinct(s) == \A i, j \in 1..Len(s) : s[i] = s[j] => i = j

InQueue(c, s) == Position(c, s) # {}

-----------------------------------------------------------------------------
(* The three operations on a queue. *)

\* Appending a caller that is not queued adds it and nobody else.
LEMMA AppendQueue ==
  ASSUME NEW s \in Seq(Callers), NEW c \in Callers, Distinct(s), ~InQueue(c, s)
  PROVE  /\ Append(s, c) \in Seq(Callers)
         /\ Append(s, c) # <<>>
         /\ Distinct(Append(s, c))
         /\ \A d : InQueue(d, Append(s, c)) <=> InQueue(d, s) \/ d = c
<1> DEFINE t == Append(s, c)
<1>1. /\ t \in Seq(Callers) /\ t # <<>>
      /\ Len(t) = Len(s) + 1
      /\ \A i \in 1..Len(s) : t[i] = s[i]
      /\ t[Len(s) + 1] = c
  BY AppendProperties
<1>2. Len(s) \in Nat
  BY LenProperties
<1> HIDE DEF t
<1>3. \A i \in 1..Len(s) : s[i] # c
  BY DEF InQueue, Position
<1>4. Distinct(t)
  BY <1>1, <1>2, <1>3 DEF Distinct
<1>5. \A d : InQueue(d, t) <=> InQueue(d, s) \/ d = c
  BY <1>1, <1>2 DEF InQueue, Position
<1> QED BY <1>1, <1>4, <1>5 DEF t

\* Taking the head of a queue removes the head and nobody else.
LEMMA TailQueue ==
  ASSUME NEW s \in Seq(Callers), s # <<>>, Distinct(s)
  PROVE  /\ Head(s) \in Callers
         /\ Tail(s) \in Seq(Callers)
         /\ InQueue(Head(s), s)
         /\ Distinct(Tail(s))
         /\ \A d : InQueue(d, Tail(s)) <=> InQueue(d, s) /\ d # Head(s)
<1> DEFINE t == Tail(s)
           h == Head(s)
<1>1. /\ h \in Callers /\ t \in Seq(Callers)
      /\ Len(t) = Len(s) - 1
      /\ \A i \in 1..Len(t) : t[i] = s[i + 1]
  BY HeadTailProperties
<1>2. Len(s) \in Nat /\ Len(s) # 0 /\ h = s[1]
  BY LenProperties, EmptySeq
<1> HIDE DEF t, h
<1>3. InQueue(h, s)
  BY <1>2 DEF InQueue, Position
<1>4. Distinct(t)
  BY <1>1, <1>2 DEF Distinct
<1>5. ASSUME NEW d, InQueue(d, t)
      PROVE  InQueue(d, s) /\ d # h
  <2>1. PICK i \in 1..Len(t) : t[i] = d
    BY <1>5 DEF InQueue, Position
  <2>2. i + 1 \in 1..Len(s) /\ s[i + 1] = d /\ i + 1 # 1
    BY <1>1, <1>2, <2>1
  <2> QED BY <1>2, <2>2 DEF InQueue, Position, Distinct
<1>6. ASSUME NEW d, InQueue(d, s), d # h
      PROVE  InQueue(d, t)
  <2>1. PICK i \in 1..Len(s) : s[i] = d
    BY <1>6 DEF InQueue, Position
  <2>2. i - 1 \in 1..Len(t) /\ t[i - 1] = d
    BY <1>1, <1>2, <1>6, <2>1
  <2> QED BY <2>2 DEF InQueue, Position
<1> QED BY <1>1, <1>3, <1>4, <1>5, <1>6 DEF t, h

\* Removing the i-th waiter removes that caller and nobody else.
LEMMA WithoutQueue ==
  ASSUME NEW s \in Seq(Callers), NEW i \in 1..Len(s), Distinct(s)
  PROVE  /\ Without(s, i) \in Seq(Callers)
         /\ Distinct(Without(s, i))
         /\ \A d : InQueue(d, Without(s, i)) <=> InQueue(d, s) /\ d # s[i]
<1> DEFINE t == Without(s, i)
<1>1. Len(s) \in Nat /\ s \in [1..Len(s) -> Callers]
  BY LenProperties
<1>2. /\ Len(t) = Len(s) - 1
      /\ \A j \in 1..Len(t) : t[j] = IF j < i THEN s[j] ELSE s[j + 1]
  BY <1>1 DEF Without
<1>3. t \in Seq(Callers)
  <2>1. t \in [1..(Len(s) - 1) -> Callers]
    BY <1>1 DEF Without
  <2> QED BY <1>1, <2>1
<1> HIDE DEF t
<1>4. Distinct(t)
  BY <1>1, <1>2 DEF Distinct
<1>5. ASSUME NEW d, InQueue(d, t)
      PROVE  InQueue(d, s) /\ d # s[i]
  <2>1. PICK j \in 1..Len(t) : t[j] = d
    BY <1>5 DEF InQueue, Position
  <2>2. PICK k \in 1..Len(s) : s[k] = d /\ k # i
    BY <1>1, <1>2, <2>1
  <2> QED BY <2>2 DEF InQueue, Position, Distinct
<1>6. ASSUME NEW d, InQueue(d, s), d # s[i]
      PROVE  InQueue(d, t)
  <2>1. PICK k \in 1..Len(s) : s[k] = d /\ k # i
    BY <1>6 DEF InQueue, Position
  <2>2. PICK j \in 1..Len(t) : t[j] = d
    <3>1. CASE k < i
      BY <1>1, <1>2, <2>1, <3>1
    <3>2. CASE k > i
      <4>1. k - 1 \in 1..Len(t) /\ t[k - 1] = s[k]
        BY <1>1, <1>2, <3>2
      <4> QED BY <2>1, <4>1
    <3> QED BY <2>1, <3>1, <3>2
  <2> QED BY <2>2 DEF InQueue, Position
<1> QED BY <1>3, <1>4, <1>5, <1>6 DEF t

-----------------------------------------------------------------------------
(* The invariant. *)

\* The owners of a slot can be counted.
LEMMA OwnersFinite == \A a : IsFiniteSet(Owners(a)) /\ Cardinality(Owners(a)) \in Nat
<1>1. TAKE a
<1>2. Owners(a) \in SUBSET Callers
  BY DEF Owners
<1>3. IsFiniteSet(Owners(a))
  BY <1>2, CallersFinite, FS_Subset
<1> QED BY <1>3, FS_CardinalityType

\* No slot is taken at first.
LEMMA InitIInv == Init => IInv
<1> SUFFICES ASSUME Init PROVE IInv
  OBVIOUS
<1> USE DEF Init
<1>1. TypeOK
  <2>1. <<>> \in Seq(Callers)
    OBVIOUS
  <2>2. waiters \in [Accounts -> Seq(Callers)]
    BY <2>1
  <2>3. 0 \in 0..Limit
    BY LimitAssumption
  <2>4. active \in [Accounts -> 0..Limit]
    BY <2>3
  <2> QED BY <2>2, <2>4 DEF TypeOK
<1>2. SlotAccounting
  <2>1. \A a \in Accounts : Owners(a) = {}
    BY DEF Owners, Owns
  <2> QED BY <2>1, FS_EmptySet DEF SlotAccounting
<1>3. QueueExact
  BY DEF QueueExact, Position
<1>4. NoIdleSlot /\ NoEntryLeak /\ WokenForAReason /\ NoStrayCancel
  BY DEF NoIdleSlot, NoEntryLeak, WokenForAReason, NoStrayCancel
<1> QED BY <1>1, <1>2, <1>3, <1>4 DEF IInv

\* A free slot taken at once, by either call.
LEMMA TakeFreeSlotStep ==
  ASSUME IInv, NEW c \in Callers, NEW a \in Accounts,
         CanAsk(c), HasCapacity(a), TakeFreeSlot(c, a)
  PROVE  IInv' /\ Owners(a)' = Owners(a) \union {c}
               /\ \A b \in Accounts \ {a} : Owners(b)' = Owners(b)
<1> USE DEF IInv, TypeOK, CanAsk, HasCapacity, TakeFreeSlot
<1>1. TypeOK'
  <2>1. active[a] + 1 \in 0..Limit
    BY LimitAssumption
  <2>2. active' \in [Accounts -> 0..Limit]
    BY <2>1
  <2>3. "holding" \in PCs
    BY DEF PCs
  <2>4. pc' \in [Callers -> PCs] /\ acct' \in [Callers -> Accounts \union {NoAccount}]
    BY <2>3
  <2> QED BY <2>2, <2>4
<1>2. Owners(a)' = Owners(a) \union {c} /\ c \notin Owners(a)
  BY DEF Owners, Owns
<1>3. \A b \in Accounts \ {a} : Owners(b)' = Owners(b)
  BY DEF Owners, Owns
<1>4. SlotAccounting'
  <2>1. Cardinality(Owners(a) \union {c}) = Cardinality(Owners(a)) + 1
    BY <1>2, OwnersFinite, FS_AddElement
  <2> QED BY <1>2, <1>3, <2>1 DEF SlotAccounting
<1>5. QueueExact'
  BY DEF QueueExact, Position, WokenForAReason
<1>6. NoIdleSlot'
  BY DEF NoIdleSlot
<1>7. NoEntryLeak'
  BY LimitAssumption DEF NoEntryLeak
<1>8. WokenForAReason' /\ NoStrayCancel'
  BY DEF WokenForAReason, NoStrayCancel
<1> QED BY <1>1, <1>2, <1>3, <1>4, <1>5, <1>6, <1>7, <1>8

\* A refused or turned away call leaves every slot and queue alone.
LEMMA RefusedStep ==
  ASSUME IInv, NEW c \in Callers, NEW a \in Accounts, CanAsk(c),
         pc' = [pc EXCEPT ![c] = "idle"], acct' = [acct EXCEPT ![c] = NoAccount],
         UNCHANGED <<closed, active, waiters, ready, granted>>,
         \/ closed /\ UNCHANGED entries
         \/ ~HasCapacity(a) /\ entries' = entries \union {a}
  PROVE  IInv' /\ \A b \in Accounts : Owners(b)' = Owners(b)
<1> USE DEF IInv, TypeOK, CanAsk, HasCapacity
<1>1. TypeOK'
  OBVIOUS
<1>2. \A b \in Accounts : Owners(b)' = Owners(b)
  BY DEF Owners, Owns
<1>3. SlotAccounting'
  BY <1>2 DEF SlotAccounting
<1>4. QueueExact'
  BY DEF QueueExact, Position, WokenForAReason
<1>5. NoIdleSlot' /\ WokenForAReason' /\ NoStrayCancel'
  BY DEF NoIdleSlot, WokenForAReason, NoStrayCancel
<1>6. NoEntryLeak'
  <2>1. CASE closed
    BY <2>1 DEF NoEntryLeak
  <2>2. CASE ~closed
    <3>1. active[a] > 0 \/ waiters[a] # <<>>
      BY <2>2, LimitAssumption
    <3> QED BY <2>2, <3>1 DEF NoEntryLeak
  <2> QED BY <2>1, <2>2
<1> QED BY <1>1, <1>2, <1>3, <1>4, <1>5, <1>6

\* A caller that has to queue.
LEMMA EnqueueStep ==
  ASSUME IInv, NEW c \in Callers, NEW a \in Accounts,
         CanAsk(c), ~closed, ~HasCapacity(a),
         waiters' = [waiters EXCEPT ![a] = Append(@, c)],
         entries' = entries \union {a},
         pc' = [pc EXCEPT ![c] = "waiting"],
         acct' = [acct EXCEPT ![c] = a],
         UNCHANGED <<closed, active, ready, granted>>
  PROVE  IInv' /\ active[a] = Limit /\ \A b \in Accounts : Owners(b)' = Owners(b)
<1> USE DEF IInv, TypeOK, CanAsk, HasCapacity
<1>1. /\ c \notin ready /\ c \notin granted
      /\ \A b \in Accounts : ~InQueue(c, waiters[b])
  BY DEF WokenForAReason, QueueExact, InQueue
<1>2. \A b \in Accounts : waiters[b] \in Seq(Callers) /\ Distinct(waiters[b])
  BY DEF QueueExact, Distinct
<1>3. /\ waiters'[a] \in Seq(Callers) /\ waiters'[a] # <<>> /\ Distinct(waiters'[a])
      /\ \A d : InQueue(d, waiters'[a]) <=> InQueue(d, waiters[a]) \/ d = c
  BY <1>1, <1>2, AppendQueue
<1>4. \A b \in Accounts \ {a} : waiters'[b] = waiters[b]
  OBVIOUS
<1>5. TypeOK'
  BY <1>3
<1>6. \A b \in Accounts : Owners(b)' = Owners(b)
  BY <1>1 DEF Owners, Owns
<1>7. SlotAccounting'
  BY <1>6 DEF SlotAccounting
<1>8. active[a] = Limit
  BY LimitAssumption DEF NoIdleSlot
<1>9. NoIdleSlot'
  BY <1>4, <1>8 DEF NoIdleSlot
<1>10. NoEntryLeak'
  BY <1>3, <1>4 DEF NoEntryLeak
<1>11. WokenForAReason' /\ NoStrayCancel'
  BY <1>1 DEF WokenForAReason, NoStrayCancel
<1>12. QueueExact'
  <2> SUFFICES ASSUME NEW b \in Accounts
               PROVE  /\ \A d \in Callers : InQueue(d, waiters'[b])
                           <=> acct'[d] = b /\ pc'[d] = "waiting" /\ d \notin ready'
                      /\ Distinct(waiters'[b])
    BY DEF QueueExact, InQueue, Distinct, Position
  <2>1. \A d \in Callers : InQueue(d, waiters[b])
                             <=> acct[d] = b /\ pc[d] = "waiting" /\ d \notin ready
    BY DEF QueueExact, InQueue
  <2>2. CASE b = a
    BY <1>1, <1>3, <2>1, <2>2
  <2>3. CASE b # a
    BY <1>1, <1>2, <1>4, <2>1, <2>3
  <2> QED BY <2>2, <2>3
<1> QED BY <1>5, <1>6, <1>7, <1>8, <1>9, <1>10, <1>11, <1>12

\* A granted waiter picks up its slot, from either case of the select.
LEMMA PickUpStep ==
  ASSUME IInv, NEW c \in Callers, pc[c] = "waiting", c \in granted,
         pc' = [pc EXCEPT ![c] = "holding"],
         ready' = ready \ {c}, granted' = granted \ {c},
         UNCHANGED <<closed, entries, active, waiters, acct>>
  PROVE  IInv' /\ \A b \in Accounts : Owners(b)' = Owners(b)
<1> USE DEF IInv, TypeOK
<1>1. c \in ready
  OBVIOUS
<1>2. TypeOK'
  OBVIOUS
<1>3. \A b \in Accounts : Owners(b)' = Owners(b)
  BY DEF Owners, Owns
<1>4. SlotAccounting'
  BY <1>3 DEF SlotAccounting
<1>5. QueueExact'
  BY <1>1 DEF QueueExact, Position
<1>6. NoIdleSlot' /\ NoEntryLeak' /\ WokenForAReason' /\ NoStrayCancel'
  BY DEF NoIdleSlot, NoEntryLeak, WokenForAReason, NoStrayCancel
<1> QED BY <1>2, <1>3, <1>4, <1>5, <1>6

\* A waiter that owns nothing and is in no queue goes away; the entries may
\* lose a key that is not in use.
LEMMA TurnedAwayStep ==
  ASSUME IInv, NEW c \in Callers, pc[c] = "waiting", c \notin granted,
         \A b \in Accounts : ~InQueue(c, waiters[b]),
         pc' = [pc EXCEPT ![c] = "idle"], acct' = [acct EXCEPT ![c] = NoAccount],
         ready' = ready \ {c}, granted' = granted \ {c},
         UNCHANGED <<closed, active, waiters>>,
         NEW a \in Accounts,
         entries' = entries \/ entries' = CleanupLocked(a, active[a], waiters[a])
  PROVE  IInv' /\ \A b \in Accounts : Owners(b)' = Owners(b)
<1> USE DEF IInv, TypeOK
<1>1. TypeOK'
  BY DEF CleanupLocked
<1>2. \A b \in Accounts : Owners(b)' = Owners(b)
  BY DEF Owners, Owns
<1>3. SlotAccounting'
  BY <1>2 DEF SlotAccounting
<1>4. QueueExact'
  BY NoAccountAssumption DEF QueueExact, Position, InQueue
<1>5. NoEntryLeak'
  BY DEF NoEntryLeak, CleanupLocked
<1>6. NoIdleSlot' /\ WokenForAReason' /\ NoStrayCancel'
  BY DEF NoIdleSlot, WokenForAReason, NoStrayCancel
<1> QED BY <1>1, <1>2, <1>3, <1>4, <1>5, <1>6

\* A queued caller whose context ends leaves the queue.
LEMMA LeaveQueueStep ==
  ASSUME IInv, NEW c \in Callers, pc[c] = "waiting", c \notin granted,
         NEW a \in Accounts, a = acct[c], NEW i \in Position(c, waiters[a]),
         waiters' = [waiters EXCEPT ![a] = Without(@, i)],
         entries' = CleanupLocked(a, active[a], Without(waiters[a], i)),
         pc' = [pc EXCEPT ![c] = "idle"], acct' = [acct EXCEPT ![c] = NoAccount],
         ready' = ready \ {c}, granted' = granted \ {c},
         UNCHANGED <<closed, active>>
  PROVE  IInv' /\ \A b \in Accounts : Owners(b)' = Owners(b)
<1> USE DEF IInv, TypeOK
<1>1. i \in 1..Len(waiters[a]) /\ waiters[a][i] = c /\ waiters[a] # <<>>
  BY DEF Position
<1>2. \A b \in Accounts : waiters[b] \in Seq(Callers) /\ Distinct(waiters[b])
  BY DEF QueueExact, Distinct
<1>3. /\ waiters'[a] \in Seq(Callers) /\ Distinct(waiters'[a])
      /\ \A d : InQueue(d, waiters'[a]) <=> InQueue(d, waiters[a]) /\ d # c
  BY <1>1, <1>2, WithoutQueue
<1>4. \A b \in Accounts \ {a} : waiters'[b] = waiters[b]
  OBVIOUS
<1>5. TypeOK'
  BY <1>3 DEF CleanupLocked
<1>6. \A b \in Accounts : Owners(b)' = Owners(b)
  BY DEF Owners, Owns
<1>7. SlotAccounting'
  BY <1>6 DEF SlotAccounting
<1>8. active[a] = Limit /\ ~closed
  BY <1>1 DEF NoIdleSlot
<1>9. NoIdleSlot'
  BY <1>4, <1>8 DEF NoIdleSlot
<1>10. NoEntryLeak'
  BY <1>4, <1>8, LimitAssumption DEF NoEntryLeak, CleanupLocked
<1>11. WokenForAReason' /\ NoStrayCancel'
  BY DEF WokenForAReason, NoStrayCancel
<1>12. QueueExact'
  <2> SUFFICES ASSUME NEW b \in Accounts
               PROVE  /\ \A d \in Callers : InQueue(d, waiters'[b])
                           <=> acct'[d] = b /\ pc'[d] = "waiting" /\ d \notin ready'
                      /\ Distinct(waiters'[b])
    BY DEF QueueExact, InQueue, Distinct, Position
  <2>1. \A d \in Callers : InQueue(d, waiters[b])
                             <=> acct[d] = b /\ pc[d] = "waiting" /\ d \notin ready
    BY DEF QueueExact, InQueue
  <2>2. CASE b = a
    BY <1>3, <2>1, <2>2
  <2>3. CASE b # a
    BY <1>2, <1>4, <2>1, <2>3
  <2> QED BY <2>2, <2>3
<1> QED BY <1>5, <1>6, <1>7, <1>9, <1>10, <1>11, <1>12

\* Whoever holds a slot is counted.
LEMMA HolderCounted ==
  ASSUME IInv, NEW c \in Callers, pc[c] = "holding"
  PROVE  acct[c] \in Accounts /\ c \in Owners(acct[c]) /\ active[acct[c]] > 0
<1>1. acct[c] \in Accounts
  BY DEF IInv, WokenForAReason
<1>2. c \in Owners(acct[c])
  BY DEF Owners, Owns
<1>3. Cardinality(Owners(acct[c])) # 0
  BY <1>2, OwnersFinite, FS_EmptySet
<1> QED BY <1>1, <1>2, <1>3, OwnersFinite DEF IInv, SlotAccounting

\* A released slot passes to the head of the queue.
LEMMA HandOverStep ==
  ASSUME IInv, NEW c \in Callers, pc[c] = "holding", NEW a \in Accounts, a = acct[c],
         ~closed, waiters[a] # <<>>,
         waiters' = [waiters EXCEPT ![a] = Tail(@)],
         ready' = ready \union {Head(waiters[a])},
         granted' = granted \union {Head(waiters[a])},
         pc' = [pc EXCEPT ![c] = "spent"],
         UNCHANGED <<closed, entries, active, acct>>
  PROVE  /\ IInv'
         /\ Owners(a)' = (Owners(a) \ {c}) \union {Head(waiters[a])}
         /\ \A b \in Accounts \ {a} : Owners(b)' = Owners(b)
<1> DEFINE h == Head(waiters[a])
<1> USE DEF IInv, TypeOK
<1>1. \A b \in Accounts : waiters[b] \in Seq(Callers) /\ Distinct(waiters[b])
  BY DEF QueueExact, Distinct
<1>2. /\ h \in Callers /\ InQueue(h, waiters[a])
      /\ waiters'[a] \in Seq(Callers) /\ Distinct(waiters'[a])
      /\ \A d : InQueue(d, waiters'[a]) <=> InQueue(d, waiters[a]) /\ d # h
  BY <1>1, TailQueue
<1> HIDE DEF h
<1>3. acct[h] = a /\ pc[h] = "waiting" /\ h \notin ready /\ h \notin granted /\ h # c
  BY <1>2 DEF QueueExact, InQueue
<1>4. ready' = ready \union {h} /\ granted' = granted \union {h}
  BY DEF h
<1>5. \A b \in Accounts \ {a} : waiters'[b] = waiters[b]
  OBVIOUS
<1>6. TypeOK'
  BY <1>2, <1>4
<1>7. Owners(a)' = (Owners(a) \ {c}) \union {h}
  BY <1>2, <1>3, <1>4 DEF Owners, Owns
<1>8. \A b \in Accounts \ {a} : Owners(b)' = Owners(b)
  BY <1>3, <1>4 DEF Owners, Owns
<1>9. SlotAccounting'
  <2>1. c \in Owners(a) /\ h \notin Owners(a)
    BY <1>3 DEF Owners, Owns
  <2>2. /\ IsFiniteSet(Owners(a) \ {c})
        /\ Cardinality(Owners(a) \ {c}) = Cardinality(Owners(a)) - 1
    BY <2>1, OwnersFinite, FS_RemoveElement
  <2>3. Cardinality(Owners(a)') = Cardinality(Owners(a)) - 1 + 1
    <3>1. h \notin Owners(a) \ {c}
      BY <2>1
    <3>2. Cardinality((Owners(a) \ {c}) \union {h}) = Cardinality(Owners(a) \ {c}) + 1
      BY <2>2, <3>1, FS_AddElement
    <3> QED BY <1>7, <2>2, <3>2
  <2>4. Cardinality(Owners(a)') = Cardinality(Owners(a))
    BY <2>3, OwnersFinite
  <2> QED BY <1>8, <2>4 DEF SlotAccounting
<1>10. active[a] = Limit
  BY DEF NoIdleSlot
<1>11. NoIdleSlot'
  BY <1>5, <1>10 DEF NoIdleSlot
<1>12. NoEntryLeak'
  BY <1>5, <1>10, LimitAssumption DEF NoEntryLeak
<1>13. WokenForAReason' /\ NoStrayCancel'
  BY <1>3, <1>4 DEF WokenForAReason, NoStrayCancel
<1>14. QueueExact'
  <2> SUFFICES ASSUME NEW b \in Accounts
               PROVE  /\ \A d \in Callers : InQueue(d, waiters'[b])
                           <=> acct'[d] = b /\ pc'[d] = "waiting" /\ d \notin ready'
                      /\ Distinct(waiters'[b])
    BY DEF QueueExact, InQueue, Distinct, Position
  <2>1. \A d \in Callers : InQueue(d, waiters[b])
                             <=> acct[d] = b /\ pc[d] = "waiting" /\ d \notin ready
    BY DEF QueueExact, InQueue
  <2>2. CASE b = a
    BY <1>2, <1>4, <2>1, <2>2
  <2>3. CASE b # a
    BY <1>1, <1>3, <1>4, <1>5, <2>1, <2>3
  <2> QED BY <2>2, <2>3
<1> QED BY <1>6, <1>7, <1>8, <1>9, <1>11, <1>12, <1>13, <1>14 DEF h

\* A released slot becomes free.
LEMMA FreeSlotStep ==
  ASSUME IInv, NEW c \in Callers, pc[c] = "holding", NEW a \in Accounts, a = acct[c],
         closed \/ waiters[a] = <<>> \/ active[a] - 1 >= Limit,
         active' = [active EXCEPT ![a] = @ - 1],
         entries' = CleanupLocked(a, active[a] - 1, waiters[a]),
         pc' = [pc EXCEPT ![c] = "spent"],
         UNCHANGED <<closed, waiters, acct, ready, granted>>
  PROVE  /\ IInv' /\ waiters[a] = <<>>
         /\ Owners(a)' = Owners(a) \ {c}
         /\ \A b \in Accounts \ {a} : Owners(b)' = Owners(b)
<1> USE DEF IInv, TypeOK
<1>1. c \in Owners(a) /\ active[a] > 0
  BY HolderCounted
<1>2. waiters[a] = <<>>
  BY LimitAssumption DEF NoIdleSlot
<1>3. TypeOK'
  BY <1>1, LimitAssumption DEF CleanupLocked
<1>4. Owners(a)' = Owners(a) \ {c}
  BY DEF Owners, Owns
<1>5. \A b \in Accounts \ {a} : Owners(b)' = Owners(b)
  BY DEF Owners, Owns
<1>6. SlotAccounting'
  <2>1. Cardinality(Owners(a) \ {c}) = Cardinality(Owners(a)) - 1
    BY <1>1, OwnersFinite, FS_RemoveElement
  <2> QED BY <1>4, <1>5, <2>1 DEF SlotAccounting
<1>7. QueueExact'
  BY DEF QueueExact, Position
<1>8. NoIdleSlot'
  BY <1>2 DEF NoIdleSlot
<1>9. NoEntryLeak'
  BY <1>1, <1>2, LimitAssumption DEF NoEntryLeak, CleanupLocked
<1>10. WokenForAReason' /\ NoStrayCancel'
  BY DEF WokenForAReason, NoStrayCancel
<1> QED BY <1>2, <1>3, <1>4, <1>5, <1>6, <1>7, <1>8, <1>9, <1>10

\* A second call of a release function.
LEMMA ReleaseAgainStep ==
  ASSUME IInv, NEW c \in Callers, pc[c] = "spent", pc' = [pc EXCEPT ![c] = "spent"],
         UNCHANGED <<closed, entries, active, waiters, acct, ready, granted>>
  PROVE  UNCHANGED vars
BY DEF vars, IInv, TypeOK

\* A coordinator that is closed answers everyone who waits.
LEMMA CloseStep ==
  ASSUME IInv, Close
  PROVE  /\ IInv'
         /\ waiters' = [a \in Accounts |-> <<>>]
         /\ \A b \in Accounts : Owners(b)' = Owners(b)
<1> USE DEF IInv, TypeOK, Close
<1>1. waiters' = [a \in Accounts |-> <<>>]
  BY DEF NoEntryLeak
<1>2. ready' = ready \union {c \in Callers : pc[c] = "waiting" /\ c \notin ready}
  <2>1. \A c \in Callers : (\E a \in entries : Position(c, waiters[a]) # {})
                             <=> pc[c] = "waiting" /\ c \notin ready
    <3> TAKE c \in Callers
    <3>1. ASSUME NEW a \in entries, Position(c, waiters[a]) # {}
          PROVE  pc[c] = "waiting" /\ c \notin ready
      BY <3>1 DEF QueueExact
    <3>2. ASSUME pc[c] = "waiting", c \notin ready
          PROVE  \E a \in entries : Position(c, waiters[a]) # {}
      <4>1. acct[c] \in Accounts /\ Position(c, waiters[acct[c]]) # {}
        BY <3>2 DEF QueueExact, WokenForAReason
      <4>2. waiters[acct[c]] # <<>>
        BY <4>1 DEF Position
      <4> QED BY <4>1, <4>2 DEF NoEntryLeak
    <3> QED BY <3>1, <3>2
  <2> QED BY <2>1
<1>3. TypeOK'
  BY <1>1, <1>2, EmptySeq
<1>4. \A b \in Accounts : Owners(b)' = Owners(b)
  BY DEF Owners, Owns
<1>5. SlotAccounting'
  BY <1>4 DEF SlotAccounting
<1>6. QueueExact'
  BY <1>1, <1>2 DEF QueueExact, Position, WokenForAReason
<1>7. NoIdleSlot'
  BY <1>1 DEF NoIdleSlot
<1>8. NoEntryLeak'
  BY <1>1 DEF NoEntryLeak
<1>9. WokenForAReason' /\ NoStrayCancel'
  BY <1>2 DEF WokenForAReason, NoStrayCancel
<1> QED BY <1>1, <1>3, <1>4, <1>5, <1>6, <1>7, <1>8, <1>9

-----------------------------------------------------------------------------
(* One step of the coordinator, whole: it keeps the invariant and is a step *)
(* or a stutter of the abstract slot service.                               *)

\* FifoSlots and Capacity each extend FiniteSets: it is the same Cardinality.
LEMMA SameCardinality == \A S : Slots!Cardinality(S) = Cardinality(S)
BY DEF Slots!Cardinality, Cardinality

\* What an abstract step has to say about a caller that newly asks.
LEMMA AskerAbsent ==
  ASSUME IInv, NEW c \in Callers, CanAsk(c)
  PROVE  Slots!Absent(c)
BY DEF IInv, TypeOK, CanAsk, Slots!Absent, Owners, Owns, QueueExact, Position

\* A slot that is free is taken at once.
LEMMA TakeFreeSlotRefines ==
  ASSUME IInv, NEW c \in Callers, NEW a \in Accounts,
         CanAsk(c), HasCapacity(a), TakeFreeSlot(c, a)
  PROVE  Slots!Enter(c, a)
<1>1. /\ Owners(a)' = Owners(a) \union {c}
      /\ \A b \in Accounts \ {a} : Owners(b)' = Owners(b)
  BY TakeFreeSlotStep
<1>2. Cardinality(Owners(a)) < Limit
  BY DEF IInv, SlotAccounting, HasCapacity
<1>3. [b \in Accounts |-> Owners(b)]'
        = [[b \in Accounts |-> Owners(b)] EXCEPT ![a] = @ \union {c}]
  BY <1>1
<1> QED BY <1>2, <1>3, AskerAbsent, SameCardinality DEF Slots!Enter, HasCapacity, TakeFreeSlot

\* Who finds none waits at the end of its queue.
LEMMA EnqueueRefines ==
  ASSUME IInv, NEW c \in Callers, NEW a \in Accounts,
         CanAsk(c), ~closed, ~HasCapacity(a),
         waiters' = [waiters EXCEPT ![a] = Append(@, c)],
         entries' = entries \union {a},
         pc' = [pc EXCEPT ![c] = "waiting"],
         acct' = [acct EXCEPT ![c] = a],
         UNCHANGED <<closed, active, ready, granted>>
  PROVE  Slots!Join(c, a)
<1>1. active[a] = Limit /\ \A b \in Accounts : Owners(b)' = Owners(b)
  BY EnqueueStep
<1>2. Cardinality(Owners(a)) = Limit
  BY <1>1 DEF IInv, SlotAccounting
<1> QED BY <1>1, <1>2, AskerAbsent, SameCardinality DEF Slots!Join

\* A caller that is canceled leaves the queue.
LEMMA LeaveQueueRefines ==
  ASSUME IInv, NEW c \in Callers, pc[c] = "waiting", c \notin granted,
         NEW a \in Accounts, a = acct[c], NEW i \in Position(c, waiters[a]),
         waiters' = [waiters EXCEPT ![a] = Without(@, i)],
         entries' = CleanupLocked(a, active[a], Without(waiters[a], i)),
         pc' = [pc EXCEPT ![c] = "idle"], acct' = [acct EXCEPT ![c] = NoAccount],
         ready' = ready \ {c}, granted' = granted \ {c},
         UNCHANGED <<closed, active>>
  PROVE  \E k \in 1..Len(waiters[a]) : Slots!Leave(a, k)
<1>1. \A b \in Accounts : Owners(b)' = Owners(b)
  BY LeaveQueueStep
<1>2. i \in 1..Len(waiters[a])
  BY DEF Position
<1>3. Slots!Leave(a, i)
  BY <1>1, <1>2 DEF Slots!Leave, Without
<1> QED BY <1>2, <1>3

\* A slot that is given back goes to the first who waits.
LEMMA HandOverRefines ==
  ASSUME IInv, NEW c \in Callers, pc[c] = "holding", NEW a \in Accounts, a = acct[c],
         ~closed, waiters[a] # <<>>,
         waiters' = [waiters EXCEPT ![a] = Tail(@)],
         ready' = ready \union {Head(waiters[a])},
         granted' = granted \union {Head(waiters[a])},
         pc' = [pc EXCEPT ![c] = "spent"],
         UNCHANGED <<closed, entries, active, acct>>
  PROVE  Slots!Free(c, a)
<1>1. /\ Owners(a)' = (Owners(a) \ {c}) \union {Head(waiters[a])}
      /\ \A b \in Accounts \ {a} : Owners(b)' = Owners(b)
  BY HandOverStep
<1>2. [b \in Accounts |-> Owners(b)]'
        = [[b \in Accounts |-> Owners(b)] EXCEPT ![a] = (@ \ {c}) \union {Head(waiters[a])}]
  BY <1>1
<1> QED BY <1>2, HolderCounted DEF Slots!Free

\* Or it becomes free, when nobody waits.
LEMMA FreeSlotRefines ==
  ASSUME IInv, NEW c \in Callers, pc[c] = "holding", NEW a \in Accounts, a = acct[c],
         closed \/ waiters[a] = <<>> \/ active[a] - 1 >= Limit,
         active' = [active EXCEPT ![a] = @ - 1],
         entries' = CleanupLocked(a, active[a] - 1, waiters[a]),
         pc' = [pc EXCEPT ![c] = "spent"],
         UNCHANGED <<closed, waiters, acct, ready, granted>>
  PROVE  Slots!Free(c, a)
<1>1. /\ waiters[a] = <<>> /\ Owners(a)' = Owners(a) \ {c}
      /\ \A b \in Accounts \ {a} : Owners(b)' = Owners(b)
  BY FreeSlotStep
<1>2. [b \in Accounts |-> Owners(b)]' = [[b \in Accounts |-> Owners(b)] EXCEPT ![a] = @ \ {c}]
  BY <1>1
<1> QED BY <1>1, <1>2, HolderCounted DEF Slots!Free

\* Every step of the coordinator keeps the invariant and is allowed by the
\* abstract service; the proof has one case per way an action can end.
THEOREM StepCorrect ==
  ASSUME IInv, [Next]_vars
  PROVE  IInv' /\ [Slots!Next]_Slots!vars
<1>1. ASSUME NEW c \in Callers, NEW a \in Accounts, TryAcquire(c, a) \/ Acquire(c, a)
      PROVE  IInv' /\ [Slots!Next]_Slots!vars
  <2>1. CanAsk(c)
    BY <1>1 DEF TryAcquire, Acquire
  <2>2. CASE HasCapacity(a) /\ TakeFreeSlot(c, a)
    BY <2>1, <2>2, TakeFreeSlotStep, TakeFreeSlotRefines DEF Slots!Next
  <2>3. CASE /\ pc' = [pc EXCEPT ![c] = "idle"] /\ acct' = [acct EXCEPT ![c] = NoAccount]
             /\ UNCHANGED <<closed, active, waiters, ready, granted>>
             /\ \/ closed /\ UNCHANGED entries
                \/ ~HasCapacity(a) /\ entries' = entries \union {a}
    BY <2>1, <2>3, RefusedStep DEF Slots!vars
  <2>4. CASE /\ ~closed /\ ~HasCapacity(a)
             /\ waiters' = [waiters EXCEPT ![a] = Append(@, c)]
             /\ entries' = entries \union {a}
             /\ pc' = [pc EXCEPT ![c] = "waiting"]
             /\ acct' = [acct EXCEPT ![c] = a]
             /\ UNCHANGED <<closed, active, ready, granted>>
    BY <2>1, <2>4, EnqueueStep, EnqueueRefines DEF Slots!Next
  <2> QED BY <1>1, <2>2, <2>3, <2>4 DEF TryAcquire, Acquire
<1>2. ASSUME NEW c \in Callers, pc[c] = "waiting", c \in granted,
             pc' = [pc EXCEPT ![c] = "holding"],
             ready' = ready \ {c}, granted' = granted \ {c},
             UNCHANGED <<closed, entries, active, waiters, acct>>
      PROVE  IInv' /\ [Slots!Next]_Slots!vars
  BY <1>2, PickUpStep DEF Slots!vars
<1>3. ASSUME NEW c \in Callers, Wake(c)
      PROVE  IInv' /\ [Slots!Next]_Slots!vars
  <2>1. CASE c \in granted
    BY <1>2, <1>3, <2>1 DEF Wake
  <2>2. CASE c \notin granted
    <3>1. closed /\ pc[c] = "waiting" /\ acct[c] \in Accounts
      BY <1>3, <2>2 DEF Wake, IInv, WokenForAReason
    <3>2. \A b \in Accounts : ~InQueue(c, waiters[b])
      BY <3>1 DEF IInv, NoIdleSlot, InQueue, Position
    <3>3. /\ pc' = [pc EXCEPT ![c] = "idle"] /\ acct' = [acct EXCEPT ![c] = NoAccount]
          /\ ready' = ready \ {c} /\ granted' = granted \ {c}
          /\ UNCHANGED <<closed, entries, active, waiters>>
      BY <1>3, <2>2, <3>1 DEF Wake
    <3> QED BY <2>2, <3>1, <3>2, <3>3, TurnedAwayStep DEF Slots!vars
  <2> QED BY <2>1, <2>2
<1>4. ASSUME NEW c \in Callers, Cancel(c)
      PROVE  IInv' /\ [Slots!Next]_Slots!vars
  <2>1. CASE c \in granted
    BY <1>2, <1>4, <2>1 DEF Cancel
  <2>2. CASE c \notin granted
    <3> DEFINE a == acct[c]
    <3>1. a \in Accounts /\ pc[c] = "waiting"
      BY <1>4 DEF Cancel, IInv, WokenForAReason
    <3>2. /\ pc' = [pc EXCEPT ![c] = "idle"] /\ acct' = [acct EXCEPT ![c] = NoAccount]
          /\ ready' = ready \ {c} /\ granted' = granted \ {c}
          /\ UNCHANGED <<closed, active>>
      BY <1>4, <2>2 DEF Cancel
    <3>3. ASSUME NEW i \in Position(c, waiters[a]),
                 waiters' = [waiters EXCEPT ![a] = Without(@, i)],
                 entries' = CleanupLocked(a, active[a], Without(waiters[a], i))
          PROVE  IInv' /\ [Slots!Next]_Slots!vars
      <4>1. IInv'
        BY <2>2, <3>1, <3>2, <3>3, LeaveQueueStep
      <4>2. \E k \in 1..Len(waiters[a]) : Slots!Leave(a, k)
        BY <2>2, <3>1, <3>2, <3>3, LeaveQueueRefines
      <4> QED BY <3>1, <4>1, <4>2 DEF Slots!Next
    <3>4. CASE /\ Position(c, waiters[a]) = {}
               /\ entries' = CleanupLocked(a, active[a], waiters[a])
               /\ UNCHANGED waiters
      <4>1. \A b \in Accounts : ~InQueue(c, waiters[b])
        BY <3>1, <3>4 DEF IInv, QueueExact, InQueue
      <4> QED BY <2>2, <3>1, <3>2, <3>4, <4>1, TurnedAwayStep DEF Slots!vars
    <3> QED BY <1>4, <2>2, <3>3, <3>4 DEF Cancel
  <2> QED BY <2>1, <2>2
<1>5. ASSUME NEW c \in Callers, Release(c)
      PROVE  IInv' /\ [Slots!Next]_Slots!vars
  <2>1. CASE pc[c] = "holding"
    <3> DEFINE a == acct[c]
    <3>1. a \in Accounts /\ active[a] > 0
      BY <2>1, HolderCounted
    <3>2. pc' = [pc EXCEPT ![c] = "spent"] /\ UNCHANGED <<closed, acct>> /\ ReleaseSlot(a)
      BY <1>5, <2>1 DEF Release
    <3>3. CASE /\ ~closed /\ waiters[a] # <<>>
               /\ waiters' = [waiters EXCEPT ![a] = Tail(@)]
               /\ ready' = ready \union {Head(waiters[a])}
               /\ granted' = granted \union {Head(waiters[a])}
               /\ UNCHANGED <<entries, active>>
      <4>1. IInv'
        BY <2>1, <3>1, <3>2, <3>3, HandOverStep
      <4>2. Slots!Free(c, a)
        BY <2>1, <3>1, <3>2, <3>3, HandOverRefines
      <4> QED BY <3>1, <4>1, <4>2 DEF Slots!Next
    <3>4. CASE /\ closed \/ waiters[a] = <<>> \/ active[a] - 1 >= Limit
               /\ active' = [active EXCEPT ![a] = @ - 1]
               /\ entries' = CleanupLocked(a, active[a] - 1, waiters[a])
               /\ UNCHANGED <<waiters, ready, granted>>
      <4>1. IInv'
        BY <2>1, <3>1, <3>2, <3>4, FreeSlotStep
      <4>2. Slots!Free(c, a)
        BY <2>1, <3>1, <3>2, <3>4, FreeSlotRefines
      <4> QED BY <3>1, <4>1, <4>2 DEF Slots!Next
    <3> QED BY <3>1, <3>2, <3>3, <3>4 DEF ReleaseSlot
  <2>2. CASE pc[c] = "spent"
    <3>1. UNCHANGED vars
      BY <1>5, <2>2, ReleaseAgainStep DEF Release
    <3> QED BY <3>1 DEF vars, IInv, TypeOK, SlotAccounting, Owners, Owns, QueueExact,
                        Position, NoIdleSlot, NoEntryLeak, WokenForAReason, NoStrayCancel,
                        Slots!vars
  <2> QED BY <1>5, <2>1, <2>2 DEF Release
<1>6. ASSUME Close
      PROVE  IInv' /\ [Slots!Next]_Slots!vars
  <2>1. /\ IInv' /\ waiters' = [a \in Accounts |-> <<>>]
        /\ \A b \in Accounts : Owners(b)' = Owners(b)
    BY <1>6, CloseStep
  <2>2. Slots!Shut
    BY <1>6, <2>1 DEF Close, Slots!Shut
  <2> QED BY <2>1, <2>2 DEF Slots!Next
<1>7. CASE UNCHANGED vars
  BY <1>7 DEF vars, IInv, TypeOK, SlotAccounting, Owners, Owns, QueueExact,
              Position, NoIdleSlot, NoEntryLeak, WokenForAReason, NoStrayCancel, Slots!vars
<1> QED BY <1>1, <1>3, <1>4, <1>5, <1>6, <1>7 DEF Next

\* How the sets of owners may change in one step.
LEMMA OwnersStep ==
  ASSUME IInv, [Next]_vars, NEW a \in Accounts, NEW c \in Owners(a)' \ Owners(a)
  PROVE  ~closed /\ (waiters[a] = <<>> \/ c = Head(waiters[a]))
<1> DEFINE owners == [b \in Accounts |-> Owners(b)]
<1>1. [Slots!Next]_Slots!vars
  BY StepCorrect
<1>2. c \in owners'[a] /\ c \notin owners[a]
  OBVIOUS
<1>3. \A b \in Accounts : waiters[b] # <<>> => ~closed
  BY DEF IInv, NoIdleSlot
<1> HIDE DEF owners
<1>4. ASSUME NEW d \in Callers, NEW b \in Accounts, Slots!Enter(d, b)
      PROVE  ~closed /\ (waiters[a] = <<>> \/ c = Head(waiters[a]))
  <2>1. ~closed /\ waiters[b] = <<>> /\ owners' = [owners EXCEPT ![b] = @ \union {d}]
    BY <1>4 DEF Slots!Enter, owners
  <2>2. a = b
    BY <1>2, <2>1 DEF owners
  <2> QED BY <2>1, <2>2
<1>5. ASSUME NEW d \in Callers, NEW b \in Accounts, Slots!Free(d, b)
      PROVE  ~closed /\ (waiters[a] = <<>> \/ c = Head(waiters[a]))
  <2>1. CASE /\ waiters[b] # <<>>
             /\ owners' = [owners EXCEPT ![b] = (@ \ {d}) \union {Head(waiters[b])}]
    <3>1. a = b
      BY <1>2, <2>1 DEF owners
    <3>2. c \in (owners[a] \ {d}) \union {Head(waiters[a])}
      BY <1>2, <2>1, <3>1 DEF owners
    <3>3. c = Head(waiters[a])
      BY <1>2, <3>2
    <3> QED BY <1>3, <2>1, <3>1, <3>3
  <2>2. CASE owners' = [owners EXCEPT ![b] = @ \ {d}]
    BY <1>2, <2>2 DEF owners
  <2> QED BY <1>5, <2>1, <2>2 DEF Slots!Free, owners
<1>6. ASSUME owners' = owners
      PROVE  FALSE
  BY <1>2, <1>6
<1>7. ASSUME NEW d \in Callers, NEW b \in Accounts, Slots!Join(d, b)
      PROVE  owners' = owners
  BY <1>7 DEF Slots!Join, owners
<1>8. ASSUME NEW b \in Accounts, NEW i \in 1..Len(waiters[b]), Slots!Leave(b, i)
      PROVE  owners' = owners
  BY <1>8 DEF Slots!Leave, owners
<1>9. ASSUME Slots!Shut
      PROVE  owners' = owners
  BY <1>9 DEF Slots!Shut, owners
<1>10. ASSUME UNCHANGED Slots!vars
       PROVE  owners' = owners
  BY <1>10 DEF Slots!vars, owners
<1> QED BY <1>1, <1>4, <1>5, <1>6, <1>7, <1>8, <1>9, <1>10 DEF Slots!Next

-----------------------------------------------------------------------------
(* The theorems. *)

\* IInv holds in every reachable state, for every number of accounts and
\* callers and every limit (Acquire, TryAcquire, release and Close).
THEOREM Invariance == Spec => []IInv
<1>1. Init => IInv
  BY InitIInv
<1>2. IInv /\ [Next]_vars => IInv'
  BY StepCorrect
<1> QED BY <1>1, <1>2, PTL DEF Spec

\* No slot is leaked or counted twice: active is the number of owners.
THEOREM SlotsAccounted == Spec => []SlotAccounting
<1>1. IInv => SlotAccounting
  BY DEF IInv
<1> QED BY <1>1, Invariance, PTL

\* The queue of an account is exactly its unanswered callers.
THEOREM QueuesExact == Spec => []QueueExact
<1>1. IInv => QueueExact
  BY DEF IInv
<1> QED BY <1>1, Invariance, PTL

\* No slot stays idle behind a queue, and a closed coordinator has no queue.
THEOREM SlotsNotIdle == Spec => []NoIdleSlot
<1>1. IInv => NoIdleSlot
  BY DEF IInv
<1> QED BY <1>1, Invariance, PTL

\* The map of accounts holds exactly the accounts in use.
THEOREM EntriesExact == Spec => []NoEntryLeak
<1>1. IInv => NoEntryLeak
  BY DEF IInv
<1> QED BY <1>1, Invariance, PTL

\* Acquire's last return, context.Canceled, is dead code.
THEOREM StrayCancelUnreachable == Spec => []NoStrayCancel
<1>1. IInv => NoStrayCancel
  BY DEF IInv
<1> QED BY <1>1, Invariance, PTL

\* A caller that gains a slot of an account with a queue is the head of it.
THEOREM ServedInOrder == Spec => NoOvertaking
<1>1. IInv /\ [Next]_vars
        => [\A a \in Accounts : \A c \in Owners(a)' \ Owners(a) :
              waiters[a] = <<>> \/ c = Head(waiters[a])]_vars
  BY OwnersStep
<1> QED BY <1>1, Invariance, PTL DEF Spec, NoOvertaking

\* After Close nobody gains a slot.
THEOREM ClosedGrantsNothing == Spec => NoSlotAfterClose
<1>1. IInv /\ [Next]_vars
        => [closed => \A a \in Accounts : Owners(a)' \subseteq Owners(a)]_vars
  <2> SUFFICES ASSUME IInv, [Next]_vars, closed, NEW a \in Accounts, NEW c \in Owners(a)'
               PROVE  c \in Owners(a)
    OBVIOUS
  <2> QED BY OwnersStep
<1> QED BY <1>1, Invariance, PTL DEF Spec, NoSlotAfterClose

\* The coordinator implements the abstract slot service.
THEOREM Refinement == Spec => ImplementsFifoSlots
<1>1. Init => Slots!Init
  <2> SUFFICES ASSUME Init PROVE Slots!Init
    OBVIOUS
  <2>1. \A a \in Accounts : Owners(a) = {}
    BY DEF Init, Owners, Owns
  <2> QED BY <2>1 DEF Init, Slots!Init
<1>2. IInv /\ [Next]_vars => [Slots!Next]_Slots!vars
  BY StepCorrect
<1> QED BY <1>1, <1>2, Invariance, PTL DEF Spec, ImplementsFifoSlots, Slots!Spec

=============================================================================
