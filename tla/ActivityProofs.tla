--------------------------- MODULE ActivityProofs ---------------------------
(* Proofs about the two logs that MCActivity checks, Activity and Generations.
   Of Activity, for any requests, streams and bounds: a stream that is
   registered shows what the store has once its channel is received, it never
   tells of a request going back, and the pages of the log skip nothing.  Of
   Generations: what its record says of each attempt is what became of it.

   The events of a channel are coherent: each goes on from the one before it about
   the same request, and the first from what the client shows.  With every change
   of a record an event of it is put at the end, or the stream is closed. *)
EXTENDS Activity, Generations, FiniteSetTheorems, TLAPS

MaybeRecords == Records \union {None}

Events == [id: Ids, record: MaybeRecords]

Views == [Ids -> MaybeRecords]

\* Every event of a channel goes on from the one before it about the same request,
\* and the first from what the client shows.
Coherent(view, buffer) == \A n \in DOMAIN buffer :
  /\ (\A k \in DOMAIN buffer : k < n => buffer[k].id # buffer[n].id)
       => Forward(view[buffer[n].id], buffer[n].record)
  /\ \A m \in DOMAIN buffer :
       /\ m < n /\ buffer[m].id = buffer[n].id
       /\ \A k \in DOMAIN buffer : m < k /\ k < n => buffer[k].id # buffer[n].id
       => Forward(buffer[m].record, buffer[n].record)

SubStates == [state: {"off", "registered", "closed"}, buffer: Seq(Events), view: Views]

\* A stream, when these are the live records.
SubOK(t, recs) ==
  /\ t \in SubStates
  /\ Coherent(t.view, t.buffer)
  /\ t.state = "registered" => \A i \in Ids : Shows(t.view, t.buffer, i, recs[i])

\* The pages have covered the lines from the newest of the first page down to the
\* one that the cursor is at now.
PagerOK ==
  /\ lines \in Nat
  /\ pager \in [state: {"off", "paging", "done"}, offset: 0..lines,
                seen: SUBSET Nat, first: 0..lines]
  /\ pager.state = "off" => pager.offset = 0
  /\ pager.state = "paging" => (lines - pager.offset + 1)..pager.first \subseteq pager.seen
  /\ pager.state = "done" => 1..pager.first \subseteq pager.seen

\* Types of the live records, and of the requests in the middle of something.
RecordsOK == records \in Views /\ expired \subseteq Ids /\ writing \subseteq Ids

\* The inductive invariant.
IInv == /\ RecordsOK /\ PagerOK
        /\ subs \in [Subscribers -> SubStates]
        /\ \A s \in Subscribers : SubOK(subs[s], records)
-----------------------------------------------------------------------------

USE BoundsAssumption

\* A channel that is cut off.
LEMMA PrefixCoherent ==
  ASSUME NEW view \in Views, NEW b \in Seq(Events), NEW k \in 0..Len(b), Coherent(view, b)
  PROVE  SubSeq(b, 1, k) \in Seq(Events) /\ Coherent(view, SubSeq(b, 1, k))
<1> DEFINE c == SubSeq(b, 1, k)
<1>1. c \in Seq(Events) /\ Len(c) = k /\ \A n \in 1..k : c[n] = b[n]
  OBVIOUS
<1>2. DOMAIN c = 1..k /\ DOMAIN b = 1..Len(b) /\ k \in Nat /\ Len(b) \in Nat /\ k <= Len(b)
  BY <1>1
<1> HIDE DEF c
<1>3. ASSUME NEW n \in DOMAIN c
      PROVE  /\ n \in DOMAIN b /\ n \in Nat /\ c[n] = b[n]
             /\ \A m \in DOMAIN b : m < n => m \in DOMAIN c /\ c[m] = b[m]
  BY <1>1, <1>2
<1>4. Coherent(view, c)
  <2> SUFFICES ASSUME NEW n \in DOMAIN c
               PROVE  /\ (\A j \in DOMAIN c : j < n => c[j].id # c[n].id)
                           => Forward(view[c[n].id], c[n].record)
                      /\ \A m \in DOMAIN c :
                           /\ m < n /\ c[m].id = c[n].id
                           /\ \A j \in DOMAIN c : m < j /\ j < n => c[j].id # c[n].id
                           => Forward(c[m].record, c[n].record)
    BY DEF Coherent
  <2> QED
    BY <1>3 DEF Coherent
<1> QED
  BY <1>1, <1>4 DEF c

\* The next event reaches the client.
LEMMA ReceivedCoherent ==
  ASSUME NEW view \in Views, NEW b \in Seq(Events), b # <<>>, Coherent(view, b)
  PROVE  LET v == [view EXCEPT ![Head(b).id] = Head(b).record]
         IN  /\ Head(b) \in Events /\ Tail(b) \in Seq(Events) /\ v \in Views
             /\ Coherent(v, Tail(b))
             /\ Forward(view[Head(b).id], Head(b).record)
             /\ \A i \in Ids, r \in MaybeRecords :
                  Shows(view, b, i, r) => Shows(v, Tail(b), i, r)
<1> DEFINE v == [view EXCEPT ![Head(b).id] = Head(b).record]
           c == Tail(b)
<1>1. /\ Len(b) \in Nat /\ Len(b) > 0 /\ DOMAIN b = 1..Len(b)
      /\ Head(b) = b[1] /\ Head(b) \in Events /\ 1 \in DOMAIN b
      /\ c \in Seq(Events) /\ DOMAIN c = 1..(Len(b) - 1)
      /\ \A n \in 1..(Len(b) - 1) : c[n] = b[n + 1]
      /\ \A n \in DOMAIN b : b[n] \in Events
  OBVIOUS
<1>2. /\ v \in Views /\ v[b[1].id] = b[1].record
      /\ \A i \in Ids : i # b[1].id => v[i] = view[i]
  BY <1>1 DEF Views, Events
<1> HIDE DEF v, c
<1>3. ASSUME NEW n \in DOMAIN c
      PROVE  n + 1 \in DOMAIN b /\ n \in Nat /\ n >= 1 /\ c[n] = b[n + 1] /\ c[n].id \in Ids
  <2>1. n + 1 \in 1..Len(b) /\ n \in 1..(Len(b) - 1)
    BY <1>1
  <2>2. c[n] = b[n + 1] /\ b[n + 1] \in Events
    BY <2>1, <1>1
  <2> QED
    BY <2>1, <2>2, <1>1 DEF Events
<1>4. ASSUME NEW m \in DOMAIN b, m # 1
      PROVE  m - 1 \in DOMAIN c /\ c[m - 1] = b[m] /\ m \in Nat
  <2>1. m \in 1..Len(b) /\ m - 1 \in 1..(Len(b) - 1) /\ (m - 1) + 1 = m
    BY <1>1, <1>4
  <2>2. c[m - 1] = b[(m - 1) + 1]
    BY <2>1, <1>1
  <2> QED
    BY <2>1, <2>2, <1>1
<1>5. Forward(view[b[1].id], b[1].record)
  BY <1>1 DEF Coherent
<1>6. Coherent(v, c)
  <2> SUFFICES ASSUME NEW n \in DOMAIN c
               PROVE  /\ (\A j \in DOMAIN c : j < n => c[j].id # c[n].id)
                           => Forward(v[c[n].id], c[n].record)
                      /\ \A m \in DOMAIN c :
                           /\ m < n /\ c[m].id = c[n].id
                           /\ \A j \in DOMAIN c : m < j /\ j < n => c[j].id # c[n].id
                           => Forward(c[m].record, c[n].record)
    BY DEF Coherent
  <2>1. ASSUME \A j \in DOMAIN c : j < n => c[j].id # c[n].id
        PROVE  Forward(v[c[n].id], c[n].record)
    <3>1. ASSUME NEW j \in DOMAIN b, 1 < j, j < n + 1
          PROVE  b[j].id # c[n].id
      <4>1. j # 1 /\ j - 1 < n
        BY <3>1, <1>1, <1>3
      <4> QED
        BY <4>1, <2>1, <1>4
    <3>2. CASE c[n].id = b[1].id
      <4>1. 1 \in DOMAIN b /\ n + 1 \in DOMAIN b /\ 1 < n + 1 /\ b[1].id = b[n + 1].id
        BY <3>2, <1>1, <1>3
      <4>2. \A k \in DOMAIN b : 1 < k /\ k < n + 1 => b[k].id # b[n + 1].id
        BY <3>1, <1>3
      <4>3. Forward(b[1].record, b[n + 1].record)
        BY <4>1, <4>2 DEF Coherent
      <4> QED
        BY <4>3, <3>2, <1>2, <1>3
    <3>3. CASE c[n].id # b[1].id
      <4>1. \A j \in DOMAIN b : j < n + 1 => b[j].id # c[n].id
        BY <3>1, <3>3, <1>1
      <4> QED
        BY <3>3, <4>1, <1>2, <1>3 DEF Coherent
    <3> QED
      BY <3>2, <3>3
  <2>2. ASSUME NEW m \in DOMAIN c, m < n, c[m].id = c[n].id,
               \A j \in DOMAIN c : m < j /\ j < n => c[j].id # c[n].id
        PROVE  Forward(c[m].record, c[n].record)
    <3>1. ASSUME NEW j \in DOMAIN b, m + 1 < j, j < n + 1
          PROVE  b[j].id # c[n].id
      <4>1. j # 1 /\ m < j - 1 /\ j - 1 < n
        BY <3>1, <1>1, <1>3
      <4> QED
        BY <4>1, <2>2, <1>4
    <3>2. m + 1 < n + 1
      BY <2>2, <1>3
    <3> QED
      BY <3>1, <3>2, <2>2, <1>3 DEF Coherent
  <2> QED
    BY <2>1, <2>2
<1>7. ASSUME NEW i \in Ids, NEW r \in MaybeRecords, Shows(view, b, i, r)
      PROVE  Shows(v, c, i, r)
  <2>1. CASE view[i] = r /\ \A n \in DOMAIN b : b[n].id # i
    BY <2>1, <1>1, <1>2, <1>3 DEF Shows
  <2>2. ASSUME NEW n \in DOMAIN b, b[n].id = i, b[n].record = r,
               \A m \in DOMAIN b : m > n => b[m].id # i
        PROVE  Shows(v, c, i, r)
    <3>1. CASE n = 1
      <4>1. ASSUME NEW m \in DOMAIN c PROVE c[m].id # i
        <5>1. m + 1 \in DOMAIN b /\ m + 1 > n /\ c[m] = b[m + 1]
          BY <3>1, <1>3
        <5> QED
          BY <5>1, <2>2
      <4> QED
        BY <2>2, <3>1, <4>1, <1>2 DEF Shows
    <3>2. CASE n # 1
      <4>1. ASSUME NEW m \in DOMAIN c, m > n - 1 PROVE c[m].id # i
        <5>1. m + 1 \in DOMAIN b /\ m + 1 > n /\ c[m] = b[m + 1]
          BY <4>1, <3>2, <1>3, <1>4
        <5> QED
          BY <5>1, <2>2
      <4> QED
        BY <2>2, <3>2, <4>1, <1>4 DEF Shows
    <3> QED
      BY <3>1, <3>2
  <2> QED
    BY <1>7, <2>1, <2>2 DEF Shows
<1> QED
  BY <1>1, <1>2, <1>5, <1>6, <1>7 DEF v, c

\* What is published at once: removals, or one event that goes on from the record.
Told(events, before) ==
  \/ \A n \in DOMAIN events : events[n].record = None
  \/ Len(events) = 1 /\ Forward(before[events[1].id], events[1].record)

\* The events lead from these live records to those.
Leads(events, before, after) == \A i \in Ids :
  \/ after[i] = before[i] /\ \A n \in DOMAIN events : events[n].id # i
  \/ \E n \in DOMAIN events : /\ events[n].id = i /\ events[n].record = after[i]
                              /\ \A m \in DOMAIN events : m # n => events[m].id # i

\* Events are put into a channel.
LEMMA SentCoherent ==
  ASSUME NEW view \in Views, NEW b \in Seq(Events), NEW events \in Seq(Events),
         NEW before \in Views, NEW after \in Views,
         Coherent(view, b), \A i \in Ids : Shows(view, b, i, before[i]),
         Told(events, before), Leads(events, before, after)
  PROVE  /\ b \o events \in Seq(Events)
         /\ Coherent(view, b \o events)
         /\ \A i \in Ids : Shows(view, b \o events, i, after[i])
<1> DEFINE c == b \o events
<1>1. /\ c \in Seq(Events) /\ Len(b) \in Nat /\ Len(events) \in Nat
      /\ DOMAIN b = 1..Len(b) /\ DOMAIN events = 1..Len(events)
      /\ DOMAIN c = 1..(Len(b) + Len(events))
      /\ \A n \in 1..Len(b) : c[n] = b[n]
      /\ \A n \in 1..Len(events) : c[Len(b) + n] = events[n]
  OBVIOUS
<1>2. \A n \in DOMAIN c : c[n] \in Events
  BY <1>1
<1> HIDE DEF c
<1>3. ASSUME NEW n \in DOMAIN b
      PROVE  n \in DOMAIN c /\ c[n] = b[n] /\ n \in Nat /\ n <= Len(b)
  BY <1>1
<1>4. ASSUME NEW n \in DOMAIN c, n \notin DOMAIN b
      PROVE  /\ n \in Nat /\ n > Len(b) /\ n - Len(b) \in DOMAIN events
             /\ c[n] = events[n - Len(b)]
  <2>1. n - Len(b) \in 1..Len(events) /\ Len(b) + (n - Len(b)) = n /\ n \in Nat /\ n > Len(b)
    BY <1>1, <1>4
  <2>2. c[Len(b) + (n - Len(b))] = events[n - Len(b)]
    BY <2>1, <1>1
  <2> QED
    BY <2>1, <2>2, <1>1
<1>5. ASSUME NEW n \in DOMAIN events
      PROVE  Len(b) + n \in DOMAIN c /\ c[Len(b) + n] = events[n] /\ Len(b) + n \notin DOMAIN b
  BY <1>1
<1>6. Coherent(view, c)
  <2> SUFFICES ASSUME NEW n \in DOMAIN c
               PROVE  /\ (\A j \in DOMAIN c : j < n => c[j].id # c[n].id)
                           => Forward(view[c[n].id], c[n].record)
                      /\ \A m \in DOMAIN c :
                           /\ m < n /\ c[m].id = c[n].id
                           /\ \A j \in DOMAIN c : m < j /\ j < n => c[j].id # c[n].id
                           => Forward(c[m].record, c[n].record)
    BY DEF Coherent
  <2>1. CASE n \in DOMAIN b
    <3>1. \A j \in DOMAIN c : j < n => j \in DOMAIN b
      BY <2>1, <1>3, <1>4
    <3> QED
      BY <2>1, <3>1, <1>3 DEF Coherent
  <2>2. CASE n \notin DOMAIN b /\ c[n].record = None
    BY <2>2 DEF Forward
  <2>3. CASE n \notin DOMAIN b /\ c[n].record # None
    <3>1. Len(events) = 1 /\ Forward(before[events[1].id], events[1].record)
      BY <2>3, <1>4 DEF Told
    <3>2. n = Len(b) + 1 /\ c[n] = events[1]
      BY <2>3, <3>1, <1>1, <1>4
    <3>3. DEFINE i == c[n].id
    <3>4. i \in Ids /\ Shows(view, b, i, before[i]) /\ Forward(before[i], c[n].record)
      BY <3>1, <3>2, <1>2 DEF Events
    <3>5. \A j \in DOMAIN b : j < n
      BY <3>2, <1>3, <1>1
    <3>6. ASSUME \A j \in DOMAIN c : j < n => c[j].id # i
          PROVE  Forward(view[i], c[n].record)
      <4>1. \A j \in DOMAIN b : b[j].id # i
        BY <3>5, <3>6, <1>3
      <4> QED
        BY <3>4, <4>1 DEF Shows
    <3>7. ASSUME NEW m \in DOMAIN c, m < n, c[m].id = i,
                 \A j \in DOMAIN c : m < j /\ j < n => c[j].id # i
          PROVE  Forward(c[m].record, c[n].record)
      <4>1. m \in DOMAIN b /\ c[m] = b[m]
        BY <3>2, <3>7, <1>1, <1>3, <1>4
      <4>2. \A j \in DOMAIN b : m < j => b[j].id # i
        BY <3>5, <3>7, <1>3
      <4>3. PICK l \in DOMAIN b : /\ b[l].id = i /\ b[l].record = before[i]
                                  /\ \A j \in DOMAIN b : j > l => b[j].id # i
        BY <3>4, <3>7, <4>1 DEF Shows
      <4>4. l = m
        BY <3>7, <4>1, <4>2, <4>3, <1>3
      <4> QED
        BY <3>4, <4>1, <4>3, <4>4
    <3> QED
      BY <3>6, <3>7
  <2> QED
    BY <2>1, <2>2, <2>3
<1>7. ASSUME NEW i \in Ids PROVE Shows(view, c, i, after[i])
  <2>1. CASE after[i] = before[i] /\ \A n \in DOMAIN events : events[n].id # i
    <3>1. \A n \in DOMAIN c : n \notin DOMAIN b => c[n].id # i
      BY <2>1, <1>4
    <3>2. CASE view[i] = before[i] /\ \A n \in DOMAIN b : b[n].id # i
      BY <2>1, <3>1, <3>2, <1>3 DEF Shows
    <3>3. ASSUME NEW n \in DOMAIN b, b[n].id = i, b[n].record = before[i],
                 \A m \in DOMAIN b : m > n => b[m].id # i
          PROVE  Shows(view, c, i, after[i])
      BY <2>1, <3>1, <3>3, <1>3 DEF Shows
    <3> QED
      BY <3>2, <3>3 DEF Shows
  <2>2. ASSUME NEW n \in DOMAIN events, events[n].id = i, events[n].record = after[i],
               \A m \in DOMAIN events : m # n => events[m].id # i
        PROVE  Shows(view, c, i, after[i])
    <3>1. ASSUME NEW m \in DOMAIN c, m > Len(b) + n PROVE c[m].id # i
      <4>1. m \notin DOMAIN b /\ m - Len(b) # n
        BY <3>1, <1>1
      <4> QED
        BY <4>1, <2>2, <1>4
    <3> QED
      BY <2>2, <3>1, <1>5 DEF Shows
  <2> QED
    BY <2>1, <2>2 DEF Leads
<1> QED
  BY <1>1, <1>6, <1>7 DEF c

\* publishLocked: a stream that stays registered is told of everything, and one
\* that is closed of a part without a gap.
LEMMA PublishedKeeps ==
  ASSUME NEW before \in Views, NEW after \in Views, NEW events \in Seq(Events),
         subs \in [Subscribers -> SubStates],
         \A s \in Subscribers : SubOK(subs[s], before),
         Told(events, before), Leads(events, before, after)
  PROVE  /\ Published(events) \in [Subscribers -> SubStates]
         /\ \A s \in Subscribers : SubOK(Published(events)[s], after)
         /\ \A s \in Subscribers : Published(events)[s].view = subs[s].view
<1> DEFINE new(s) ==
      LET all == subs[s].buffer \o events
      IN IF subs[s].state # "registered" THEN subs[s]
         ELSE IF Len(all) <= Buffer THEN [subs[s] EXCEPT !.buffer = all]
         ELSE [subs[s] EXCEPT !.buffer = SubSeq(all, 1, Buffer), !.state = "closed"]
<1>1. Published(events) = [s \in Subscribers |-> new(s)]
  BY DEF Published
<1>2. ASSUME NEW s \in Subscribers
      PROVE  new(s) \in SubStates /\ SubOK(new(s), after) /\ new(s).view = subs[s].view
  <2> DEFINE t == subs[s]
             all == t.buffer \o events
  <2>1. t \in SubStates /\ SubOK(t, before)
    OBVIOUS
  <2>2. t.view \in Views /\ t.buffer \in Seq(Events) /\ Coherent(t.view, t.buffer)
    BY <2>1 DEF SubOK, SubStates
  <2>3. CASE t.state # "registered"
    BY <2>1, <2>3 DEF SubOK
  <2>4. CASE t.state = "registered"
    <3>1. /\ all \in Seq(Events) /\ Coherent(t.view, all)
          /\ \A i \in Ids : Shows(t.view, all, i, after[i])
      BY <2>1, <2>2, <2>4, SentCoherent DEF SubOK
    <3>2. CASE Len(all) <= Buffer
      <4> DEFINE q == [t EXCEPT !.buffer = all]
      <4>1. new(s) = q
        BY <2>4, <3>2
      <4> HIDE DEF all
      <4>2. q \in SubStates /\ q.buffer = all /\ q.view = t.view
        BY <2>1, <3>1 DEF SubStates
      <4> HIDE DEF q, t, new
      <4> QED
        BY <3>1, <4>1, <4>2 DEF SubOK, t
    <3>3. CASE ~(Len(all) <= Buffer)
      <4> DEFINE q == [t EXCEPT !.buffer = SubSeq(all, 1, Buffer), !.state = "closed"]
      <4>1. new(s) = q
        BY <2>4, <3>3
      <4>2. Buffer \in 0..Len(all)
        BY <3>1, <3>3
      <4>3. SubSeq(all, 1, Buffer) \in Seq(Events) /\ Coherent(t.view, SubSeq(all, 1, Buffer))
        BY <2>2, <3>1, <4>2, PrefixCoherent
      <4> HIDE DEF all
      <4>4. /\ q \in SubStates /\ q.buffer = SubSeq(all, 1, Buffer) /\ q.view = t.view
            /\ q.state = "closed"
        BY <2>1, <4>3 DEF SubStates
      <4> HIDE DEF q, t, new
      <4> QED
        BY <4>1, <4>3, <4>4 DEF SubOK, t
    <3> QED
      BY <3>2, <3>3
  <2> QED
    BY <2>3, <2>4
<1> HIDE DEF new
<1> QED
  BY <1>1, <1>2

\* pruneExpiredLocked tells of every record that goes, once.
LEMMA RemovalsTold ==
  ASSUME RecordsOK, NEW order \in SetToSeqs(expired)
  PROVE  /\ Kept \in Views
         /\ Removals(order) \in Seq(Events)
         /\ Told(Removals(order), records)
         /\ Leads(Removals(order), records, Kept)
<1> DEFINE N == Cardinality(expired)
           events == Removals(order)
<1>1. IsFiniteSet(expired) /\ N \in Nat
  BY FS_Subset, FS_CardinalityType DEF RecordsOK
<1>2. order \in [1..N -> expired] /\ \A i, j \in 1..N : i # j => order[i] # order[j]
  BY DEF SetToSeqs
<1>3. \A i \in expired : \E n \in 1..N : order[n] = i
  <2>1. order \in Injection(1..N, expired)
    BY <1>2 DEF Injection, IsInjective
  <2>2. Cardinality(1..N) = N
    BY <1>1, FS_Interval
  <2>3. order \in Surjection(1..N, expired)
    BY <1>1, <2>1, <2>2, FS_Injection
  <2> QED
    BY <2>3 DEF Surjection
<1>4. /\ events \in Seq(Events) /\ DOMAIN events = 1..N
      /\ \A n \in 1..N : events[n].id = order[n] /\ events[n].record = None
  <2>1. events = [n \in 1..N |-> [id |-> order[n], record |-> None]]
    BY <1>2 DEF Removals
  <2>2. \A n \in 1..N : order[n] \in Ids
    BY <1>2 DEF RecordsOK
  <2>3. \A n \in 1..N : [id |-> order[n], record |-> None] \in Events
    BY <2>2 DEF Events, MaybeRecords
  <2> QED
    BY <2>1, <2>3, <1>1
<1>5. Kept \in Views /\ \A i \in Ids : Kept[i] = IF i \in expired THEN None ELSE records[i]
  BY DEF RecordsOK, Kept, Views, MaybeRecords
<1>6. Told(events, records)
  BY <1>4 DEF Told
<1>7. Leads(events, records, Kept)
  <2> SUFFICES ASSUME NEW i \in Ids
               PROVE  \/ Kept[i] = records[i] /\ \A n \in DOMAIN events : events[n].id # i
                      \/ \E n \in DOMAIN events :
                           /\ events[n].id = i /\ events[n].record = Kept[i]
                           /\ \A m \in DOMAIN events : m # n => events[m].id # i
    BY DEF Leads
  <2>1. CASE i \in expired
    BY <2>1, <1>2, <1>3, <1>4, <1>5
  <2>2. CASE i \notin expired
    BY <2>2, <1>2, <1>4, <1>5
  <2> QED
    BY <2>1, <2>2
<1> QED
  BY <1>4, <1>5, <1>6, <1>7

\* A phase has a rank.
LEMMA PhaseRankType ==
  /\ \A p \in ToSet(Phases) : PhaseRank(p) \in 1..5
  /\ PhaseRank("complete") = 5
  /\ ToSet(Phases) = {"routing", "upstream", "streaming", "finalizing", "complete"}
<1>1. /\ DOMAIN Phases = 1..5 /\ 1..5 = {1, 2, 3, 4, 5}
      /\ Phases[1] = "routing" /\ Phases[2] = "upstream" /\ Phases[3] = "streaming"
      /\ Phases[4] = "finalizing" /\ Phases[5] = "complete"
  BY DEF Phases
<1>2. ToSet(Phases) = {"routing", "upstream", "streaming", "finalizing", "complete"}
  BY <1>1 DEF ToSet
<1>3. \A p \in ToSet(Phases) : \E n \in 1..5 : Phases[n] = p
  BY <1>1 DEF ToSet
<1>4. \A n \in 1..5 : Phases[n] = "complete" => n = 5
  BY <1>1
<1> QED
  BY <1>1, <1>2, <1>3, <1>4 DEF PhaseRank

\* One live record changes and the streams are told of it.
LEMMA RecordKeeps ==
  ASSUME IInv, NEW i \in Ids, NEW r \in Records, Forward(records[i], r),
         records' = [records EXCEPT ![i] = r], Publish(Upsert(i, r)),
         expired' = expired, writing' \subseteq Ids, UNCHANGED <<lines, torn, pager>>
  PROVE  IInv'
<1> DEFINE events == Upsert(i, r)
<1>1. records \in Views /\ records' \in Views /\ records'[i] = r
      /\ \A j \in Ids : j # i => records'[j] = records[j]
  BY DEF IInv, RecordsOK, Views, MaybeRecords
<1>2. /\ events \in Seq(Events) /\ Len(events) = 1 /\ DOMAIN events = {1}
      /\ events[1].id = i /\ events[1].record = r
  BY DEF Upsert, Events, MaybeRecords
<1> HIDE DEF events
<1>3. Told(events, records)
  BY <1>2 DEF Told
<1>4. Leads(events, records, records')
  BY <1>1, <1>2 DEF Leads
<1>5. subs' = Published(events)
  BY DEF Publish, events
<1>6. subs' \in [Subscribers -> SubStates] /\ \A s \in Subscribers : SubOK(subs'[s], records')
  BY <1>1, <1>2, <1>3, <1>4, <1>5, PublishedKeeps DEF IInv
<1>7. RecordsOK'
  BY <1>1 DEF IInv, RecordsOK
<1>8. PagerOK'
  BY DEF IInv, PagerOK
<1> QED
  BY <1>6, <1>7, <1>8 DEF IInv

\* A line that is sanitized and saved goes forward.
LEMMA SanitizedForward ==
  ASSUME NEW before \in Records, NEW changed \in Records, before.outcome = "active"
  PROVE  /\ Sanitized(changed, before) \in Records
         /\ Forward(before, Sanitized(changed, before))
<1>1. PhaseRank(before.phase) \in 1..5 /\ PhaseRank(changed.phase) \in 1..5
  BY PhaseRankType DEF Records
<1>2. CASE PhaseRank(changed.phase) < PhaseRank(before.phase) \/ changed.phase = "complete"
  <2>1. /\ [changed EXCEPT !.phase = before.phase] \in Records
        /\ [changed EXCEPT !.phase = before.phase].phase = before.phase
    BY DEF Records
  <2>2. Sanitized(changed, before) = [changed EXCEPT !.phase = before.phase]
    BY <1>2 DEF Sanitized
  <2>3. PhaseRank(before.phase) <= PhaseRank(before.phase)
    BY <1>1
  <2> QED
    BY <2>1, <2>2, <2>3 DEF Forward
<1>3. CASE ~(PhaseRank(changed.phase) < PhaseRank(before.phase) \/ changed.phase = "complete")
  <2>1. PhaseRank(before.phase) <= PhaseRank(changed.phase)
    BY <1>1, <1>3
  <2>2. Sanitized(changed, before) = changed
    BY <1>3 DEF Sanitized
  <2> QED
    BY <2>1, <2>2 DEF Forward
<1> QED
  BY <1>2, <1>3

\* Update: an event is published only for what goes forward.
LEMMA UpdateKeeps ==
  ASSUME IInv, NEW i \in Ids, NEW changed \in Records, records[i] # None, Update(i, changed)
  PROVE  IInv'
<1> DEFINE r == Sanitized(changed, records[i])
<1>1. records[i] \in Records /\ records[i].outcome = "active"
  BY DEF IInv, RecordsOK, Views, MaybeRecords, Update
<1>2. r \in Records /\ Forward(records[i], r)
  BY <1>1, SanitizedForward
<1>3. /\ records' = [records EXCEPT ![i] = r] /\ Publish(Upsert(i, r))
      /\ UNCHANGED <<expired, writing, lines, torn, pager>>
  BY DEF Update
<1>4. writing' \subseteq Ids
  BY <1>3 DEF IInv, RecordsOK
<1> HIDE DEF r
<1> QED
  BY <1>2, <1>3, <1>4, RecordKeeps

\* The steps of one request.
LEMMA RequestActionsKeep ==
  ASSUME IInv, NEW i \in Ids,
         \/ Start(i) \/ Finish(i) \/ AppendRecord(i) \/ Age(i)
         \/ \E a \in Accounts : SetAccount(i, a)
         \/ \E p \in Reached : SetPhase(i, p)
  PROVE  IInv'
<1>1. /\ records \in Views /\ expired \subseteq Ids /\ writing \subseteq Ids
      /\ records[i] # None => records[i] \in Records
  BY DEF IInv, RecordsOK, Views, MaybeRecords
<1>2. CASE Start(i)
  <2> DEFINE r == [phase |-> "routing", outcome |-> "active", account |-> None]
  <2>1. r \in Records
    BY PhaseRankType DEF Records, Outcomes
  <2>2. /\ records[i] = None /\ records' = [records EXCEPT ![i] = r] /\ Publish(Upsert(i, r))
        /\ UNCHANGED <<expired, writing, lines, torn, pager>>
    BY <1>2 DEF Start
  <2>3. Forward(records[i], r)
    BY <2>2 DEF Forward
  <2> HIDE DEF r
  <2> QED
    BY <1>1, <2>1, <2>2, <2>3, RecordKeeps
<1>3. CASE Finish(i)
  <2> DEFINE r == [records[i] EXCEPT !.phase = "complete", !.outcome = "ended"]
  <2>1. /\ records[i] # None /\ records[i].outcome = "active"
        /\ records' = [records EXCEPT ![i] = r] /\ Publish(Upsert(i, r))
        /\ UNCHANGED <<expired, lines, torn, pager>>
        /\ writing' = writing \union {i}
    BY <1>3 DEF Finish
  <2>2. r \in Records /\ r.phase = "complete"
    BY <1>1, <2>1, PhaseRankType DEF Records, Outcomes
  <2>3. Forward(records[i], r)
    <3>1. PhaseRank(records[i].phase) \in 1..5 /\ PhaseRank(r.phase) = 5
      BY <1>1, <2>1, <2>2, PhaseRankType DEF Records
    <3> HIDE DEF r
    <3>2. PhaseRank(records[i].phase) <= PhaseRank(r.phase)
      BY <3>1
    <3> QED
      BY <2>1, <3>2 DEF Forward
  <2> HIDE DEF r
  <2> QED
    BY <1>1, <2>1, <2>2, <2>3, RecordKeeps
<1>4. CASE AppendRecord(i)
  <2>1. /\ writing' = writing \ {i} /\ lines' \in {lines, lines + 1}
        /\ UNCHANGED <<records, expired, subs, pager>>
    BY <1>4 DEF AppendRecord
  <2>2. PagerOK'
    <3>1. /\ lines \in Nat /\ lines' \in Nat /\ lines <= lines'
          /\ pager.offset \in 0..lines /\ pager.first \in 0..lines
      BY <2>1 DEF IInv, PagerOK
    <3>2. /\ 0..lines \subseteq 0..lines'
          /\ (lines' - pager.offset + 1)..pager.first \subseteq
               (lines - pager.offset + 1)..pager.first
      BY <3>1
    <3> QED
      BY <2>1, <3>1, <3>2 DEF IInv, PagerOK
  <2> QED
    BY <2>1, <2>2 DEF IInv, RecordsOK
<1>5. CASE Age(i)
  BY <1>5 DEF Age, IInv, RecordsOK, PagerOK
<1>6. ASSUME NEW a \in Accounts, SetAccount(i, a) PROVE IInv'
  <2>1. records[i] # None /\ Update(i, [records[i] EXCEPT !.account = a, !.phase = "upstream"])
    BY <1>6 DEF SetAccount
  <2>2. [records[i] EXCEPT !.account = a, !.phase = "upstream"] \in Records
    BY <1>1, <2>1, PhaseRankType DEF Records
  <2> QED
    BY <2>1, <2>2, UpdateKeeps
<1>7. ASSUME NEW p \in Reached, SetPhase(i, p) PROVE IInv'
  <2>1. records[i] # None /\ Update(i, [records[i] EXCEPT !.phase = p])
    BY <1>7 DEF SetPhase
  <2>2. [records[i] EXCEPT !.phase = p] \in Records
    BY <1>1, <2>1, ReachedAssumption DEF Records
  <2> QED
    BY <2>1, <2>2, UpdateKeeps
<1> QED
  BY <1>2, <1>3, <1>4, <1>5, <1>6, <1>7

\* A step that leaves records and streams alone.
LEMMA SilentOK ==
  ASSUME NEW recs
  PROVE  SubOK(Silent, recs) /\ Silent \in SubStates
<1>1. Silent \in SubStates /\ Silent.state = "off" /\ Silent.buffer = <<>>
  BY DEF Silent, SubStates, Views, MaybeRecords
<1> QED
  BY <1>1 DEF SubOK, Coherent

\* The steps of one stream.
LEMMA StreamActionsKeep ==
  ASSUME IInv, NEW s \in Subscribers, Subscribe(s) \/ Receive(s) \/ StreamEnds(s)
  PROVE  IInv'
<1>1. /\ subs \in [Subscribers -> SubStates] /\ records \in Views
      /\ \A u \in Subscribers : SubOK(subs[u], records)
  BY DEF IInv, RecordsOK
<1>2. PagerOK'
  BY DEF Subscribe, Receive, StreamEnds, IInv, PagerOK
<1>3. CASE Subscribe(s)
  <2> DEFINE q == [state |-> "registered", buffer |-> <<>>, view |-> Kept]
  <2>1. PICK order \in SetToSeqs(expired) :
          subs' = [Published(Removals(order)) EXCEPT ![s] = q]
    BY <1>3 DEF Subscribe
  <2>2. records' = Kept /\ expired' = {} /\ writing' = writing
    BY <1>3 DEF Subscribe, Prune
  <2>3. /\ Kept \in Views /\ Removals(order) \in Seq(Events)
        /\ Told(Removals(order), records) /\ Leads(Removals(order), records, Kept)
    BY RemovalsTold DEF IInv
  <2>4. /\ Published(Removals(order)) \in [Subscribers -> SubStates]
        /\ \A u \in Subscribers : SubOK(Published(Removals(order))[u], Kept)
    BY <1>1, <2>3, PublishedKeeps
  <2>5. q \in SubStates /\ SubOK(q, Kept)
    <3>1. q \in SubStates /\ q.buffer = <<>> /\ q.view = Kept
      BY <2>3 DEF SubStates
    <3> HIDE DEF q
    <3> QED
      BY <3>1 DEF SubOK, Coherent, Shows
  <2> HIDE DEF q
  <2>6. subs' \in [Subscribers -> SubStates] /\ \A u \in Subscribers : SubOK(subs'[u], Kept)
    BY <2>1, <2>4, <2>5
  <2> QED
    BY <1>2, <2>2, <2>3, <2>6 DEF IInv, RecordsOK
<1>4. CASE Receive(s)
  <2> DEFINE t == subs[s]
             e == Head(t.buffer)
             v == [t.view EXCEPT ![e.id] = e.record]
             q == [t EXCEPT !.buffer = Tail(t.buffer), !.view = v]
  <2>1. /\ t \in SubStates /\ t.buffer \in Seq(Events) /\ t.buffer # <<>> /\ t.view \in Views
        /\ Coherent(t.view, t.buffer) /\ SubOK(t, records)
    BY <1>1, <1>4 DEF Receive, SubStates, SubOK
  <2>2. /\ Tail(t.buffer) \in Seq(Events) /\ v \in Views /\ Coherent(v, Tail(t.buffer))
        /\ \A i \in Ids, r \in MaybeRecords :
             Shows(t.view, t.buffer, i, r) => Shows(v, Tail(t.buffer), i, r)
    BY <2>1, ReceivedCoherent
  <2>3. subs' = [subs EXCEPT ![s] = q]
    BY <1>1, <1>4, <2>1 DEF Receive, SubStates
  <2>4. /\ q \in SubStates /\ q.buffer = Tail(t.buffer) /\ q.view = v /\ q.state = t.state
    <3> HIDE DEF v
    <3> QED
      BY <2>1, <2>2 DEF SubStates
  <2> HIDE DEF q, v, e
  <2>5. SubOK(q, records)
    BY <1>1, <2>1, <2>2, <2>4 DEF SubOK, Views
  <2>6. subs' \in [Subscribers -> SubStates] /\ \A u \in Subscribers : SubOK(subs'[u], records)
    BY <1>1, <2>3, <2>4, <2>5
  <2> QED
    BY <1>2, <1>4, <2>6 DEF IInv, RecordsOK, Receive
<1>5. CASE StreamEnds(s)
  BY <1>1, <1>2, <1>5, SilentOK DEF IInv, RecordsOK, StreamEnds
<1> QED
  BY <1>3, <1>4, <1>5

\* The other steps.
LEMMA OtherActionsKeep ==
  ASSUME IInv, Sweep \/ Close \/ QueryLogs \/ Restart
  PROVE  IInv'
<1>1. /\ subs \in [Subscribers -> SubStates] /\ records \in Views
      /\ \A u \in Subscribers : SubOK(subs[u], records)
  BY DEF IInv, RecordsOK
<1>2. CASE Sweep
  <2>1. PICK order \in SetToSeqs(expired) : subs' = Published(Removals(order))
    BY <1>2 DEF Sweep, Publish
  <2>2. records' = Kept /\ expired' = {} /\ UNCHANGED <<writing, lines, torn, pager>>
    BY <1>2 DEF Sweep, Prune
  <2>3. /\ Kept \in Views /\ Removals(order) \in Seq(Events)
        /\ Told(Removals(order), records) /\ Leads(Removals(order), records, Kept)
    BY RemovalsTold DEF IInv
  <2>4. subs' \in [Subscribers -> SubStates] /\ \A u \in Subscribers : SubOK(subs'[u], Kept)
    BY <1>1, <2>1, <2>3, PublishedKeeps
  <2> QED
    BY <2>2, <2>3, <2>4 DEF IInv, RecordsOK, PagerOK
<1>3. CASE Close
  <2>1. UNCHANGED <<records, expired, writing, lines, torn, pager>>
    BY <1>3 DEF Close
  <2>2. \A u \in Subscribers : [subs[u] EXCEPT !.state = "closed"] \in SubStates
        /\ SubOK([subs[u] EXCEPT !.state = "closed"], records)
    <3>1. ASSUME NEW u \in Subscribers
          PROVE  /\ [subs[u] EXCEPT !.state = "closed"] \in SubStates
                 /\ [subs[u] EXCEPT !.state = "closed"].buffer = subs[u].buffer
                 /\ [subs[u] EXCEPT !.state = "closed"].view = subs[u].view
                 /\ [subs[u] EXCEPT !.state = "closed"].state = "closed"
      BY <1>1 DEF SubStates
    <3> QED
      BY <1>1, <3>1 DEF SubOK
  <2>3. subs' \in [Subscribers -> SubStates] /\ \A u \in Subscribers : SubOK(subs'[u], records)
    BY <1>1, <1>3, <2>2 DEF Close
  <2> QED
    BY <2>1, <2>3 DEF IInv, RecordsOK, PagerOK
<1>4. CASE QueryLogs
  <2> DEFINE end == PageEnd(pager.offset)
             page == (lines - end + 1)..(lines - pager.offset)
             first == IF pager.state = "off" THEN lines ELSE pager.first
  <2>1. /\ pager.state # "done" /\ UNCHANGED <<records, expired, subs, writing, lines, torn>>
        /\ pager' = [state |-> IF end < lines THEN "paging" ELSE "done", offset |-> end,
                     seen |-> pager.seen \union page, first |-> first]
    BY <1>4 DEF QueryLogs
  <2>2. /\ lines \in Nat /\ pager.offset \in 0..lines /\ pager.first \in 0..lines
        /\ pager.seen \subseteq Nat /\ pager.state \in {"off", "paging"}
    BY <2>1 DEF IInv, PagerOK
  <2>3. end \in 0..lines /\ pager.offset <= end /\ end <= lines /\ first \in 0..lines
        /\ (~(end < lines) => end = lines)
    BY <2>2 DEF PageEnd
  <2>4. page \subseteq Nat
    BY <2>2, <2>3
  <2>5. (lines - end + 1)..first \subseteq pager.seen \union page
    <3>1. CASE pager.state = "off"
      BY <3>1, <2>2, <2>3 DEF IInv, PagerOK
    <3>2. CASE pager.state = "paging"
      <4>1. (lines - pager.offset + 1)..pager.first \subseteq pager.seen
        BY <3>2 DEF IInv, PagerOK
      <4>2. ASSUME NEW n \in (lines - end + 1)..pager.first
            PROVE  n \in page \/ n \in (lines - pager.offset + 1)..pager.first
        BY <2>2, <2>3
      <4> QED
        BY <3>2, <4>1, <4>2
    <3> QED
      BY <2>2, <3>1, <3>2
  <2>6. end = lines => 1..first \subseteq (lines - end + 1)..first
    BY <2>2, <2>3
  <2> HIDE DEF end, page, first
  <2>7. PagerOK'
    BY <2>1, <2>2, <2>3, <2>4, <2>5, <2>6 DEF PagerOK
  <2> QED
    BY <2>1, <2>7 DEF IInv, RecordsOK
<1>5. CASE Restart
  <2>1. /\ records' = [i \in Ids |-> None] /\ expired' = {} /\ writing' = {}
        /\ subs' = [u \in Subscribers |-> Silent] /\ UNCHANGED <<lines, pager>>
    BY <1>5 DEF Restart
  <2> QED
    BY <2>1, SilentOK DEF IInv, RecordsOK, PagerOK, Views, MaybeRecords
<1> QED
  BY <1>2, <1>3, <1>4, <1>5
-----------------------------------------------------------------------------

\* Nothing is registered or published at first.
LEMMA InitOK == Init => IInv
<1> SUFFICES ASSUME Init PROVE IInv
  OBVIOUS
<1>1. RecordsOK
  BY DEF Init, RecordsOK, Views, MaybeRecords
<1>2. PagerOK
  BY DEF Init, PagerOK, NoPage
<1>3. subs \in [Subscribers -> SubStates] /\ \A s \in Subscribers : SubOK(subs[s], records)
  BY SilentOK DEF Init
<1> QED
  BY <1>1, <1>2, <1>3 DEF IInv

\* Every step keeps the invariant.
LEMMA NextKeeps == IInv /\ [Next]_vars => IInv'
<1> SUFFICES ASSUME IInv, [Next]_vars PROVE IInv'
  OBVIOUS
<1>1. CASE UNCHANGED vars
  BY <1>1 DEF vars, IInv, RecordsOK, PagerOK
<1> QED
  BY <1>1, RequestActionsKeep, StreamActionsKeep, OtherActionsKeep DEF Next

\* IInv holds in every reachable state, whatever the handlers call in which order.
THEOREM InvariantHolds == Spec => []IInv
<1> QED
  BY InitOK, NextKeeps, PTL DEF Spec

\* A stream that is still registered shows the store's records once its client
\* has received what is in the channel.
THEOREM StreamsAreExact == Spec => []StreamExact
<1>1. IInv => StreamExact
  BY DEF IInv, SubOK, StreamExact
<1> QED
  BY <1>1, InvariantHolds, PTL

\* QueryLogs with the cursors of its pages skips no line that was there at first.
THEOREM NoLineSkipped == Spec => []PagesMissNothing
<1>1. IInv => PagesMissNothing
  BY DEF IInv, PagerOK, PagesMissNothing
<1> QED
  BY <1>1, InvariantHolds, PTL

\* What a stream tells of one request never goes back.
THEOREM StreamsGoForward == Spec => StreamForward
<1>1. IInv /\ [Next]_vars =>
        [\A s \in Subscribers, i \in Ids :
           subs'[s].state # "off" /\ subs[s].state # "off" =>
             Forward(subs[s].view[i], subs'[s].view[i])]_vars
  <2> SUFFICES ASSUME IInv, [Next]_vars, NEW s \in Subscribers, NEW i \in Ids,
                      subs'[s].state # "off", subs[s].state # "off"
               PROVE  Forward(subs[s].view[i], subs'[s].view[i])
    OBVIOUS
  <2>1. /\ subs \in [Subscribers -> SubStates] /\ SubOK(subs[s], records)
        /\ subs[s].view \in Views /\ subs[s].buffer \in Seq(Events)
        /\ Coherent(subs[s].view, subs[s].buffer)
    BY DEF IInv, SubOK, SubStates
  <2>2. subs'[s].view = subs[s].view => Forward(subs[s].view[i], subs'[s].view[i])
    BY DEF Forward
  <2>3. ASSUME NEW events \in Seq(Events), subs'[s] = Published(events)[s]
        PROVE  subs'[s].view = subs[s].view
    BY <2>1, <2>3 DEF Published, SubStates
  <2>4. CASE UNCHANGED vars
    BY <2>2, <2>4 DEF vars
  <2>5. ASSUME NEW j \in Ids, \/ Start(j) \/ Finish(j) \/ AppendRecord(j) \/ Age(j)
                              \/ \E a \in Accounts : SetAccount(j, a)
                              \/ \E p \in Reached : SetPhase(j, p)
        PROVE  subs'[s].view = subs[s].view
    <3>1. \/ subs' = subs
          \/ \E r : subs' = Published(Upsert(j, r))
      BY <2>5 DEF Start, Finish, AppendRecord, Age, SetAccount, SetPhase, Update, Publish
    <3>2. ASSUME NEW r, subs' = Published(Upsert(j, r)) PROVE subs'[s].view = subs[s].view
      BY <2>1, <3>2 DEF Published, SubStates
    <3> QED
      BY <3>1, <3>2
  <2>6. ASSUME NEW u \in Subscribers, Subscribe(u) PROVE subs'[s].view = subs[s].view
    <3>1. u # s
      BY <2>6 DEF Subscribe
    <3>2. PICK order \in SetToSeqs(expired) : subs'[s] = Published(Removals(order))[s]
      BY <2>6, <3>1 DEF Subscribe, Published
    <3> QED
      BY <2>1, <3>2 DEF Published, SubStates
  <2>7. ASSUME NEW u \in Subscribers, Receive(u)
        PROVE  Forward(subs[s].view[i], subs'[s].view[i])
    <3>1. CASE u # s
      BY <2>1, <2>2, <2>7, <3>1 DEF Receive
    <3>2. CASE u = s
      <4> DEFINE e == Head(subs[s].buffer)
      <4>1. subs[s].buffer # <<>> /\ subs'[s].view = [subs[s].view EXCEPT ![e.id] = e.record]
        BY <2>1, <2>7, <3>2 DEF Receive, SubStates
      <4>2. e \in Events /\ Forward(subs[s].view[e.id], e.record)
        BY <2>1, <4>1, ReceivedCoherent
      <4>3. subs'[s].view[i] = IF i = e.id THEN e.record ELSE subs[s].view[i]
        BY <2>1, <4>1, <4>2 DEF Views, Events
      <4> QED
        BY <4>2, <4>3 DEF Forward
    <3> QED
      BY <3>1, <3>2
  <2>8. ASSUME NEW u \in Subscribers, StreamEnds(u) PROVE subs'[s].view = subs[s].view
    BY <2>1, <2>8, SilentOK DEF StreamEnds, Silent
  <2>9. CASE Sweep
    <3>1. PICK order \in SetToSeqs(expired) : subs' = Published(Removals(order))
      BY <2>9 DEF Sweep, Publish
    <3>2. subs'[s].view = subs[s].view
      BY <2>1, <3>1 DEF Published, SubStates
    <3> QED
      BY <2>2, <3>2
  <2>10. CASE Close
    <3>1. subs'[s].view = subs[s].view
      BY <2>1, <2>10 DEF Close, SubStates
    <3> QED
      BY <2>2, <3>1
  <2>11. CASE QueryLogs
    BY <2>2, <2>11 DEF QueryLogs
  <2>12. ~Restart
    BY DEF Restart, Silent
  <2> QED
    BY <2>2, <2>4, <2>5, <2>6, <2>7, <2>8, <2>9, <2>10, <2>11, <2>12 DEF Next
<1> QED
  BY <1>1, InvariantHolds, PTL DEF Spec, StreamForward
-----------------------------------------------------------------------------
(* The log of upstream attempts, for every set of requests and any number of
   attempts: it says of each attempt what became of it. *)

HIDE BoundsAssumption

AttemptOutcomes == {"active", "succeeded", "failed", "cancelled", "timed_out"}

ParentType ==
  [pc: {"idle", "routing", "opening", "open", "ending"}, socket: BOOLEAN, ids: Seq(Nat),
   outcome: AttemptOutcomes \ {"active"}, response: Nat, mixed: BOOLEAN]

GenerationTypeOK ==
  /\ attempts \in Seq([outcome: AttemptOutcomes, response: Nat, logged: BOOLEAN])
  /\ happened \in Seq([outcome: AttemptOutcomes, mixed: BOOLEAN])
  /\ Len(happened) = Len(attempts)
  /\ parent \in [Parents -> ParentType]

\* The record of the attempt is finished, or the handler has gone on after it.
Settled(n) == attempts[n].outcome # "active" \/ happened[n].mixed

\* All attempts of a request but the one it is working on are settled.
EarlierSettled(p) ==
  /\ parent[p].pc \in {"idle", "routing"} =>
       \A i \in 1..Len(parent[p].ids) : Settled(parent[p].ids[i])
  /\ parent[p].pc \in {"opening", "open"} =>
       \A i \in 1..(Len(parent[p].ids) - 1) : Settled(parent[p].ids[i])

\* The attempt at work is the last one, and its record is still active.
CurrentActive(p) ==
  parent[p].pc \in {"opening", "open"} =>
    /\ Len(parent[p].ids) > 0
    /\ attempts[Current(p)].outcome = "active"
    /\ happened[Current(p)].mixed = parent[p].mixed

\* Until its context speaks of an earlier turn, it says nothing before the end.
NothingSaid(p) ==
  (parent[p].pc \in {"routing", "opening", "open"} /\ ~parent[p].mixed) =>
    parent[p].outcome = "succeeded" /\ parent[p].response = 0

\* What finishGenerations is about to write is right.
EndTold(p) ==
  parent[p].pc = "ending" =>
    \A i \in 1..Len(parent[p].ids) :
      LET n == parent[p].ids[i]
      IN  \/ Settled(n)
          \/ parent[p].outcome = happened[n].outcome /\ parent[p].response \in {0, n}

Started(p) == \A i \in 1..Len(parent[p].ids) : parent[p].ids[i] \in 1..Len(attempts)

ParentInv(p) ==
  /\ Started(p) /\ EarlierSettled(p) /\ CurrentActive(p) /\ NothingSaid(p) /\ EndTold(p)

\* No attempt belongs to two requests.
Apart ==
  \A p, q \in Parents : p # q =>
    \A i \in 1..Len(parent[p].ids), j \in 1..Len(parent[q].ids) :
      parent[p].ids[i] # parent[q].ids[j]

GenerationInv ==
  /\ GenerationTypeOK
  /\ \A p \in Parents : ParentInv(p)
  /\ Apart
  /\ GenerationsTold
-----------------------------------------------------------------------------

\* A step of one request that touches no attempt of another one keeps the others.
LEMMA OthersKept ==
  ASSUME GenerationInv, NEW p \in Parents,
         Len(attempts) <= Len(attempts'),
         \A n \in 1..Len(attempts) :
           (\A i \in 1..Len(parent[p].ids) : parent[p].ids[i] # n) =>
             attempts'[n] = attempts[n] /\ happened'[n] = happened[n],
         \A q \in Parents \ {p} : parent'[q] = parent[q]
  PROVE  \A q \in Parents \ {p} : ParentInv(q)'
<1> SUFFICES ASSUME NEW q \in Parents \ {p} PROVE ParentInv(q)'
  OBVIOUS
<1>1. /\ parent'[q] = parent[q] /\ parent[q] \in ParentType
      /\ Len(parent[q].ids) \in Nat /\ Len(attempts) \in Nat /\ Len(attempts') \in Int
  BY DEF GenerationInv, GenerationTypeOK, ParentType
<1>2. ParentInv(q)
  BY DEF GenerationInv
<1>3. ASSUME NEW i \in 1..Len(parent[q].ids)
      PROVE  /\ parent[q].ids[i] \in 1..Len(attempts)
             /\ attempts'[parent[q].ids[i]] = attempts[parent[q].ids[i]]
             /\ happened'[parent[q].ids[i]] = happened[parent[q].ids[i]]
  <2>1. parent[q].ids[i] \in 1..Len(attempts)
    BY <1>2 DEF ParentInv, Started
  <2>2. \A j \in 1..Len(parent[p].ids) : parent[p].ids[j] # parent[q].ids[i]
    BY DEF GenerationInv, Apart
  <2> QED BY <2>1, <2>2
<1>4. Started(q)'
  BY <1>1, <1>3 DEF Started
<1>5. EarlierSettled(q)'
  <2>1. ASSUME NEW i \in 1..Len(parent[q].ids), Settled(parent[q].ids[i])
        PROVE  Settled(parent[q].ids[i])'
    BY <1>1, <1>3, <2>1 DEF Settled
  <2>2. \A i \in 1..(Len(parent[q].ids) - 1) : i \in 1..Len(parent[q].ids)
    BY <1>1
  <2> QED BY <1>1, <1>2, <2>1, <2>2 DEF ParentInv, EarlierSettled
<1>6. CurrentActive(q)'
  <2> SUFFICES ASSUME parent[q].pc \in {"opening", "open"}
               PROVE  /\ Len(parent[q].ids) > 0
                      /\ attempts'[Last(parent[q].ids)].outcome = "active"
                      /\ happened'[Last(parent[q].ids)].mixed = parent[q].mixed
    BY <1>1 DEF CurrentActive, Current, Last
  <2>1. /\ Len(parent[q].ids) > 0
        /\ attempts[Last(parent[q].ids)].outcome = "active"
        /\ happened[Last(parent[q].ids)].mixed = parent[q].mixed
    BY <1>2 DEF ParentInv, CurrentActive, Current
  <2>2. Len(parent[q].ids) \in 1..Len(parent[q].ids)
    BY <1>1, <2>1
  <2> QED BY <1>3, <2>1, <2>2 DEF Last
<1>7. NothingSaid(q)'
  BY <1>1, <1>2 DEF ParentInv, NothingSaid
<1>8. EndTold(q)'
  <2> SUFFICES ASSUME parent[q].pc = "ending", NEW i \in 1..Len(parent[q].ids)
               PROVE  LET n == parent[q].ids[i]
                      IN  \/ Settled(n)'
                          \/ /\ parent[q].outcome = happened'[n].outcome
                             /\ parent[q].response \in {0, n}
    BY <1>1 DEF EndTold, Settled
  <2>1. \/ Settled(parent[q].ids[i])
        \/ /\ parent[q].outcome = happened[parent[q].ids[i]].outcome
           /\ parent[q].response \in {0, parent[q].ids[i]}
    BY <1>2 DEF ParentInv, EndTold
  <2> QED BY <1>3, <2>1 DEF Settled
<1> QED BY <1>4, <1>5, <1>6, <1>7, <1>8 DEF ParentInv

\* Requests stay apart when one of them gets no attempt but a new one.
LEMMA StayApart ==
  ASSUME GenerationInv, NEW p \in Parents,
         \A q \in Parents \ {p} : parent'[q] = parent[q],
         \A i \in 1..Len(parent'[p].ids) :
           \/ \E j \in 1..Len(parent[p].ids) : parent'[p].ids[i] = parent[p].ids[j]
           \/ parent'[p].ids[i] = Len(attempts) + 1
  PROVE  Apart'
<1>1. \A q \in Parents : Started(q)
  BY DEF GenerationInv, ParentInv
<1>2. Len(attempts) \in Nat
  BY DEF GenerationInv, GenerationTypeOK
<1>3. \A q \in Parents : \A j \in 1..Len(parent[q].ids) :
        parent[q].ids[j] # Len(attempts) + 1
  BY <1>1, <1>2 DEF Started
<1>4. Apart
  BY DEF GenerationInv
<1>5. ASSUME NEW q \in Parents, NEW r \in Parents, q # r,
             NEW i \in 1..Len(parent'[q].ids), NEW j \in 1..Len(parent'[r].ids)
      PROVE  parent'[q].ids[i] # parent'[r].ids[j]
  <2>1. CASE q = p
    BY <1>3, <1>4, <1>5, <2>1 DEF Apart
  <2>2. CASE r = p
    BY <1>3, <1>4, <1>5, <2>2 DEF Apart
  <2>3. CASE q # p /\ r # p
    BY <1>4, <1>5, <2>3 DEF Apart
  <2> QED BY <2>1, <2>2, <2>3
<1> QED BY <1>5 DEF Apart
-----------------------------------------------------------------------------
(* The actions that leave the records as they are. *)

\* The elements of a sequence are in its set.
LEMMA ElementOfSeq ==
  ASSUME NEW S, NEW s \in Seq(S), NEW n \in 1..Len(s)
  PROVE  s[n] \in S
  OBVIOUS

\* What the invariant says of a request at work on an attempt.
LEMMA AtWork ==
  ASSUME GenerationInv, NEW p \in Parents, parent[p].pc \in {"opening", "open"}
  PROVE  /\ Current(p) \in 1..Len(attempts)
         /\ \E i \in 1..Len(parent[p].ids) : parent[p].ids[i] = Current(p)
         /\ attempts[Current(p)].outcome = "active"
         /\ happened[Current(p)].mixed = parent[p].mixed
         /\ \A i \in 1..Len(parent[p].ids) :
              parent[p].ids[i] # Current(p) => Settled(parent[p].ids[i])
<1>1. ParentInv(p) /\ parent[p] \in ParentType
  BY DEF GenerationInv, GenerationTypeOK
<1>2. Len(parent[p].ids) \in Nat
  BY <1>1 DEF ParentType
<1>3. /\ Len(parent[p].ids) > 0
      /\ attempts[Current(p)].outcome = "active"
      /\ happened[Current(p)].mixed = parent[p].mixed
  BY <1>1 DEF ParentInv, CurrentActive
<1>4. Len(parent[p].ids) \in 1..Len(parent[p].ids)
  BY <1>2, <1>3
<1>5. Current(p) \in 1..Len(attempts)
  BY <1>1, <1>4 DEF ParentInv, Started, Current, Last
<1>6. ASSUME NEW i \in 1..Len(parent[p].ids), parent[p].ids[i] # Current(p)
      PROVE  Settled(parent[p].ids[i])
  <2>1. i # Len(parent[p].ids)
    BY <1>6 DEF Current, Last
  <2>2. i \in 1..(Len(parent[p].ids) - 1)
    BY <1>2, <2>1
  <2> QED BY <1>1, <2>2 DEF ParentInv, EarlierSettled
<1> QED BY <1>3, <1>4, <1>5, <1>6 DEF Current, Last

\* The open attempt ends, and the request either goes on and its context knows of
\* nothing or is mixed, or its context says what has become of the attempt.
LEMMA EndsKeeps ==
  ASSUME GenerationInv, NEW p \in Parents, parent[p].pc = "open",
         NEW outcome \in AttemptOutcomes \ {"active"}, NEW mixed \in BOOLEAN,
         happened' = [happened EXCEPT ![Current(p)] = [outcome |-> outcome, mixed |-> mixed]],
         UNCHANGED attempts,
         NEW next \in ParentType, parent' = [parent EXCEPT ![p] = next],
         next.ids = parent[p].ids,
         \/ /\ next.pc = "routing" /\ mixed
            /\ next.mixed \/ (next.outcome = "succeeded" /\ next.response = 0)
         \/ /\ next.pc = "ending"
            /\ \/ mixed
               \/ next.outcome = outcome /\ next.response \in {0, Current(p)}
  PROVE  GenerationInv'
<1>1. /\ parent'[p] = next /\ parent \in [Parents -> ParentType]
      /\ \A q \in Parents \ {p} : parent'[q] = parent[q]
      /\ Len(happened) = Len(attempts) /\ Len(attempts) \in Nat
      /\ happened \in Seq([outcome: AttemptOutcomes, mixed: BOOLEAN])
  BY DEF GenerationInv, GenerationTypeOK
<1>2. /\ Current(p) \in 1..Len(attempts)
      /\ \E i \in 1..Len(parent[p].ids) : parent[p].ids[i] = Current(p)
      /\ attempts[Current(p)].outcome = "active"
      /\ \A i \in 1..Len(parent[p].ids) :
           parent[p].ids[i] # Current(p) => Settled(parent[p].ids[i])
  BY AtWork
<1>3. /\ happened' \in Seq([outcome: AttemptOutcomes, mixed: BOOLEAN])
      /\ Len(happened') = Len(happened)
      /\ happened'[Current(p)] = [outcome |-> outcome, mixed |-> mixed]
      /\ \A n \in 1..Len(attempts) : n # Current(p) => happened'[n] = happened[n]
  BY <1>1, <1>2
<1>4. GenerationTypeOK'
  BY <1>1, <1>3 DEF GenerationInv, GenerationTypeOK
<1>5. \A q \in Parents \ {p} : ParentInv(q)'
  BY <1>1, <1>2, <1>3, OthersKept
<1>6. Apart'
  BY <1>1, StayApart
<1>7. Started(p)
  BY DEF GenerationInv, ParentInv
<1>8. ASSUME NEW i \in 1..Len(next.ids)
      PROVE  \/ Settled(next.ids[i])'
             \/ ~mixed /\ next.ids[i] = Current(p)
  <2>1. next.ids[i] \in 1..Len(attempts)
    BY <1>7 DEF Started
  <2> QED BY <1>2, <1>3, <2>1 DEF Settled
<1>9. ParentInv(p)'
  <2>1. Started(p)'
    BY <1>1, <1>7 DEF Started
  <2>2. EarlierSettled(p)' /\ CurrentActive(p)' /\ NothingSaid(p)'
    BY <1>1, <1>8 DEF EarlierSettled, CurrentActive, NothingSaid
  <2>3. EndTold(p)'
    <3> SUFFICES ASSUME next.pc = "ending", NEW i \in 1..Len(next.ids)
                 PROVE  LET n == next.ids[i]
                        IN  \/ Settled(n)'
                            \/ next.outcome = happened'[n].outcome /\ next.response \in {0, n}
      BY <1>1 DEF EndTold, Settled
    <3> QED BY <1>3, <1>8
  <2> QED BY <2>1, <2>2, <2>3 DEF ParentInv
<1>10. GenerationsTold'
  BY <1>1, <1>2, <1>3 DEF GenerationInv, GenerationsTold, LogTells
<1> QED BY <1>1, <1>4, <1>5, <1>6, <1>9, <1>10 DEF GenerationInv

\* A request that only moves on: its attempts and its context are fit for it.
LEMMA MovesKeeps ==
  ASSUME GenerationInv, NEW p \in Parents, UNCHANGED <<attempts, happened>>,
         NEW next \in ParentType, parent' = [parent EXCEPT ![p] = next],
         ParentInv(p)',
         \A i \in 1..Len(next.ids) :
           \E j \in 1..Len(parent[p].ids) : next.ids[i] = parent[p].ids[j]
  PROVE  GenerationInv'
<1>1. /\ parent'[p] = next /\ parent \in [Parents -> ParentType]
      /\ \A q \in Parents \ {p} : parent'[q] = parent[q]
      /\ Len(attempts) \in Nat
  BY DEF GenerationInv, GenerationTypeOK
<1>2. GenerationTypeOK'
  BY <1>1 DEF GenerationInv, GenerationTypeOK
<1>3. \A q \in Parents \ {p} : ParentInv(q)'
  BY <1>1, OthersKept
<1>4. Apart'
  BY <1>1, StayApart
<1>5. GenerationsTold'
  BY DEF GenerationInv, GenerationsTold, LogTells
<1> QED BY <1>2, <1>3, <1>4, <1>5 DEF GenerationInv
-----------------------------------------------------------------------------
(* One lemma for each action. *)

\* A request that comes.
LEMMA ComeKeeps ==
  ASSUME GenerationInv, NEW p \in Parents, Come(p)
  PROVE  GenerationInv'
<1>1. PICK socket \in BOOLEAN :
        parent' = [parent EXCEPT ![p] = [NoParent EXCEPT !.pc = "routing", !.socket = socket]]
  BY DEF Come
<1> DEFINE next == [NoParent EXCEPT !.pc = "routing", !.socket = socket]
<1>2. next.ids = <<>> /\ next.pc = "routing" /\ next.outcome = "succeeded" /\ next.response = 0
  BY DEF NoParent
<1>3. next \in ParentType
  <2>1. NoParent \in ParentType
    BY DEF NoParent, ParentType, AttemptOutcomes
  <2> QED BY <2>1 DEF ParentType
<1>4. /\ parent' = [parent EXCEPT ![p] = next] /\ UNCHANGED <<attempts, happened>>
  BY <1>1 DEF Come
<1> HIDE DEF next
<1>5. parent'[p] = next
  BY <1>4 DEF GenerationInv, GenerationTypeOK
<1>6. 1..Len(next.ids) = {}
  BY <1>2
<1>7. ParentInv(p)'
  BY <1>2, <1>5, <1>6 DEF ParentInv, Started, EarlierSettled, CurrentActive, NothingSaid, EndTold
<1> QED BY <1>3, <1>4, <1>6, <1>7, MovesKeeps

\* Its stream is opened.
LEMMA OpenKeeps ==
  ASSUME GenerationInv, NEW p \in Parents, Open(p)
  PROVE  GenerationInv'
<1> DEFINE next == [parent[p] EXCEPT !.pc = "open"]
<1>1. /\ parent[p] \in ParentType /\ parent[p].pc = "opening"
      /\ parent' = [parent EXCEPT ![p] = next] /\ parent'[p] = next
      /\ UNCHANGED <<attempts, happened>>
  BY DEF Open, GenerationInv, GenerationTypeOK
<1>2. /\ next \in ParentType /\ next.pc = "open" /\ next.ids = parent[p].ids
      /\ next.outcome = parent[p].outcome /\ next.response = parent[p].response
      /\ next.mixed = parent[p].mixed
  BY <1>1 DEF ParentType
<1> HIDE DEF next
<1>3. ParentInv(p)
  BY DEF GenerationInv
<1>4. ParentInv(p)'
  <2>1. Started(p)' /\ EarlierSettled(p)'
    BY <1>1, <1>2, <1>3 DEF ParentInv, Started, EarlierSettled, Settled
  <2>2. CurrentActive(p)'
    BY <1>1, <1>2, <1>3 DEF ParentInv, CurrentActive, Current
  <2>3. NothingSaid(p)' /\ EndTold(p)'
    BY <1>1, <1>2, <1>3 DEF ParentInv, NothingSaid, EndTold
  <2> QED BY <2>1, <2>2, <2>3 DEF ParentInv
<1> QED BY <1>1, <1>2, <1>4, MovesKeeps

\* There is no account, or the client of the socket has gone.
LEMMA GiveUpKeeps ==
  ASSUME GenerationInv, NEW p \in Parents, GiveUp(p)
  PROVE  GenerationInv'
<1>1. PICK outcome \in {parent[p].outcome, "failed", "cancelled", "timed_out"} :
        parent' = [parent EXCEPT ![p].pc = "ending", ![p].outcome = outcome]
  BY DEF GiveUp
<1> DEFINE next == [parent[p] EXCEPT !.pc = "ending", !.outcome = outcome]
<1>2. /\ parent[p] \in ParentType /\ parent[p].pc = "routing"
      /\ parent' = [parent EXCEPT ![p] = next] /\ parent'[p] = next
      /\ UNCHANGED <<attempts, happened>>
  BY <1>1 DEF GiveUp, GenerationInv, GenerationTypeOK
<1>3. next \in ParentType /\ next.pc = "ending" /\ next.ids = parent[p].ids
  BY <1>2 DEF ParentType, AttemptOutcomes
<1> HIDE DEF next
<1>4. ParentInv(p)
  BY DEF GenerationInv
<1>5. ParentInv(p)'
  BY <1>2, <1>3, <1>4
     DEF ParentInv, Started, EarlierSettled, CurrentActive, NothingSaid, EndTold, Settled
<1> QED BY <1>2, <1>3, <1>5, MovesKeeps

\* The first event fails.
LEMMA FirstEventFailsKeeps ==
  ASSUME GenerationInv, NEW p \in Parents, FirstEventFails(p)
  PROVE  GenerationInv'
<1> DEFINE next == [parent[p] EXCEPT !.pc = "routing"]
<1>1. /\ parent[p] \in ParentType /\ parent[p].pc = "open" /\ ParentInv(p)
      /\ parent' = [parent EXCEPT ![p] = next]
  BY DEF FirstEventFails, GenerationInv, GenerationTypeOK
<1>2. /\ next \in ParentType /\ next.pc = "routing" /\ next.ids = parent[p].ids
      /\ next.mixed = parent[p].mixed /\ next.outcome = parent[p].outcome
      /\ next.response = parent[p].response
  BY <1>1 DEF ParentType
<1> HIDE DEF next
<1>3. next.mixed \/ (next.outcome = "succeeded" /\ next.response = 0)
  <2>1. ~parent[p].mixed => parent[p].outcome = "succeeded" /\ parent[p].response = 0
    BY <1>1 DEF ParentInv, NothingSaid
  <2>2. parent[p].mixed \in BOOLEAN
    BY <1>1 DEF ParentType
  <2> QED BY <1>2, <2>1, <2>2
<1>4. /\ happened' = [happened EXCEPT ![Current(p)] = [outcome |-> "failed", mixed |-> TRUE]]
      /\ UNCHANGED attempts
  BY DEF FirstEventFails, EndsAndGoesOn
<1>5. "failed" \in AttemptOutcomes \ {"active"}
  BY DEF AttemptOutcomes
<1> QED BY <1>1, <1>2, <1>3, <1>4, <1>5, EndsKeeps

\* The client cannot be written to.
LEMMA WriteFailsKeeps ==
  ASSUME GenerationInv, NEW p \in Parents, WriteFails(p)
  PROVE  GenerationInv'
<1> DEFINE next == [parent[p] EXCEPT !.pc = "ending", !.mixed = TRUE]
<1>1. /\ parent[p] \in ParentType /\ parent[p].pc = "open"
      /\ parent' = [parent EXCEPT ![p] = next]
  BY DEF WriteFails, GenerationInv, GenerationTypeOK
<1>2. next \in ParentType /\ next.pc = "ending" /\ next.ids = parent[p].ids
  BY <1>1 DEF ParentType
<1> HIDE DEF next
<1>3. /\ happened' = [happened EXCEPT ![Current(p)] = [outcome |-> "cancelled", mixed |-> TRUE]]
      /\ UNCHANGED attempts
  BY DEF WriteFails, EndsAndGoesOn
<1>4. "cancelled" \in AttemptOutcomes \ {"active"}
  BY DEF AttemptOutcomes
<1> QED BY <1>1, <1>2, <1>3, <1>4, EndsKeeps

\* What Ends writes is a whole record.
LEMMA EndingOf ==
  ASSUME NEW p \in Parents, NEW outcome \in AttemptOutcomes, Ends(p, outcome),
         happened[Current(p)] \in [outcome: AttemptOutcomes, mixed: BOOLEAN],
         happened[Current(p)].mixed = parent[p].mixed
  PROVE  /\ happened' = [happened EXCEPT ![Current(p)] =
                           [outcome |-> outcome, mixed |-> parent[p].mixed]]
         /\ UNCHANGED attempts
<1>1. [happened[Current(p)] EXCEPT !.outcome = outcome] =
        [outcome |-> outcome, mixed |-> parent[p].mixed]
  OBVIOUS
<1> QED BY <1>1 DEF Ends

\* The response is complete.
LEMMA CompleteKeeps ==
  ASSUME GenerationInv, NEW p \in Parents, Complete(p)
  PROVE  GenerationInv'
<1>1. /\ parent \in [Parents -> ParentType] /\ parent[p] \in ParentType
      /\ parent[p].pc = "open" /\ ParentInv(p)
      /\ happened \in Seq([outcome: AttemptOutcomes, mixed: BOOLEAN])
      /\ Len(happened) = Len(attempts) /\ Len(attempts) \in Nat
  BY DEF Complete, GenerationInv, GenerationTypeOK
<1>2. /\ Current(p) \in 1..Len(attempts) /\ Current(p) \in Nat
      /\ happened[Current(p)] \in [outcome: AttemptOutcomes, mixed: BOOLEAN]
      /\ happened[Current(p)].mixed = parent[p].mixed
  <2>1. Current(p) \in 1..Len(attempts) /\ happened[Current(p)].mixed = parent[p].mixed
    BY <1>1, AtWork
  <2>2. Current(p) \in Nat
    BY <1>1, <2>1
  <2>3. happened[Current(p)] \in [outcome: AttemptOutcomes, mixed: BOOLEAN]
    BY <1>1, <2>1, ElementOfSeq
  <2> QED BY <2>1, <2>2, <2>3
<1>3. "succeeded" \in AttemptOutcomes \ {"active"} /\ parent[p].response \in Nat
  BY <1>1 DEF AttemptOutcomes, ParentType
<1>4. CASE /\ Ends(p, "succeeded")
           /\ \E response \in {parent[p].response, Current(p)} :
                parent' = [parent EXCEPT ![p].pc = "ending", ![p].response = response]
  <2>1. PICK response \in {parent[p].response, Current(p)} :
          parent' = [parent EXCEPT ![p].pc = "ending", ![p].response = response]
    BY <1>4
  <2> DEFINE next == [parent[p] EXCEPT !.pc = "ending", !.response = response]
             mixed == parent[p].mixed
  <2>2. parent' = [parent EXCEPT ![p] = next]
    BY <1>1, <2>1
  <2>3. /\ next \in ParentType /\ next.pc = "ending" /\ next.ids = parent[p].ids
        /\ next.outcome = parent[p].outcome /\ next.response = response
    BY <1>1, <1>2, <1>3 DEF ParentType
  <2>4. /\ happened' = [happened EXCEPT ![Current(p)] = [outcome |-> "succeeded", mixed |-> mixed]]
        /\ UNCHANGED attempts
    BY <1>1, <1>2, <1>3, <1>4, EndingOf
  <2>5. mixed \in BOOLEAN
    BY <1>1 DEF ParentType
  <2> HIDE DEF next, mixed
  <2>6. \/ mixed
        \/ /\ next.outcome = "succeeded"
           /\ next.response \in {0, Current(p)}
    BY <1>1, <2>1, <2>3 DEF ParentInv, NothingSaid, mixed
  <2> QED BY <1>1, <1>3, <2>2, <2>3, <2>4, <2>5, <2>6, EndsKeeps
<1>5. CASE /\ EndsAndGoesOn(p, "succeeded")
           /\ parent' = [parent EXCEPT ![p].pc = "routing", ![p].response = Current(p),
                                       ![p].mixed = TRUE]
  <2> DEFINE next == [parent[p] EXCEPT !.pc = "routing", !.response = Current(p), !.mixed = TRUE]
  <2>1. parent' = [parent EXCEPT ![p] = next]
    BY <1>1, <1>5
  <2>2. next \in ParentType /\ next.pc = "routing" /\ next.mixed /\ next.ids = parent[p].ids
    BY <1>1, <1>2 DEF ParentType
  <2> HIDE DEF next
  <2>3. /\ happened' = [happened EXCEPT ![Current(p)] = [outcome |-> "succeeded", mixed |-> TRUE]]
        /\ UNCHANGED attempts
    BY <1>5 DEF EndsAndGoesOn
  <2> QED BY <1>1, <1>3, <2>1, <2>2, <2>3, EndsKeeps
<1> QED BY <1>4, <1>5 DEF Complete

\* The response breaks off.
LEMMA BreakOffKeeps ==
  ASSUME GenerationInv, NEW p \in Parents, BreakOff(p)
  PROVE  GenerationInv'
<1>1. /\ parent \in [Parents -> ParentType] /\ parent[p] \in ParentType
      /\ parent[p].pc = "open"
      /\ happened \in Seq([outcome: AttemptOutcomes, mixed: BOOLEAN])
      /\ Len(happened) = Len(attempts) /\ Len(attempts) \in Nat
  BY DEF BreakOff, GenerationInv, GenerationTypeOK
<1>2. /\ Current(p) \in 1..Len(attempts) /\ Current(p) \in Nat
      /\ happened[Current(p)] \in [outcome: AttemptOutcomes, mixed: BOOLEAN]
      /\ happened[Current(p)].mixed = parent[p].mixed
  <2>1. Current(p) \in 1..Len(attempts) /\ happened[Current(p)].mixed = parent[p].mixed
    BY <1>1, AtWork
  <2>2. Current(p) \in Nat
    BY <1>1, <2>1
  <2>3. happened[Current(p)] \in [outcome: AttemptOutcomes, mixed: BOOLEAN]
    BY <1>1, <2>1, ElementOfSeq
  <2> QED BY <2>1, <2>2, <2>3
<1>3. PICK outcome \in {"failed", "cancelled", "timed_out"}, response \in {0, Current(p)} :
        LET told == [parent[p] EXCEPT !.outcome = outcome, !.response = response]
        IN  \/ /\ Ends(p, outcome)
               /\ parent' = [parent EXCEPT ![p] = [told EXCEPT !.pc = "ending"]]
            \/ /\ outcome = "failed" /\ EndsAndGoesOn(p, outcome)
               /\ parent' = [parent EXCEPT ![p] = [told EXCEPT !.pc = "routing", !.mixed = TRUE]]
  BY DEF BreakOff
<1> DEFINE told == [parent[p] EXCEPT !.outcome = outcome, !.response = response]
<1>4. /\ told \in ParentType /\ told.ids = parent[p].ids
      /\ told.outcome = outcome /\ told.response = response
      /\ outcome \in AttemptOutcomes \ {"active"}
  <2>1. outcome \in AttemptOutcomes \ {"active"} /\ response \in Nat
    BY <1>2 DEF AttemptOutcomes
  <2> QED BY <1>1, <2>1 DEF ParentType
<1> HIDE DEF told
<1>5. CASE Ends(p, outcome) /\ parent' = [parent EXCEPT ![p] = [told EXCEPT !.pc = "ending"]]
  <2> DEFINE next == [told EXCEPT !.pc = "ending"]
             mixed == parent[p].mixed
  <2>1. /\ next \in ParentType /\ next.pc = "ending" /\ next.ids = parent[p].ids
        /\ next.outcome = outcome /\ next.response = response
        /\ mixed \in BOOLEAN
    BY <1>1, <1>4 DEF ParentType
  <2>2. /\ happened' = [happened EXCEPT ![Current(p)] = [outcome |-> outcome, mixed |-> mixed]]
        /\ UNCHANGED attempts
    BY <1>1, <1>2, <1>4, <1>5, EndingOf
  <2> HIDE DEF next, mixed
  <2>3. parent' = [parent EXCEPT ![p] = next]
    BY <1>5 DEF next
  <2> QED BY <1>1, <1>3, <1>4, <2>1, <2>2, <2>3, EndsKeeps
<1>6. CASE /\ EndsAndGoesOn(p, outcome)
           /\ parent' = [parent EXCEPT ![p] = [told EXCEPT !.pc = "routing", !.mixed = TRUE]]
  <2> DEFINE next == [told EXCEPT !.pc = "routing", !.mixed = TRUE]
  <2>1. next \in ParentType /\ next.pc = "routing" /\ next.mixed /\ next.ids = parent[p].ids
    BY <1>4 DEF ParentType
  <2>2. /\ happened' = [happened EXCEPT ![Current(p)] = [outcome |-> outcome, mixed |-> TRUE]]
        /\ UNCHANGED attempts
    BY <1>6 DEF EndsAndGoesOn
  <2> HIDE DEF next
  <2>3. parent' = [parent EXCEPT ![p] = next]
    BY <1>6 DEF next
  <2> QED BY <1>1, <1>4, <2>1, <2>2, <2>3, EndsKeeps
<1> QED BY <1>3, <1>5, <1>6 DEF told

\* The record is settled afterwards, once and for all, and no other one changes.
LEMMA FinishedOnce ==
  ASSUME GenerationTypeOK, NEW n \in 1..Len(attempts), NEW outcome \in AttemptOutcomes \ {"active"},
         NEW response \in Nat, FinishGeneration(n, outcome, response)
  PROVE  /\ attempts' \in Seq([outcome: AttemptOutcomes, response: Nat, logged: BOOLEAN])
         /\ Len(attempts') = Len(attempts)
         /\ \A m \in 1..Len(attempts) : m # n => attempts'[m] = attempts[m]
         /\ attempts'[n].outcome # "active"
         /\ attempts[n].outcome # "active" => attempts'[n] = attempts[n]
         /\ attempts[n].outcome = "active" =>
              attempts'[n].outcome = outcome /\ attempts'[n].response = response
<1>1. /\ attempts \in Seq([outcome: AttemptOutcomes, response: Nat, logged: BOOLEAN])
      /\ Len(attempts) \in Nat
  BY DEF GenerationTypeOK
<1>2. CASE attempts[n].outcome # "active"
  BY <1>1, <1>2 DEF FinishGeneration
<1>3. CASE attempts[n].outcome = "active"
  <2>1. PICK logged \in BOOLEAN :
          attempts' = [attempts EXCEPT ![n] =
                         [outcome |-> outcome, response |-> response, logged |-> logged]]
    BY <1>3 DEF FinishGeneration
  <2> DEFINE record == [outcome |-> outcome, response |-> response, logged |-> logged]
  <2>2. /\ record \in [outcome: AttemptOutcomes, response: Nat, logged: BOOLEAN]
        /\ record.outcome = outcome /\ record.response = response
    OBVIOUS
  <2>3. attempts' = [attempts EXCEPT ![n] = record]
    BY <2>1
  <2> HIDE DEF record
  <2>4. /\ attempts' \in Seq([outcome: AttemptOutcomes, response: Nat, logged: BOOLEAN])
        /\ Len(attempts') = Len(attempts) /\ attempts'[n] = record
        /\ \A m \in 1..Len(attempts) : m # n => attempts'[m] = attempts[m]
    BY <1>1, <2>2, <2>3
  <2> QED BY <1>3, <2>2, <2>4
<1> QED BY <1>2, <1>3

\* A generation starts for an attempt.
LEMMA StartGenerationKeeps ==
  ASSUME GenerationInv, NEW p \in Parents, StartGeneration(p)
  PROVE  GenerationInv'
<1>1. /\ parent \in [Parents -> ParentType] /\ parent[p] \in ParentType
      /\ parent[p].pc = "routing" /\ ParentInv(p)
      /\ attempts \in Seq([outcome: AttemptOutcomes, response: Nat, logged: BOOLEAN])
      /\ happened \in Seq([outcome: AttemptOutcomes, mixed: BOOLEAN])
      /\ Len(happened) = Len(attempts) /\ Len(attempts) \in Nat
  BY DEF StartGeneration, GenerationInv, GenerationTypeOK
<1>2. PICK n \in Nat : n = Len(attempts) + 1
  BY <1>1
<1>3. PICK record \in [outcome: AttemptOutcomes, response: Nat, logged: BOOLEAN] :
        attempts' = Append(attempts, record) /\ record.outcome = "active"
  <2>1. "active" \in AttemptOutcomes
    BY DEF AttemptOutcomes
  <2> DEFINE record == [outcome |-> "active", response |-> 0, logged |-> FALSE]
  <2>2. record \in [outcome: AttemptOutcomes, response: Nat, logged: BOOLEAN] /\ record.outcome = "active"
    BY <2>1
  <2> QED BY <2>2 DEF StartGeneration
<1>4. PICK truth \in [outcome: AttemptOutcomes, mixed: BOOLEAN] :
        happened' = Append(happened, truth) /\ truth.mixed = parent[p].mixed
  <2>1. "active" \in AttemptOutcomes /\ parent[p].mixed \in BOOLEAN
    BY <1>1 DEF AttemptOutcomes, ParentType
  <2> DEFINE truth == [outcome |-> "active", mixed |-> parent[p].mixed]
  <2>2. truth \in [outcome: AttemptOutcomes, mixed: BOOLEAN] /\ truth.mixed = parent[p].mixed
    BY <2>1
  <2> QED BY <2>2 DEF StartGeneration
<1>5. /\ parent[p].ids \in Seq(Nat) /\ Len(parent[p].ids) \in Nat
  BY <1>1 DEF ParentType
<1>6. PICK next \in ParentType :
        /\ parent' = [parent EXCEPT ![p] = next]
        /\ next.pc = "opening" /\ next.ids = Append(parent[p].ids, n)
        /\ next.outcome = parent[p].outcome /\ next.response = parent[p].response
        /\ next.mixed = parent[p].mixed
  <2> DEFINE longer == Append(parent[p].ids, n)
             next == [parent[p] EXCEPT !.pc = "opening", !.ids = longer]
  <2>1. parent' = [parent EXCEPT ![p] = next]
    BY <1>1, <1>2 DEF StartGeneration
  <2>2. longer \in Seq(Nat)
    BY <1>5
  <2> HIDE DEF longer
  <2>3. /\ next \in ParentType /\ next.pc = "opening" /\ next.ids = longer
        /\ next.outcome = parent[p].outcome /\ next.response = parent[p].response
        /\ next.mixed = parent[p].mixed
    BY <1>1, <2>2 DEF ParentType
  <2> HIDE DEF next
  <2> QED BY <2>1, <2>3 DEF longer
<1>7. /\ attempts' \in Seq([outcome: AttemptOutcomes, response: Nat, logged: BOOLEAN])
      /\ happened' \in Seq([outcome: AttemptOutcomes, mixed: BOOLEAN])
      /\ Len(attempts') = n /\ Len(happened') = n /\ n \in 1..Len(attempts')
      /\ attempts'[n] = record /\ happened'[n] = truth
      /\ \A m \in 1..Len(attempts) : attempts'[m] = attempts[m] /\ happened'[m] = happened[m]
  BY <1>1, <1>2, <1>3, <1>4
<1>8. /\ Len(next.ids) = Len(parent[p].ids) + 1 /\ next.ids[Len(next.ids)] = n
      /\ \A i \in 1..Len(parent[p].ids) : next.ids[i] = parent[p].ids[i]
  BY <1>2, <1>5, <1>6
<1>9. parent'[p] = next /\ \A q \in Parents \ {p} : parent'[q] = parent[q]
  BY <1>1, <1>6
<1>10. GenerationTypeOK'
  BY <1>1, <1>6, <1>7 DEF GenerationTypeOK
<1>11. \A q \in Parents \ {p} : ParentInv(q)'
  <2>1. Len(attempts) <= Len(attempts')
    BY <1>1, <1>2, <1>7
  <2> QED BY <1>7, <1>9, <2>1, OthersKept
<1>12. Apart'
  <2>1. ASSUME NEW i \in 1..Len(next.ids)
        PROVE  \/ \E j \in 1..Len(parent[p].ids) : next.ids[i] = parent[p].ids[j]
               \/ next.ids[i] = Len(attempts) + 1
    <3>1. CASE i = Len(next.ids)
      BY <1>2, <1>8, <3>1
    <3>2. CASE i # Len(next.ids)
      <4>1. i \in 1..Len(parent[p].ids)
        BY <1>5, <1>8, <3>2
      <4> QED BY <1>8, <4>1
    <3> QED BY <3>1, <3>2
  <2> QED BY <1>9, <2>1, StayApart
<1>13. ParentInv(p)'
  <2>1. Started(p)'
    <3> SUFFICES ASSUME NEW i \in 1..Len(next.ids) PROVE next.ids[i] \in 1..Len(attempts')
      BY <1>9 DEF Started
    <3>1. CASE i = Len(next.ids)
      BY <1>7, <1>8, <3>1
    <3>2. CASE i # Len(next.ids)
      <4>1. i \in 1..Len(parent[p].ids)
        BY <1>5, <1>8, <3>2
      <4>2. parent[p].ids[i] \in 1..Len(attempts)
        BY <1>1, <4>1 DEF ParentInv, Started
      <4>3. next.ids[i] = parent[p].ids[i]
        BY <1>8, <4>1
      <4> QED BY <1>1, <1>2, <1>7, <4>2, <4>3
    <3> QED BY <3>1, <3>2
  <2>2. EarlierSettled(p)'
    <3>1. Len(next.ids) - 1 = Len(parent[p].ids)
      BY <1>5, <1>8
    <3> SUFFICES ASSUME NEW i \in 1..Len(parent[p].ids) PROVE Settled(next.ids[i])'
      BY <1>6, <1>9, <3>1 DEF EarlierSettled, Settled
    <3>2. Settled(parent[p].ids[i]) /\ parent[p].ids[i] \in 1..Len(attempts)
      BY <1>1 DEF ParentInv, EarlierSettled, Started
    <3> QED BY <1>7, <1>8, <3>2 DEF Settled
  <2>3. CurrentActive(p)'
    <3>1. Len(next.ids) > 0
      BY <1>5, <1>8
    <3>2. Current(p)' = n
      BY <1>8, <1>9 DEF Current, Last
    <3>3. /\ attempts'[n].outcome = "active" /\ happened'[n].mixed = parent'[p].mixed
          /\ Len(parent'[p].ids) > 0
      BY <1>3, <1>4, <1>6, <1>7, <1>9, <3>1
    <3> QED BY <3>2, <3>3 DEF CurrentActive
  <2>4. NothingSaid(p)' /\ EndTold(p)'
    BY <1>1, <1>6, <1>9 DEF ParentInv, NothingSaid, EndTold
  <2> QED BY <2>1, <2>2, <2>3, <2>4 DEF ParentInv
<1>14. GenerationsTold'
  <2>1. DOMAIN attempts = 1..Len(attempts) /\ DOMAIN attempts' = 1..Len(attempts')
    BY <1>1, <1>7
  <2>2. \A m \in 1..Len(attempts') : m \in 1..Len(attempts) \/ m = n
    BY <1>1, <1>2, <1>7
  <2> QED BY <1>3, <1>7, <2>1, <2>2 DEF GenerationInv, GenerationsTold, LogTells
<1> QED BY <1>10, <1>9, <1>11, <1>12, <1>13, <1>14 DEF GenerationInv

\* The stream cannot be opened.
LEMMA OpenFailsKeeps ==
  ASSUME GenerationInv, NEW p \in Parents, OpenFails(p)
  PROVE  GenerationInv'
<1>1. /\ parent \in [Parents -> ParentType] /\ parent[p] \in ParentType
      /\ parent[p].pc = "opening" /\ ParentInv(p) /\ GenerationTypeOK
      /\ happened \in Seq([outcome: AttemptOutcomes, mixed: BOOLEAN])
      /\ Len(happened) = Len(attempts) /\ Len(attempts) \in Nat
  BY DEF OpenFails, GenerationInv, GenerationTypeOK
<1>2. /\ Current(p) \in 1..Len(attempts)
      /\ \E i \in 1..Len(parent[p].ids) : parent[p].ids[i] = Current(p)
      /\ attempts[Current(p)].outcome = "active"
      /\ \A i \in 1..Len(parent[p].ids) :
           parent[p].ids[i] # Current(p) => Settled(parent[p].ids[i])
  BY <1>1, AtWork
<1>3. PICK next \in ParentType :
        /\ parent' = [parent EXCEPT ![p] = next]
        /\ next.ids = parent[p].ids
        /\ \/ /\ next.pc = "routing" /\ next.mixed = parent[p].mixed
              /\ next.outcome = parent[p].outcome /\ next.response = parent[p].response
           \/ next.pc = "ending"
  <2>1. CASE parent' = [parent EXCEPT ![p].pc = "routing"]
    <3> DEFINE next == [parent[p] EXCEPT !.pc = "routing"]
    <3>1. parent' = [parent EXCEPT ![p] = next]
      BY <1>1, <2>1
    <3>2. /\ next \in ParentType /\ next.ids = parent[p].ids
          /\ next.pc = "routing" /\ next.mixed = parent[p].mixed
          /\ next.outcome = parent[p].outcome /\ next.response = parent[p].response
      BY <1>1 DEF ParentType
    <3> HIDE DEF next
    <3> QED BY <3>1, <3>2
  <2>2. ASSUME NEW outcome \in {"succeeded", "failed", "cancelled", "timed_out"},
               parent' = [parent EXCEPT ![p].pc = "ending", ![p].outcome = outcome]
        PROVE  \E next \in ParentType :
                 /\ parent' = [parent EXCEPT ![p] = next]
                 /\ next.ids = parent[p].ids /\ next.pc = "ending"
    <3> DEFINE next == [parent[p] EXCEPT !.pc = "ending", !.outcome = outcome]
    <3>1. parent' = [parent EXCEPT ![p] = next]
      BY <1>1, <2>2
    <3>2. next \in ParentType /\ next.ids = parent[p].ids /\ next.pc = "ending"
      <4>1. outcome \in AttemptOutcomes \ {"active"}
        BY DEF AttemptOutcomes
      <4> QED BY <1>1, <4>1 DEF ParentType
    <3> HIDE DEF next
    <3> QED BY <3>1, <3>2
  <2> QED BY <2>1, <2>2 DEF OpenFails
<1>4. "failed" \in AttemptOutcomes \ {"active"} /\ 0 \in Nat
  BY DEF AttemptOutcomes
<1>5. FinishGeneration(Current(p), "failed", 0)
  BY DEF OpenFails
<1>6. /\ attempts' \in Seq([outcome: AttemptOutcomes, response: Nat, logged: BOOLEAN])
      /\ Len(attempts') = Len(attempts)
      /\ \A m \in 1..Len(attempts) : m # Current(p) => attempts'[m] = attempts[m]
      /\ attempts'[Current(p)].outcome = "failed" /\ attempts'[Current(p)].response = 0
  BY <1>1, <1>2, <1>4, <1>5, FinishedOnce
<1> DEFINE truth == [outcome |-> "failed", mixed |-> FALSE]
<1>7. truth \in [outcome: AttemptOutcomes, mixed: BOOLEAN] /\ truth.outcome = "failed"
  BY <1>4
<1>8. happened' = [happened EXCEPT ![Current(p)] = truth]
  BY DEF OpenFails
<1> HIDE DEF truth
<1>9. /\ happened' \in Seq([outcome: AttemptOutcomes, mixed: BOOLEAN])
      /\ Len(happened') = Len(happened) /\ happened'[Current(p)].outcome = "failed"
      /\ \A m \in 1..Len(attempts) : m # Current(p) => happened'[m] = happened[m]
  <2>1. /\ happened \in Seq([outcome: AttemptOutcomes, mixed: BOOLEAN])
        /\ Len(happened) = Len(attempts) /\ Current(p) \in 1..Len(happened)
    BY <1>1, <1>2
  <2>2. happened' \in Seq([outcome: AttemptOutcomes, mixed: BOOLEAN])
    BY <1>7, <1>8, <2>1
  <2>3. /\ Len(happened') = Len(happened) /\ happened'[Current(p)] = truth
        /\ \A m \in 1..Len(happened) : m # Current(p) => happened'[m] = happened[m]
    BY <1>8, <2>1
  <2>4. happened'[Current(p)].outcome = "failed"
    BY <1>7, <2>3
  <2>5. \A m \in 1..Len(attempts) : m # Current(p) => happened'[m] = happened[m]
    BY <2>1, <2>3
  <2> QED BY <2>2, <2>3, <2>4, <2>5
<1>10. parent'[p] = next /\ \A q \in Parents \ {p} : parent'[q] = parent[q]
  BY <1>1, <1>3
<1>11. GenerationTypeOK'
  BY <1>1, <1>3, <1>6, <1>9 DEF GenerationTypeOK
<1>12. \A q \in Parents \ {p} : ParentInv(q)'
  BY <1>1, <1>2, <1>6, <1>9, <1>10, OthersKept
<1>13. Apart'
  BY <1>3, <1>10, StayApart
<1>14. ParentInv(p)'
  <2>1. \A i \in 1..Len(next.ids) : Settled(next.ids[i])'
    <3> SUFFICES ASSUME NEW i \in 1..Len(next.ids) PROVE Settled(next.ids[i])'
      OBVIOUS
    <3>1. next.ids[i] \in 1..Len(attempts)
      BY <1>1, <1>3 DEF ParentInv, Started
    <3>2. next.ids[i] # Current(p) => Settled(next.ids[i])
      BY <1>2, <1>3
    <3> QED BY <1>6, <1>9, <3>1, <3>2 DEF Settled
  <2>2. Started(p)'
    BY <1>1, <1>3, <1>6, <1>10 DEF ParentInv, Started
  <2>3. EarlierSettled(p)' /\ CurrentActive(p)' /\ EndTold(p)'
    BY <1>3, <1>10, <2>1 DEF EarlierSettled, CurrentActive, EndTold, Settled
  <2>4. NothingSaid(p)'
    BY <1>1, <1>3, <1>10 DEF ParentInv, NothingSaid
  <2> QED BY <2>2, <2>3, <2>4 DEF ParentInv
<1>15. GenerationsTold'
  <2>1. DOMAIN attempts = 1..Len(attempts) /\ DOMAIN attempts' = 1..Len(attempts)
    BY <1>1, <1>6 DEF GenerationTypeOK
  <2> QED BY <1>6, <1>9, <2>1 DEF GenerationInv, GenerationsTold, LogTells
<1> QED BY <1>10, <1>11, <1>12, <1>13, <1>14, <1>15 DEF GenerationInv

\* Whatever was started is finished.
LEMMA FinishGenerationsKeeps ==
  ASSUME GenerationInv, NEW p \in Parents, FinishGenerations(p)
  PROVE  GenerationInv'
<1>1. /\ parent \in [Parents -> ParentType] /\ parent[p] \in ParentType
      /\ parent[p].pc = "ending" /\ ParentInv(p) /\ GenerationTypeOK
      /\ attempts \in Seq([outcome: AttemptOutcomes, response: Nat, logged: BOOLEAN])
      /\ happened \in Seq([outcome: AttemptOutcomes, mixed: BOOLEAN])
      /\ Len(happened) = Len(attempts) /\ Len(attempts) \in Nat
      /\ UNCHANGED happened
  BY DEF FinishGenerations, GenerationInv, GenerationTypeOK
<1>2. /\ parent[p].ids \in Seq(Nat) /\ Len(parent[p].ids) \in Nat
      /\ parent[p].outcome \in AttemptOutcomes \ {"active"} /\ parent[p].response \in Nat
  BY <1>1 DEF ParentType
<1>3. CASE parent[p].ids = <<>>
  <2>1. parent' = [parent EXCEPT ![p] = NoParent] /\ UNCHANGED <<attempts, happened>>
    BY <1>1, <1>3 DEF FinishGenerations
  <2>2. /\ NoParent \in ParentType /\ NoParent.ids = <<>> /\ NoParent.pc = "idle"
    BY DEF NoParent, ParentType, AttemptOutcomes
  <2>3. parent'[p] = NoParent
    BY <1>1, <2>1
  <2>4. 1..Len(NoParent.ids) = {}
    BY <2>2
  <2>5. ParentInv(p)'
    BY <2>2, <2>3, <2>4
       DEF ParentInv, Started, EarlierSettled, CurrentActive, NothingSaid, EndTold
  <2> QED BY <2>1, <2>2, <2>4, <2>5, MovesKeeps
<1>4. CASE parent[p].ids # <<>>
  <2>1. PICK n \in Nat : n = parent[p].ids[1] /\ n \in 1..Len(attempts)
    <3>1. 1 \in 1..Len(parent[p].ids)
      BY <1>2, <1>4
    <3>2. parent[p].ids[1] \in 1..Len(attempts)
      BY <1>1, <3>1 DEF ParentInv, Started
    <3> QED BY <1>1, <3>2
  <2>2. \/ Settled(n)
        \/ /\ parent[p].outcome = happened[n].outcome
           /\ parent[p].response \in {0, n}
    <3>1. 1 \in 1..Len(parent[p].ids)
      BY <1>2, <1>4
    <3> QED BY <1>1, <2>1, <3>1 DEF ParentInv, EndTold
  <2>3. FinishGeneration(n, parent[p].outcome, parent[p].response)
    BY <1>4, <2>1 DEF FinishGenerations
  <2>4. /\ attempts' \in Seq([outcome: AttemptOutcomes, response: Nat, logged: BOOLEAN])
        /\ Len(attempts') = Len(attempts)
        /\ \A m \in 1..Len(attempts) : m # n => attempts'[m] = attempts[m]
        /\ attempts'[n].outcome # "active"
        /\ attempts[n].outcome # "active" => attempts'[n] = attempts[n]
        /\ attempts[n].outcome = "active" =>
             /\ attempts'[n].outcome = parent[p].outcome
             /\ attempts'[n].response = parent[p].response
    <3>1. /\ GenerationTypeOK /\ n \in 1..Len(attempts)
          /\ parent[p].outcome \in AttemptOutcomes \ {"active"} /\ parent[p].response \in Nat
      BY <1>1, <1>2, <2>1
    <3> QED BY <2>3, <3>1, FinishedOnce
  <2>5. PICK next \in ParentType :
          /\ parent' = [parent EXCEPT ![p] = next]
          /\ next.pc = "ending" /\ next.ids = Tail(parent[p].ids)
          /\ next.outcome = parent[p].outcome /\ next.response = parent[p].response
    <3> DEFINE rest == Tail(parent[p].ids)
               next == [parent[p] EXCEPT !.ids = rest]
    <3>1. parent' = [parent EXCEPT ![p] = next]
      BY <1>1, <1>4 DEF FinishGenerations
    <3>2. rest \in Seq(Nat)
      BY <1>2, <1>4
    <3> HIDE DEF rest
    <3>3. /\ next \in ParentType /\ next.pc = "ending" /\ next.ids = rest
          /\ next.outcome = parent[p].outcome /\ next.response = parent[p].response
      BY <1>1, <3>2 DEF ParentType
    <3> HIDE DEF next
    <3> QED BY <3>1, <3>3 DEF rest
  <2>6. \A i \in 1..Len(next.ids) :
          i + 1 \in 1..Len(parent[p].ids) /\ next.ids[i] = parent[p].ids[i + 1]
    BY <1>2, <1>4, <2>5
  <2>7. parent'[p] = next /\ \A q \in Parents \ {p} : parent'[q] = parent[q]
    BY <1>1, <2>5
  <2>8. GenerationTypeOK'
    BY <1>1, <2>4, <2>5 DEF GenerationTypeOK
  <2>9. \A q \in Parents \ {p} : ParentInv(q)'
    <3>1. 1 \in 1..Len(parent[p].ids)
      BY <1>2, <1>4
    <3>2. Len(attempts) <= Len(attempts')
      BY <1>1, <2>4
    <3>3. \A m \in 1..Len(attempts) :
            (\A i \in 1..Len(parent[p].ids) : parent[p].ids[i] # m) =>
              attempts'[m] = attempts[m] /\ happened'[m] = happened[m]
      BY <1>1, <2>1, <2>4, <3>1
    <3> QED BY <2>7, <3>2, <3>3, OthersKept
  <2>10. Apart'
    BY <2>6, <2>7, StayApart
  <2>11. ParentInv(p)'
    <3>1. Started(p)'
      BY <1>1, <2>4, <2>6, <2>7 DEF ParentInv, Started
    <3>2. EarlierSettled(p)' /\ CurrentActive(p)' /\ NothingSaid(p)'
      BY <2>5, <2>7 DEF EarlierSettled, CurrentActive, NothingSaid
    <3>3. EndTold(p)'
      <4> SUFFICES ASSUME NEW i \in 1..Len(next.ids), NEW m \in Nat, m = next.ids[i],
                          m \in 1..Len(attempts)
                   PROVE  \/ Settled(m)'
                          \/ /\ next.outcome = happened'[m].outcome
                             /\ next.response \in {0, m}
        <5>1. \A i \in 1..Len(next.ids) : next.ids[i] \in 1..Len(attempts) /\ next.ids[i] \in Nat
          <6>1. \A j \in 1..Len(parent[p].ids) : parent[p].ids[j] \in 1..Len(attempts)
            BY <1>1 DEF ParentInv, Started
          <6>2. \A j \in 1..Len(attempts) : j \in Nat
            BY <1>1
          <6> QED BY <2>6, <6>1, <6>2
        <5> QED BY <2>7, <5>1 DEF EndTold, Settled
      <4>1. CASE m = n
        BY <2>4, <4>1 DEF Settled
      <4>2. CASE m # n
        <5>1. i + 1 \in 1..Len(parent[p].ids) /\ m = parent[p].ids[i + 1]
          BY <2>6
        <5>2. \/ Settled(m)
              \/ parent[p].outcome = happened[m].outcome /\ parent[p].response \in {0, m}
          BY <1>1, <5>1 DEF ParentInv, EndTold
        <5>3. attempts'[m] = attempts[m]
          BY <2>4, <4>2
        <5> QED BY <1>1, <2>5, <5>2, <5>3 DEF Settled
      <4> QED BY <4>1, <4>2
    <3> QED BY <3>1, <3>2, <3>3 DEF ParentInv
  <2>12. GenerationsTold'
    <3>1. DOMAIN attempts = 1..Len(attempts) /\ DOMAIN attempts' = 1..Len(attempts)
      BY <1>1, <2>4
    <3> QED BY <1>1, <2>2, <2>4, <3>1 DEF GenerationInv, GenerationsTold, LogTells, Settled
  <2> QED BY <2>7, <2>8, <2>9, <2>10, <2>11, <2>12 DEF GenerationInv
<1> QED BY <1>3, <1>4
-----------------------------------------------------------------------------

\* The first state satisfies the invariant.
LEMMA FirstStateTold == GenerationInit => GenerationInv
<1> SUFFICES ASSUME GenerationInit PROVE GenerationInv
  OBVIOUS
<1>1. /\ attempts = <<>> /\ happened = <<>> /\ parent = [p \in Parents |-> NoParent]
      /\ NoParent.ids = <<>> /\ NoParent.pc = "idle" /\ NoParent \in ParentType
  BY DEF GenerationInit, NoParent, ParentType, AttemptOutcomes
<1>2. 1..Len(NoParent.ids) = {} /\ DOMAIN attempts = {}
  BY <1>1
<1>3. GenerationTypeOK
  BY <1>1 DEF GenerationTypeOK
<1>4. \A p \in Parents : ParentInv(p)
  BY <1>1, <1>2 DEF ParentInv, Started, EarlierSettled, CurrentActive, NothingSaid, EndTold
<1>5. Apart /\ GenerationsTold
  BY <1>1, <1>2 DEF Apart, GenerationsTold, LogTells
<1> QED BY <1>3, <1>4, <1>5 DEF GenerationInv

\* Every step, and every step of something else, keeps the invariant.
LEMMA EveryStepTold ==
  ASSUME GenerationInv, [GenerationNext]_generationVars
  PROVE  GenerationInv'
<1>1. ASSUME NEW p \in Parents,
             \/ Come(p) \/ StartGeneration(p) \/ OpenFails(p) \/ Open(p)
             \/ FirstEventFails(p) \/ Complete(p) \/ BreakOff(p) \/ WriteFails(p)
             \/ GiveUp(p) \/ FinishGenerations(p)
      PROVE  GenerationInv'
  BY <1>1, ComeKeeps, StartGenerationKeeps, OpenFailsKeeps, OpenKeeps, FirstEventFailsKeeps,
     CompleteKeeps, BreakOffKeeps, WriteFailsKeeps, GiveUpKeeps, FinishGenerationsKeeps
<1>2. CASE UNCHANGED generationVars
  <2>1. GenerationTypeOK' /\ GenerationsTold' /\ Apart'
    BY <1>2 DEF generationVars, GenerationInv, GenerationTypeOK, GenerationsTold, LogTells, Apart
  <2>2. ASSUME NEW p \in Parents PROVE ParentInv(p)'
    <3>1. ParentInv(p)
      BY DEF GenerationInv
    <3>2. Started(p)' /\ EarlierSettled(p)' /\ CurrentActive(p)'
      BY <1>2, <3>1
         DEF generationVars, ParentInv, Started, EarlierSettled, CurrentActive, Settled, Current
    <3>3. NothingSaid(p)' /\ EndTold(p)'
      BY <1>2, <3>1 DEF generationVars, ParentInv, NothingSaid, EndTold, Settled
    <3> QED BY <3>2, <3>3 DEF ParentInv
  <2> QED BY <2>1, <2>2 DEF GenerationInv
<1> QED BY <1>1, <1>2 DEF GenerationNext

(* The log of attempts, the truth about them and the contexts of the requests
   are always what they are declared to be; no two requests share an attempt; and
   while a request works on an attempt, each of its earlier ones is finished or
   was left behind after it had been opened, which prepareStreamForDelivery and
   the turns of a WebSocket do (StartGeneration, FinishGeneration). *)
THEOREM AttemptsKeptApart == GenerationSpec => []GenerationInv
<1> QED BY FirstStateTold, EveryStepTold, PTL DEF GenerationSpec

(* However many accounts a request tries and whatever else runs, the log says
   what became of every attempt that could not be opened, of the one whose
   response was the answer, and of the one that broke the answer off; whatever
   the handler left behind after opening it is excepted (finishGenerations). *)
THEOREM EveryAttemptTold == GenerationSpec => []GenerationsTold
<1>1. GenerationInv => GenerationsTold
  BY DEF GenerationInv
<1> QED BY <1>1, AttemptsKeptApart, PTL
=============================================================================
