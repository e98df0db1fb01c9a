---------------------------- MODULE StreamProofs ----------------------------
(***************************************************************************)
(* Proofs about the streaming endpoints, for every plan of the upstream,   *)
(* every set of ids and every endpoint: the client reads a stream that     *)
(* follows its protocol.  Each endpoint has an invariant of its own about  *)
(* what was written and what the encoder keeps: the blocks of an Anthropic *)
(* stream and the one that is open, the headers of a chat stream and the   *)
(* places of its calls, the tool events of a Responses stream and the      *)
(* flags of the accumulated calls.  The folds of the encoders are unrolled *)
(* into runs, which are followed step by step.  The last part is about     *)
(* what a Responses stream has told as done: it is in the accumulator, and *)
(* no terminal event takes it away.                                        *)
(***************************************************************************)
EXTENDS ResponseStreams, FiniteSetTheorems, SequenceTheorems, WellFoundedInduction, TLAPS

-----------------------------------------------------------------------------
(* Sequences whose elements are of no particular type *)

IsSeq(s) == \E n \in Nat : s = [k \in 1..n |-> s[k]]

Elements(s) == {s[k] : k \in DOMAIN s}

\* A sequence is one over its elements.
LEMMA SeqOfElements ==
  ASSUME NEW s, IsSeq(s)
  PROVE  /\ s \in Seq(Elements(s))
         /\ Len(s) \in Nat /\ DOMAIN s = 1..Len(s) /\ s = [k \in 1..Len(s) |-> s[k]]
<1>1. PICK n \in Nat : s = [k \in 1..n |-> s[k]]
  BY DEF IsSeq
<1>2. DOMAIN s = 1..n
  <2> DEFINE t == [k \in 1..n |-> s[k]]
  <2>1. DOMAIN t = 1..n
    OBVIOUS
  <2> QED
    BY <1>1, <2>1
<1>3. s \in [1..n -> Elements(s)]
  <2>1. \A k \in 1..n : s[k] \in Elements(s)
    BY <1>2 DEF Elements
  <2>2. [k \in 1..n |-> s[k]] \in [1..n -> Elements(s)]
    BY <2>1
  <2> QED
    BY <1>1, <2>2
<1>4. s \in Seq(Elements(s))
  BY <1>3, SeqDef
<1>5. Len(s) \in Nat /\ DOMAIN s = 1..Len(s)
  BY <1>4, LenProperties
<1>6. Len(s) = n
  BY <1>2, <1>5
<1> QED
  BY <1>1, <1>4, <1>5, <1>6

\* Nothing is a sequence.
LEMMA EmptyIsSeq == IsSeq(<<>>) /\ Len(<<>>) = 0 /\ DOMAIN <<>> = {}
<1>1. <<>> = [k \in 1..0 |-> <<>>[k]]
  OBVIOUS
<1> QED
  BY <1>1 DEF IsSeq

\* A sequence of some type is one.
LEMMA TypedIsSeq ==
  ASSUME NEW S, NEW s \in Seq(S)
  PROVE  IsSeq(s)
<1>1. Len(s) \in Nat /\ s \in [1..Len(s) -> S]
  BY LenProperties
<1>2. s = [k \in 1..Len(s) |-> s[k]]
  BY <1>1
<1> QED
  BY <1>1, <1>2 DEF IsSeq

\* Appending puts one element last and keeps the others.
LEMMA Appended ==
  ASSUME NEW s, IsSeq(s), NEW x
  PROVE  /\ IsSeq(Append(s, x)) /\ Len(s) \in Nat /\ Len(Append(s, x)) = Len(s) + 1
         /\ DOMAIN s = 1..Len(s) /\ DOMAIN Append(s, x) = 1..(Len(s) + 1)
         /\ Append(s, x)[Len(s) + 1] = x
         /\ \A k \in 1..Len(s) : Append(s, x)[k] = s[k]
<1> DEFINE S == Elements(s) \union {x}
<1>1. s \in Seq(Elements(s)) /\ Len(s) \in Nat /\ DOMAIN s = 1..Len(s)
  BY SeqOfElements
<1>2. Elements(s) \subseteq S /\ x \in S
  OBVIOUS
<1> HIDE DEF S
<1>3. s \in Seq(S)
  BY <1>1, <1>2, SeqMonotonic
<1>4. /\ Append(s, x) \in Seq(S) /\ Len(Append(s, x)) = Len(s) + 1
      /\ \A k \in 1..Len(s) : Append(s, x)[k] = s[k]
      /\ Append(s, x)[Len(s) + 1] = x
  BY <1>2, <1>3, AppendProperties
<1>5. DOMAIN Append(s, x) = 1..(Len(s) + 1)
  BY <1>4, LenProperties
<1>6. IsSeq(Append(s, x))
  BY <1>4, TypedIsSeq
<1> QED
  BY <1>1, <1>4, <1>5, <1>6

\* Concatenation keeps the elements of both, each in its order.
LEMMA Concatenated ==
  ASSUME NEW s, NEW t, IsSeq(s), IsSeq(t)
  PROVE  /\ IsSeq(s \o t) /\ Len(s) \in Nat /\ Len(t) \in Nat /\ Len(s \o t) = Len(s) + Len(t)
         /\ DOMAIN s = 1..Len(s) /\ DOMAIN t = 1..Len(t) /\ DOMAIN (s \o t) = 1..(Len(s) + Len(t))
         /\ \A k \in 1..Len(s) : (s \o t)[k] = s[k]
         /\ \A k \in 1..Len(t) : (s \o t)[Len(s) + k] = t[k]
<1> DEFINE S == Elements(s) \union Elements(t)
<1>1. /\ s \in Seq(Elements(s)) /\ Len(s) \in Nat /\ DOMAIN s = 1..Len(s)
      /\ t \in Seq(Elements(t)) /\ Len(t) \in Nat /\ DOMAIN t = 1..Len(t)
  BY SeqOfElements
<1>2. Elements(s) \subseteq S /\ Elements(t) \subseteq S
  OBVIOUS
<1> HIDE DEF S
<1>3. s \in Seq(S) /\ t \in Seq(S)
  BY <1>1, <1>2, SeqMonotonic
<1>4. s \o t \in Seq(S) /\ Len(s \o t) = Len(s) + Len(t)
  BY <1>3, ConcatProperties
<1>5. \A k \in 1..(Len(s) + Len(t)) : (s \o t)[k] = IF k <= Len(s) THEN s[k] ELSE t[k - Len(s)]
  BY <1>3, <1>4, ConcatProperties
<1>6. \A k \in 1..Len(s) : (s \o t)[k] = s[k]
  BY <1>1, <1>5
<1>7. ASSUME NEW k \in 1..Len(t) PROVE (s \o t)[Len(s) + k] = t[k]
  <2>1. Len(s) + k \in 1..(Len(s) + Len(t)) /\ ~(Len(s) + k <= Len(s)) /\ (Len(s) + k) - Len(s) = k
    BY <1>1
  <2> QED
    BY <1>5, <2>1
<1>8. DOMAIN (s \o t) = 1..(Len(s) + Len(t)) /\ IsSeq(s \o t)
  BY <1>4, LenProperties, TypedIsSeq
<1> QED
  BY <1>1, <1>4, <1>6, <1>7, <1>8

\* Replacing an element leaves a sequence, whatever is put and wherever.
LEMMA ExceptIsSeq ==
  ASSUME NEW s, IsSeq(s), NEW at, NEW x
  PROVE  IsSeq([s EXCEPT ![at] = x]) /\ Len([s EXCEPT ![at] = x]) = Len(s)
<1> DEFINE t == [s EXCEPT ![at] = x]
<1>1. Len(s) \in Nat /\ DOMAIN s = 1..Len(s)
  BY SeqOfElements
<1>2. t = [k \in 1..Len(s) |-> t[k]]
  BY <1>1
<1>3. IsSeq(t)
  BY <1>1, <1>2 DEF IsSeq
<1>4. Len(t) \in Nat /\ DOMAIN t = 1..Len(t) /\ DOMAIN t = 1..Len(s)
  BY <1>1, <1>2, <1>3, SeqOfElements
<1> QED
  BY <1>1, <1>3, <1>4

\* What holds at 0 and is kept by every step holds all the way.
LEMMA Steps ==
  ASSUME NEW n \in Nat, NEW P, 0 \in P, \A k \in 1..n : k - 1 \in P => k \in P
  PROVE  \A k \in 0..n : k \in P
<1> DEFINE Bad == {k \in 0..n : k \notin P}
<1>1. SUFFICES ASSUME Bad # {} PROVE FALSE
  OBVIOUS
<1>2. Bad \in SUBSET Nat
  OBVIOUS
<1>3. PICK m \in Bad : \A k \in Bad : ~(<<k, m>> \in OpToRel(<, Nat))
  BY <1>1, <1>2, NatLessThanWellFounded, WFMin
<1>4. \A k, j \in Nat : k < j => <<k, j>> \in OpToRel(<, Nat)
  BY DEF OpToRel
<1>5. \A k \in Bad : ~(k < m)
  <2> HIDE DEF Bad
  <2> QED
    BY <1>2, <1>3, <1>4
<1>6. m \in 1..n /\ m \notin P
  OBVIOUS
<1>7. m - 1 \in P
  BY <1>5, <1>6
<1> QED
  BY <1>6, <1>7

\* The greatest of some numbers up to n is n, if n is among them.
LEMMA MaxOfSegment ==
  ASSUME NEW n \in Nat, n > 0, NEW S \in SUBSET (1..n)
  PROVE  /\ n \in S => Max(S) = n /\ S \ {n} \in SUBSET (1..(n - 1))
         /\ n \notin S => S \in SUBSET (1..(n - 1))
<1>1. ASSUME n \in S PROVE Max(S) = n
  <2>1. \A y \in S : n >= y
    OBVIOUS
  <2>2. \A x \in S : (\A y \in S : x >= y) => x = n
    BY <1>1
  <2> QED
    BY <1>1, <2>1, <2>2 DEF Max
<1> QED
  BY <1>1

\* The first k numbers end with k.
LEMMA Segment ==
  ASSUME NEW n \in Nat, NEW k \in 1..n
  PROVE  /\ Max(1..k) = k /\ (1..k) \ {k} = 1..(k - 1)
         /\ 1..k # {} /\ 1..k \in SUBSET (1..n)
<1>1. k \in Nat /\ k > 0 /\ 1..k \in SUBSET (1..k) /\ k \in 1..k
  OBVIOUS
<1>2. Max(1..k) = k
  BY <1>1, MaxOfSegment
<1> QED
  BY <1>1, <1>2

-----------------------------------------------------------------------------
(* The steps of the encoder's folds *)

ThinkingTold(enc, parts) ==
  FoldLeft(LAMBDA e, part : Delta(e, "thinking_delta", part), enc, parts)

SentStep(id, e, part) ==
  [Delta(e, "input_json_delta", part) EXCEPT !.toolSent = Put(@, id, Get(@, id, 0) + Len(part))]

DeltasSent(enc, id, parts) == FoldLeft(LAMBDA e, part : SentStep(id, e, part), enc, parts)

FlushStep(calls, step, id) ==
  LET waiting == id \notin DOMAIN step.enc.toolSent /\ id \in DOMAIN step.enc.toolStates
  IN  CASE step.stuck \/ ~waiting -> step
        [] ~step.stuck /\ waiting /\ id \notin step.enc.toolDone -> [step EXCEPT !.stuck = TRUE]
        [] OTHER -> [step EXCEPT !.enc = SendTool(@, calls, id)]

Flushing(enc, calls) ==
  FoldLeft(LAMBDA step, id : FlushStep(calls, step, id), [enc |-> enc, stuck |-> FALSE],
           enc.toolOrder)

SettleStep(a, e, at) ==
  LET call == a.calls[at]
  IN  IF ExecutableToolState(call, a.final.respStatus)
        THEN [RegisterTool(e, call, at) EXCEPT !.toolDone = @ \union {call.call}]
        ELSE [e EXCEPT !.toolStates = Without(@, call.call)]

SearchStep(output, e, i) ==
  IF output[i].kind = "web_search_call"
    THEN CompleteWebSearch(e, output[i], WebSearchFallback(i - 1)) ELSE e

\* One part after the other.
ThinkingRun(g, enc, parts, n) ==
  g[0] = enc /\ \A k \in 1..n : g[k] = Delta(g[k - 1], "thinking_delta", parts[k])

\* The fold over the parts of a thought is such a run.
LEMMA ThinkingUnrolled ==
  ASSUME NEW enc, NEW parts, NEW n \in Nat, DOMAIN parts = 1..n
  PROVE  \E g : ThinkingRun(g, enc, parts, n) /\ ThinkingTold(enc, parts) = g[n]
<1> DEFINE s == parts
           Fold(f, D) == f = [S \in SUBSET D |->
             IF S = {} THEN enc ELSE Delta(f[S \ {Max(S)}], "thinking_delta", s[Max(S)])]
           f == CHOOSE f : Fold(f, DOMAIN s)
           P == {m \in Nat : \E h : Fold(h, 1..m)}
<1>1. ThinkingTold(enc, parts) = f[DOMAIN s]
  BY DEF FoldLeft, MapThenFoldSet, ThinkingTold
<1>2. DOMAIN s = 1..n /\ \A k : s[k] = parts[k]
  OBVIOUS
<1> HIDE DEF s
<1>3. 0 \in P
  <2>1. \A S \in SUBSET (1..0) : S = {}
    OBVIOUS
  <2>2. Fold([S \in SUBSET (1..0) |-> enc], 1..0)
    BY <2>1
  <2> QED
    BY <2>2
<1>4. ASSUME NEW k \in 1..n, k - 1 \in P PROVE k \in P
  <2>1. PICK h : Fold(h, 1..(k - 1))
    BY <1>4
  <2> DEFINE longer == [S \in SUBSET (1..k) |->
               IF k \in S THEN Delta(h[S \ {k}], "thinking_delta", s[k]) ELSE h[S]]
  <2>2. longer = [S \in SUBSET (1..k) |-> longer[S]]
    OBVIOUS
  <2>3. \A S \in SUBSET (1..(k - 1)) : S \in SUBSET (1..k) /\ longer[S] = h[S]
    OBVIOUS
  <2>4. \A S \in SUBSET (1..k) : k \in S => longer[S] = Delta(h[S \ {k}], "thinking_delta", s[k])
    OBVIOUS
  <2> HIDE DEF longer
  <2>5. ASSUME NEW S \in SUBSET (1..k), S # {}
        PROVE  longer[S] = Delta(longer[S \ {Max(S)}], "thinking_delta", s[Max(S)])
    <3>1. CASE k \in S
      <4>1. Max(S) = k /\ S \ {k} \in SUBSET (1..(k - 1))
        BY <3>1, MaxOfSegment
      <4> QED
        BY <3>1, <4>1, <2>3, <2>4
    <3>2. CASE k \notin S
      <4>1. S \in SUBSET (1..(k - 1))
        BY <3>2, MaxOfSegment
      <4>2. S \ {Max(S)} \in SUBSET (1..(k - 1))
        BY <4>1
      <4>3. h[S] = Delta(h[S \ {Max(S)}], "thinking_delta", s[Max(S)])
        BY <2>1, <2>5, <4>1
      <4> QED
        BY <2>3, <4>1, <4>2, <4>3
    <3> QED
      BY <3>1, <3>2
  <2>6. longer[{}] = enc
    BY <2>1, <2>3
  <2>7. Fold(longer, 1..k)
    BY <2>2, <2>5, <2>6
  <2>8. k \in Nat
    OBVIOUS
  <2> HIDE DEF Fold
  <2> QED
    BY <2>7, <2>8
<1>5. Fold(f, 1..n)
  <2> HIDE DEF P
  <2>1. n \in P
    BY <1>3, <1>4, Steps
  <2> QED
    BY <1>2, <2>1 DEF P
<1> HIDE DEF f
<1> DEFINE g == [k \in 0..n |-> f[1..k]]
<1>6. g[0] = enc /\ g[n] = f[DOMAIN s]
  <2>1. 1..0 = {} /\ {} \in SUBSET (1..n) /\ 0 \in 0..n /\ n \in 0..n
    OBVIOUS
  <2>2. f[{}] = enc
    BY <1>5, <2>1
  <2> QED
    BY <1>2, <2>1, <2>2
<1>7. ASSUME NEW k \in 1..n PROVE g[k] = Delta(g[k - 1], "thinking_delta", parts[k])
  <2>1. Max(1..k) = k /\ (1..k) \ {k} = 1..(k - 1) /\ 1..k # {} /\ 1..k \in SUBSET (1..n)
    BY Segment
  <2>2. f[1..k] = Delta(f[1..(k - 1)], "thinking_delta", s[k])
    BY <1>5, <2>1
  <2>3. k \in 0..n /\ k - 1 \in 0..n
    OBVIOUS
  <2> QED
    BY <1>2, <2>2, <2>3
<1> HIDE DEF g
<1>8. ThinkingRun(g, enc, parts, n) /\ ThinkingTold(enc, parts) = g[n]
  BY <1>1, <1>6, <1>7 DEF ThinkingRun
<1> QED
  BY <1>8

\* One fragment after the other.
SentRun(g, enc, id, parts, n) ==
  g[0] = enc /\ \A k \in 1..n : g[k] = SentStep(id, g[k - 1], parts[k])

\* The fold over the kept fragments of a tool is such a run.
LEMMA SentUnrolled ==
  ASSUME NEW enc, NEW id, NEW parts, NEW n \in Nat, DOMAIN parts = 1..n
  PROVE  \E g : SentRun(g, enc, id, parts, n) /\ DeltasSent(enc, id, parts) = g[n]
<1> DEFINE s == parts
           Fold(f, D) == f = [S \in SUBSET D |->
             IF S = {} THEN enc ELSE SentStep(id, f[S \ {Max(S)}], s[Max(S)])]
           f == CHOOSE f : Fold(f, DOMAIN s)
           P == {m \in Nat : \E h : Fold(h, 1..m)}
<1>1. DeltasSent(enc, id, parts) = f[DOMAIN s]
  BY DEF FoldLeft, MapThenFoldSet, DeltasSent
<1>2. DOMAIN s = 1..n /\ \A k : s[k] = parts[k]
  OBVIOUS
<1> HIDE DEF s
<1>3. 0 \in P
  <2>1. \A S \in SUBSET (1..0) : S = {}
    OBVIOUS
  <2>2. Fold([S \in SUBSET (1..0) |-> enc], 1..0)
    BY <2>1
  <2> QED
    BY <2>2
<1>4. ASSUME NEW k \in 1..n, k - 1 \in P PROVE k \in P
  <2>1. PICK h : Fold(h, 1..(k - 1))
    BY <1>4
  <2> DEFINE longer == [S \in SUBSET (1..k) |->
               IF k \in S THEN SentStep(id, h[S \ {k}], s[k]) ELSE h[S]]
  <2>2. longer = [S \in SUBSET (1..k) |-> longer[S]]
    OBVIOUS
  <2>3. \A S \in SUBSET (1..(k - 1)) : S \in SUBSET (1..k) /\ longer[S] = h[S]
    OBVIOUS
  <2>4. \A S \in SUBSET (1..k) : k \in S => longer[S] = SentStep(id, h[S \ {k}], s[k])
    OBVIOUS
  <2> HIDE DEF longer
  <2>5. ASSUME NEW S \in SUBSET (1..k), S # {}
        PROVE  longer[S] = SentStep(id, longer[S \ {Max(S)}], s[Max(S)])
    <3>1. CASE k \in S
      <4>1. Max(S) = k /\ S \ {k} \in SUBSET (1..(k - 1))
        BY <3>1, MaxOfSegment
      <4> QED
        BY <3>1, <4>1, <2>3, <2>4
    <3>2. CASE k \notin S
      <4>1. S \in SUBSET (1..(k - 1))
        BY <3>2, MaxOfSegment
      <4>2. S \ {Max(S)} \in SUBSET (1..(k - 1))
        BY <4>1
      <4>3. h[S] = SentStep(id, h[S \ {Max(S)}], s[Max(S)])
        BY <2>1, <2>5, <4>1
      <4> QED
        BY <2>3, <4>1, <4>2, <4>3
    <3> QED
      BY <3>1, <3>2
  <2>6. longer[{}] = enc
    BY <2>1, <2>3
  <2>7. Fold(longer, 1..k)
    BY <2>2, <2>5, <2>6
  <2>8. k \in Nat
    OBVIOUS
  <2> HIDE DEF Fold
  <2> QED
    BY <2>7, <2>8
<1>5. Fold(f, 1..n)
  <2> HIDE DEF P
  <2>1. n \in P
    BY <1>3, <1>4, Steps
  <2> QED
    BY <1>2, <2>1 DEF P
<1> HIDE DEF f
<1> DEFINE g == [k \in 0..n |-> f[1..k]]
<1>6. g[0] = enc /\ g[n] = f[DOMAIN s]
  <2>1. 1..0 = {} /\ {} \in SUBSET (1..n) /\ 0 \in 0..n /\ n \in 0..n
    OBVIOUS
  <2>2. f[{}] = enc
    BY <1>5, <2>1
  <2> QED
    BY <1>2, <2>1, <2>2
<1>7. ASSUME NEW k \in 1..n PROVE g[k] = SentStep(id, g[k - 1], parts[k])
  <2>1. Max(1..k) = k /\ (1..k) \ {k} = 1..(k - 1) /\ 1..k # {} /\ 1..k \in SUBSET (1..n)
    BY Segment
  <2>2. f[1..k] = SentStep(id, f[1..(k - 1)], s[k])
    BY <1>5, <2>1
  <2>3. k \in 0..n /\ k - 1 \in 0..n
    OBVIOUS
  <2> QED
    BY <1>2, <2>2, <2>3
<1> HIDE DEF g
<1>8. SentRun(g, enc, id, parts, n) /\ DeltasSent(enc, id, parts) = g[n]
  BY <1>1, <1>6, <1>7 DEF SentRun
<1> QED
  BY <1>8

\* One tool after the other, in their order.
FlushRun(g, enc, calls, n) ==
  g[0] = [enc |-> enc, stuck |-> FALSE] /\ \A k \in 1..n : g[k] = FlushStep(calls, g[k - 1], enc.toolOrder[k])

\* The fold over the tools that wait is such a run.
LEMMA FlushUnrolled ==
  ASSUME NEW enc, NEW calls, NEW n \in Nat, DOMAIN enc.toolOrder = 1..n
  PROVE  \E g : FlushRun(g, enc, calls, n) /\ Flushing(enc, calls) = g[n]
<1> DEFINE s == enc.toolOrder
           Fold(f, D) == f = [S \in SUBSET D |->
             IF S = {} THEN [enc |-> enc, stuck |-> FALSE] ELSE FlushStep(calls, f[S \ {Max(S)}], s[Max(S)])]
           f == CHOOSE f : Fold(f, DOMAIN s)
           P == {m \in Nat : \E h : Fold(h, 1..m)}
<1>1. Flushing(enc, calls) = f[DOMAIN s]
  BY DEF FoldLeft, MapThenFoldSet, Flushing
<1>2. DOMAIN s = 1..n /\ \A k : s[k] = enc.toolOrder[k]
  OBVIOUS
<1> HIDE DEF s
<1>3. 0 \in P
  <2>1. \A S \in SUBSET (1..0) : S = {}
    OBVIOUS
  <2>2. Fold([S \in SUBSET (1..0) |-> [enc |-> enc, stuck |-> FALSE]], 1..0)
    BY <2>1
  <2> QED
    BY <2>2
<1>4. ASSUME NEW k \in 1..n, k - 1 \in P PROVE k \in P
  <2>1. PICK h : Fold(h, 1..(k - 1))
    BY <1>4
  <2> DEFINE longer == [S \in SUBSET (1..k) |->
               IF k \in S THEN FlushStep(calls, h[S \ {k}], s[k]) ELSE h[S]]
  <2>2. longer = [S \in SUBSET (1..k) |-> longer[S]]
    OBVIOUS
  <2>3. \A S \in SUBSET (1..(k - 1)) : S \in SUBSET (1..k) /\ longer[S] = h[S]
    OBVIOUS
  <2>4. \A S \in SUBSET (1..k) : k \in S => longer[S] = FlushStep(calls, h[S \ {k}], s[k])
    OBVIOUS
  <2> HIDE DEF longer
  <2>5. ASSUME NEW S \in SUBSET (1..k), S # {}
        PROVE  longer[S] = FlushStep(calls, longer[S \ {Max(S)}], s[Max(S)])
    <3>1. CASE k \in S
      <4>1. Max(S) = k /\ S \ {k} \in SUBSET (1..(k - 1))
        BY <3>1, MaxOfSegment
      <4> QED
        BY <3>1, <4>1, <2>3, <2>4
    <3>2. CASE k \notin S
      <4>1. S \in SUBSET (1..(k - 1))
        BY <3>2, MaxOfSegment
      <4>2. S \ {Max(S)} \in SUBSET (1..(k - 1))
        BY <4>1
      <4>3. h[S] = FlushStep(calls, h[S \ {Max(S)}], s[Max(S)])
        BY <2>1, <2>5, <4>1
      <4> QED
        BY <2>3, <4>1, <4>2, <4>3
    <3> QED
      BY <3>1, <3>2
  <2>6. longer[{}] = [enc |-> enc, stuck |-> FALSE]
    BY <2>1, <2>3
  <2>7. Fold(longer, 1..k)
    BY <2>2, <2>5, <2>6
  <2>8. k \in Nat
    OBVIOUS
  <2> HIDE DEF Fold
  <2> QED
    BY <2>7, <2>8
<1>5. Fold(f, 1..n)
  <2> HIDE DEF P
  <2>1. n \in P
    BY <1>3, <1>4, Steps
  <2> QED
    BY <1>2, <2>1 DEF P
<1> HIDE DEF f
<1> DEFINE g == [k \in 0..n |-> f[1..k]]
<1>6. g[0] = [enc |-> enc, stuck |-> FALSE] /\ g[n] = f[DOMAIN s]
  <2>1. 1..0 = {} /\ {} \in SUBSET (1..n) /\ 0 \in 0..n /\ n \in 0..n
    OBVIOUS
  <2>2. f[{}] = [enc |-> enc, stuck |-> FALSE]
    BY <1>5, <2>1
  <2> QED
    BY <1>2, <2>1, <2>2
<1>7. ASSUME NEW k \in 1..n PROVE g[k] = FlushStep(calls, g[k - 1], enc.toolOrder[k])
  <2>1. Max(1..k) = k /\ (1..k) \ {k} = 1..(k - 1) /\ 1..k # {} /\ 1..k \in SUBSET (1..n)
    BY Segment
  <2>2. f[1..k] = FlushStep(calls, f[1..(k - 1)], s[k])
    BY <1>5, <2>1
  <2>3. k \in 0..n /\ k - 1 \in 0..n
    OBVIOUS
  <2> QED
    BY <1>2, <2>2, <2>3
<1> HIDE DEF g
<1>8. FlushRun(g, enc, calls, n) /\ Flushing(enc, calls) = g[n]
  BY <1>1, <1>6, <1>7 DEF FlushRun
<1> QED
  BY <1>8

\* One call of the accumulator after the other.
SettleRun(g, enc, a, n) ==
  g[0] = enc /\ \A k \in 1..n : g[k] = SettleStep(a, g[k - 1], k)

\* The fold over the calls of the accumulator is such a run.
LEMMA SettleUnrolled ==
  ASSUME NEW enc, NEW a, NEW n \in Nat, DOMAIN a.calls = 1..n
  PROVE  \E g : SettleRun(g, enc, a, n) /\ SettleTools(enc, a) = g[n]
<1> DEFINE s == [i \in DOMAIN a.calls |-> i]
           Fold(f, D) == f = [S \in SUBSET D |->
             IF S = {} THEN enc ELSE SettleStep(a, f[S \ {Max(S)}], s[Max(S)])]
           f == CHOOSE f : Fold(f, DOMAIN s)
           P == {m \in Nat : \E h : Fold(h, 1..m)}
<1>1. SettleTools(enc, a) = f[DOMAIN s]
  BY DEF FoldLeft, MapThenFoldSet, SettleTools, SettleStep, FoldLeftDomain
<1>2. DOMAIN s = 1..n /\ \A k \in 1..n : s[k] = k
  OBVIOUS
<1> HIDE DEF s
<1>3. 0 \in P
  <2>1. \A S \in SUBSET (1..0) : S = {}
    OBVIOUS
  <2>2. Fold([S \in SUBSET (1..0) |-> enc], 1..0)
    BY <2>1
  <2> QED
    BY <2>2
<1>4. ASSUME NEW k \in 1..n, k - 1 \in P PROVE k \in P
  <2>1. PICK h : Fold(h, 1..(k - 1))
    BY <1>4
  <2> DEFINE longer == [S \in SUBSET (1..k) |->
               IF k \in S THEN SettleStep(a, h[S \ {k}], s[k]) ELSE h[S]]
  <2>2. longer = [S \in SUBSET (1..k) |-> longer[S]]
    OBVIOUS
  <2>3. \A S \in SUBSET (1..(k - 1)) : S \in SUBSET (1..k) /\ longer[S] = h[S]
    OBVIOUS
  <2>4. \A S \in SUBSET (1..k) : k \in S => longer[S] = SettleStep(a, h[S \ {k}], s[k])
    OBVIOUS
  <2> HIDE DEF longer
  <2>5. ASSUME NEW S \in SUBSET (1..k), S # {}
        PROVE  longer[S] = SettleStep(a, longer[S \ {Max(S)}], s[Max(S)])
    <3>1. CASE k \in S
      <4>1. Max(S) = k /\ S \ {k} \in SUBSET (1..(k - 1))
        BY <3>1, MaxOfSegment
      <4> QED
        BY <3>1, <4>1, <2>3, <2>4
    <3>2. CASE k \notin S
      <4>1. S \in SUBSET (1..(k - 1))
        BY <3>2, MaxOfSegment
      <4>2. S \ {Max(S)} \in SUBSET (1..(k - 1))
        BY <4>1
      <4>3. h[S] = SettleStep(a, h[S \ {Max(S)}], s[Max(S)])
        BY <2>1, <2>5, <4>1
      <4> QED
        BY <2>3, <4>1, <4>2, <4>3
    <3> QED
      BY <3>1, <3>2
  <2>6. longer[{}] = enc
    BY <2>1, <2>3
  <2>7. Fold(longer, 1..k)
    BY <2>2, <2>5, <2>6
  <2>8. k \in Nat
    OBVIOUS
  <2> HIDE DEF Fold
  <2> QED
    BY <2>7, <2>8
<1>5. Fold(f, 1..n)
  <2> HIDE DEF P
  <2>1. n \in P
    BY <1>3, <1>4, Steps
  <2> QED
    BY <1>2, <2>1 DEF P
<1> HIDE DEF f
<1> DEFINE g == [k \in 0..n |-> f[1..k]]
<1>6. g[0] = enc /\ g[n] = f[DOMAIN s]
  <2>1. 1..0 = {} /\ {} \in SUBSET (1..n) /\ 0 \in 0..n /\ n \in 0..n
    OBVIOUS
  <2>2. f[{}] = enc
    BY <1>5, <2>1
  <2> QED
    BY <1>2, <2>1, <2>2
<1>7. ASSUME NEW k \in 1..n PROVE g[k] = SettleStep(a, g[k - 1], k)
  <2>1. Max(1..k) = k /\ (1..k) \ {k} = 1..(k - 1) /\ 1..k # {} /\ 1..k \in SUBSET (1..n)
    BY Segment
  <2>2. f[1..k] = SettleStep(a, f[1..(k - 1)], s[k])
    BY <1>5, <2>1
  <2>3. k \in 0..n /\ k - 1 \in 0..n
    OBVIOUS
  <2> QED
    BY <1>2, <2>2, <2>3
<1> HIDE DEF g
<1>8. SettleRun(g, enc, a, n) /\ SettleTools(enc, a) = g[n]
  BY <1>1, <1>6, <1>7 DEF SettleRun
<1> QED
  BY <1>8

\* One item of the output after the other.
SearchesRun(g, enc, output, n) ==
  g[0] = enc /\ \A k \in 1..n : g[k] = SearchStep(output, g[k - 1], k)

\* The fold over the output of the terminal response is such a run.
LEMMA SearchesUnrolled ==
  ASSUME NEW enc, NEW output, NEW n \in Nat, DOMAIN output = 1..n
  PROVE  \E g : SearchesRun(g, enc, output, n) /\ HydrateSearches(enc, output) = g[n]
<1> DEFINE s == [i \in DOMAIN output |-> i]
           Fold(f, D) == f = [S \in SUBSET D |->
             IF S = {} THEN enc ELSE SearchStep(output, f[S \ {Max(S)}], s[Max(S)])]
           f == CHOOSE f : Fold(f, DOMAIN s)
           P == {m \in Nat : \E h : Fold(h, 1..m)}
<1>1. HydrateSearches(enc, output) = f[DOMAIN s]
  BY DEF FoldLeft, MapThenFoldSet, HydrateSearches, SearchStep, FoldLeftDomain
<1>2. DOMAIN s = 1..n /\ \A k \in 1..n : s[k] = k
  OBVIOUS
<1> HIDE DEF s
<1>3. 0 \in P
  <2>1. \A S \in SUBSET (1..0) : S = {}
    OBVIOUS
  <2>2. Fold([S \in SUBSET (1..0) |-> enc], 1..0)
    BY <2>1
  <2> QED
    BY <2>2
<1>4. ASSUME NEW k \in 1..n, k - 1 \in P PROVE k \in P
  <2>1. PICK h : Fold(h, 1..(k - 1))
    BY <1>4
  <2> DEFINE longer == [S \in SUBSET (1..k) |->
               IF k \in S THEN SearchStep(output, h[S \ {k}], s[k]) ELSE h[S]]
  <2>2. longer = [S \in SUBSET (1..k) |-> longer[S]]
    OBVIOUS
  <2>3. \A S \in SUBSET (1..(k - 1)) : S \in SUBSET (1..k) /\ longer[S] = h[S]
    OBVIOUS
  <2>4. \A S \in SUBSET (1..k) : k \in S => longer[S] = SearchStep(output, h[S \ {k}], s[k])
    OBVIOUS
  <2> HIDE DEF longer
  <2>5. ASSUME NEW S \in SUBSET (1..k), S # {}
        PROVE  longer[S] = SearchStep(output, longer[S \ {Max(S)}], s[Max(S)])
    <3>1. CASE k \in S
      <4>1. Max(S) = k /\ S \ {k} \in SUBSET (1..(k - 1))
        BY <3>1, MaxOfSegment
      <4> QED
        BY <3>1, <4>1, <2>3, <2>4
    <3>2. CASE k \notin S
      <4>1. S \in SUBSET (1..(k - 1))
        BY <3>2, MaxOfSegment
      <4>2. S \ {Max(S)} \in SUBSET (1..(k - 1))
        BY <4>1
      <4>3. h[S] = SearchStep(output, h[S \ {Max(S)}], s[Max(S)])
        BY <2>1, <2>5, <4>1
      <4> QED
        BY <2>3, <4>1, <4>2, <4>3
    <3> QED
      BY <3>1, <3>2
  <2>6. longer[{}] = enc
    BY <2>1, <2>3
  <2>7. Fold(longer, 1..k)
    BY <2>2, <2>5, <2>6
  <2>8. k \in Nat
    OBVIOUS
  <2> HIDE DEF Fold
  <2> QED
    BY <2>7, <2>8
<1>5. Fold(f, 1..n)
  <2> HIDE DEF P
  <2>1. n \in P
    BY <1>3, <1>4, Steps
  <2> QED
    BY <1>2, <2>1 DEF P
<1> HIDE DEF f
<1> DEFINE g == [k \in 0..n |-> f[1..k]]
<1>6. g[0] = enc /\ g[n] = f[DOMAIN s]
  <2>1. 1..0 = {} /\ {} \in SUBSET (1..n) /\ 0 \in 0..n /\ n \in 0..n
    OBVIOUS
  <2>2. f[{}] = enc
    BY <1>5, <2>1
  <2> QED
    BY <1>2, <2>1, <2>2
<1>7. ASSUME NEW k \in 1..n PROVE g[k] = SearchStep(output, g[k - 1], k)
  <2>1. Max(1..k) = k /\ (1..k) \ {k} = 1..(k - 1) /\ 1..k # {} /\ 1..k \in SUBSET (1..n)
    BY Segment
  <2>2. f[1..k] = SearchStep(output, f[1..(k - 1)], s[k])
    BY <1>5, <2>1
  <2>3. k \in 0..n /\ k - 1 \in 0..n
    OBVIOUS
  <2> QED
    BY <1>2, <2>2, <2>3
<1> HIDE DEF g
<1>8. SearchesRun(g, enc, output, n) /\ HydrateSearches(enc, output) = g[n]
  BY <1>1, <1>6, <1>7 DEF SearchesRun
<1> QED
  BY <1>8

-----------------------------------------------------------------------------
(* What was written: the places of the events of a type, and how many *)

Count(out, type) == Cardinality(Indices(out, type))

\* The events of a type can be counted.
LEMMA IndicesFinite ==
  ASSUME NEW out, IsSeq(out), NEW type
  PROVE  IsFiniteSet(Indices(out, type)) /\ Count(out, type) \in Nat
<1>1. Len(out) \in Nat /\ DOMAIN out = 1..Len(out)
  BY SeqOfElements
<1>2. IsFiniteSet(DOMAIN out)
  BY <1>1, FS_Interval
<1>3. Indices(out, type) \subseteq DOMAIN out
  BY DEF Indices
<1>4. IsFiniteSet(Indices(out, type))
  BY <1>2, <1>3, FS_Subset
<1> QED
  BY <1>4, FS_CardinalityType DEF Count

\* One more event of its type, and as many of the others.
LEMMA IndicesOfAppended ==
  ASSUME NEW out, IsSeq(out), NEW e, NEW type
  PROVE  /\ e.type = type =>
              /\ Indices(Append(out, e), type) = Indices(out, type) \union {Len(out) + 1}
              /\ Count(Append(out, e), type) = Count(out, type) + 1
         /\ e.type # type => /\ Indices(Append(out, e), type) = Indices(out, type)
                             /\ Count(Append(out, e), type) = Count(out, type)
<1> DEFINE longer == Append(out, e)
<1>1. /\ Len(out) \in Nat /\ DOMAIN out = 1..Len(out) /\ DOMAIN longer = 1..(Len(out) + 1)
      /\ longer[Len(out) + 1] = e /\ \A k \in 1..Len(out) : longer[k] = out[k]
  BY Appended
<1> HIDE DEF longer
<1>2. e.type = type => Indices(longer, type) = Indices(out, type) \union {Len(out) + 1}
  BY <1>1 DEF Indices
<1>3. e.type # type => Indices(longer, type) = Indices(out, type)
  BY <1>1 DEF Indices
<1>4. IsFiniteSet(Indices(out, type)) /\ Len(out) + 1 \notin Indices(out, type)
  <2>1. Len(out) + 1 \notin DOMAIN out
    BY <1>1
  <2> QED
    BY <2>1, IndicesFinite DEF Indices
<1>5. Cardinality(Indices(out, type) \union {Len(out) + 1}) = Count(out, type) + 1
  BY <1>4, FS_AddElement DEF Count
<1> QED
  BY <1>2, <1>3, <1>5 DEF longer, Count

\* Nothing more comes before the events that there were; all of them come before the new one.
LEMMA BeforeAppended ==
  ASSUME NEW out, IsSeq(out), NEW e, NEW type
  PROVE  /\ \A k \in 1..Len(out) : Before(Append(out, e), type, k) = Before(out, type, k)
         /\ Before(Append(out, e), type, Len(out) + 1) = Indices(out, type)
<1> DEFINE longer == Append(out, e)
<1>1. /\ Len(out) \in Nat /\ DOMAIN out = 1..Len(out) /\ DOMAIN longer = 1..(Len(out) + 1)
      /\ \A k \in 1..Len(out) : longer[k] = out[k]
  BY Appended
<1> HIDE DEF longer
<1>2. \A k \in 1..Len(out) : Before(longer, type, k) = Before(out, type, k)
  BY <1>1 DEF Indices, Before
<1>3. Before(longer, type, Len(out) + 1) = Indices(out, type)
  BY <1>1 DEF Indices, Before
<1> QED
  BY <1>2, <1>3 DEF longer

\* Nothing was written: no event of any type.
LEMMA NothingWritten ==
  ASSUME NEW type
  PROVE  Indices(<<>>, type) = {} /\ Count(<<>>, type) = 0
  BY EmptyIsSeq, FS_EmptySet DEF Indices, Count
-----------------------------------------------------------------------------
(* Anthropic: blocks that are numbered in their order and never nested *)

Numbered(out, k) ==
  LET starts == Cardinality(Before(out, "content_block_start", k))
      stops == Cardinality(Before(out, "content_block_stop", k))
  IN  CASE out[k].type = "message_start" -> k = 1
        [] out[k].type = "content_block_start" -> starts = stops /\ out[k].index = starts
        [] out[k].type \in {"content_block_delta", "content_block_stop"} ->
             starts = stops + 1 /\ out[k].index = stops
        [] OTHER -> FALSE

Nested(out, next, open) ==
  /\ IsSeq(out)
  /\ next \in Nat /\ next = Count(out, "content_block_start")
  /\ open = NoBlock => Count(out, "content_block_stop") = next
  /\ open # NoBlock => Count(out, "content_block_stop") + 1 = next /\ open.index = next - 1
  /\ \A k \in DOMAIN out : Numbered(out, k)

\* An event more changes nothing about those before it.
LEMMA StillNumbered ==
  ASSUME NEW out, IsSeq(out), NEW e, NEW k \in 1..Len(out), Numbered(out, k)
  PROVE  Numbered(Append(out, e), k)
<1>1. Append(out, e)[k] = out[k]
  BY Appended
<1>2. \A type : Before(Append(out, e), type, k) = Before(out, type, k)
  BY BeforeAppended
<1> QED
  BY <1>1, <1>2 DEF Numbered

\* A block may start when none is open; a delta and a stop are of the open one.
LEMMA OneMoreNumbered ==
  ASSUME NEW out, NEW next, NEW open, Nested(out, next, open), NEW e,
         \/ e.type = "content_block_start" /\ open = NoBlock /\ e.index = next
         \/ /\ e.type \in {"content_block_delta", "content_block_stop"}
            /\ open # NoBlock /\ e.index = open.index
  PROVE  /\ IsSeq(Append(out, e))
         /\ \A k \in DOMAIN Append(out, e) : Numbered(Append(out, e), k)
<1> DEFINE longer == Append(out, e)
           n == Len(out)
<1>1. IsSeq(out) /\ next \in Nat
  BY DEF Nested
<1>2. /\ IsSeq(longer) /\ n \in Nat /\ DOMAIN longer = 1..(n + 1) /\ DOMAIN out = 1..n
      /\ longer[n + 1] = e
  BY <1>1, Appended
<1>3. ASSUME NEW k \in 1..n PROVE Numbered(longer, k)
  BY <1>1, <1>2, StillNumbered DEF Nested
<1>4. \A type : Before(longer, type, n + 1) = Indices(out, type)
  BY <1>1, BeforeAppended
<1>5. Count(out, "content_block_stop") \in Nat
  BY <1>1, IndicesFinite
<1> HIDE DEF longer, n
<1>6. Numbered(longer, n + 1)
  BY <1>1, <1>2, <1>4, <1>5 DEF Numbered, Nested, Count
<1> QED
  BY <1>2, <1>3, <1>6 DEF longer

\* OpenBlock, of the blocks that were written.
LEMMA NestedStart ==
  ASSUME NEW out, NEW next, Nested(out, next, NoBlock), NEW e, NEW open,
         e.type = "content_block_start", e.index = next, open.index = next
  PROVE  Nested(Append(out, e), next + 1, open)
<1>1. IsSeq(out) /\ next \in Nat
  BY DEF Nested
<1>2. open # NoBlock
  <2>1. NoBlock.index = -1
    BY DEF NoBlock
  <2>2. next # -1
    BY <1>1
  <2> QED
    BY <2>1, <2>2
<1>3. /\ Count(Append(out, e), "content_block_start") = next + 1
      /\ Count(Append(out, e), "content_block_stop") = next
  BY <1>1, IndicesOfAppended, IndicesFinite DEF Nested
<1>4. IsSeq(Append(out, e)) /\ \A k \in DOMAIN Append(out, e) : Numbered(Append(out, e), k)
  BY OneMoreNumbered
<1> QED
  BY <1>1, <1>2, <1>3, <1>4 DEF Nested

\* Delta, of the blocks that were written.
LEMMA NestedDelta ==
  ASSUME NEW out, NEW next, NEW open, Nested(out, next, open), open # NoBlock,
         NEW e, e.type = "content_block_delta", e.index = open.index
  PROVE  Nested(Append(out, e), next, open)
<1>1. IsSeq(out) /\ next \in Nat
  BY DEF Nested
<1>2. /\ Count(Append(out, e), "content_block_start") = next
      /\ Count(Append(out, e), "content_block_stop") + 1 = next
  BY <1>1, IndicesOfAppended, IndicesFinite DEF Nested
<1>3. IsSeq(Append(out, e)) /\ \A k \in DOMAIN Append(out, e) : Numbered(Append(out, e), k)
  BY OneMoreNumbered
<1> QED
  BY <1>1, <1>2, <1>3 DEF Nested

\* CloseBlock, of the blocks that were written.
LEMMA NestedStop ==
  ASSUME NEW out, NEW next, NEW open, Nested(out, next, open), open # NoBlock,
         NEW e, e.type = "content_block_stop", e.index = open.index
  PROVE  Nested(Append(out, e), next, NoBlock)
<1>1. IsSeq(out) /\ next \in Nat
  BY DEF Nested
<1>2. /\ Count(Append(out, e), "content_block_start") = next
      /\ Count(Append(out, e), "content_block_stop") = next
  BY <1>1, IndicesOfAppended, IndicesFinite DEF Nested
<1>3. IsSeq(Append(out, e)) /\ \A k \in DOMAIN Append(out, e) : Numbered(Append(out, e), k)
  BY OneMoreNumbered
<1> QED
  BY <1>1, <1>2, <1>3 DEF Nested

\* message_start, before any block.
LEMMA NestedBegun ==
  ASSUME NEW e, e.type = "message_start"
  PROVE  Nested(Append(<<>>, e), 0, NoBlock)
<1> DEFINE out == Append(<<>>, e)
<1>1. IsSeq(<<>>) /\ Len(<<>>) = 0
  BY EmptyIsSeq
<1>2. IsSeq(out) /\ DOMAIN out = 1..1 /\ out[1] = e
  <2>1. DOMAIN out = 1..(0 + 1) /\ out[0 + 1] = e /\ IsSeq(out)
    BY <1>1, Appended
  <2> QED
    BY <2>1
<1>3. ASSUME NEW type, type # "message_start" PROVE Count(out, type) = 0
  <2>1. Count(out, type) = Count(<<>>, type)
    BY <1>1, <1>3, IndicesOfAppended
  <2> QED
    BY <2>1, NothingWritten
<1> HIDE DEF out
<1>4. \A k \in DOMAIN out : Numbered(out, k)
  BY <1>2 DEF Numbered
<1>5. Nested(out, 0, NoBlock)
  BY <1>2, <1>3, <1>4 DEF Nested
<1> QED
  BY <1>5 DEF out

-----------------------------------------------------------------------------
(* Every operator of the encoder keeps the blocks nested *)

EncFields == {"started", "next", "open", "textEmitted", "thinkEmitted", "thinkDeltas", "toolSent",
              "toolDone", "toolStates", "toolDeltas", "toolOrder", "webDone", "out"}

EncOK(enc) ==
  /\ DOMAIN enc = EncFields
  /\ enc.started = TRUE
  /\ Nested(enc.out, enc.next, enc.open)
  /\ IsSeq(enc.thinkDeltas) /\ IsSeq(enc.toolOrder)
  /\ \A id \in DOMAIN enc.toolDeltas : IsSeq(enc.toolDeltas[id])

\* An encoder that is well, with nothing open.
Between(enc) == EncOK(enc) /\ enc.open = NoBlock

\* What is written to "out" changes nothing else.
SameTools(e, enc) ==
  /\ e.thinkDeltas = enc.thinkDeltas /\ e.toolOrder = enc.toolOrder
  /\ e.toolDeltas = enc.toolDeltas /\ e.toolStates = enc.toolStates
  /\ e.toolSent = enc.toolSent /\ e.toolDone = enc.toolDone

\* closeBlock leaves nothing open.
LEMMA CloseBlockOK ==
  ASSUME NEW enc, EncOK(enc)
  PROVE  Between(CloseBlock(enc)) /\ SameTools(CloseBlock(enc), enc)
<1>1. CASE enc.open = NoBlock
  BY <1>1 DEF CloseBlock, Between, SameTools
<1>2. CASE enc.open # NoBlock
  <2> DEFINE e == Event("content_block_stop", enc.open.index, "", "", <<>>)
             closed == CloseBlock(enc)
  <2>1. e.type = "content_block_stop" /\ e.index = enc.open.index
    BY DEF Event
  <2>2. Nested(Append(enc.out, e), enc.next, NoBlock)
    BY <1>2, <2>1, NestedStop DEF EncOK
  <2>3. closed = [[enc EXCEPT !.out = Append(@, e)] EXCEPT !.open = NoBlock]
    BY <1>2 DEF CloseBlock, Emit
  <2> HIDE DEF e
  <2>4. /\ DOMAIN closed = EncFields /\ closed.started = enc.started /\ closed.next = enc.next
        /\ closed.out = Append(enc.out, e) /\ closed.open = NoBlock /\ SameTools(closed, enc)
    BY <2>3 DEF EncOK, EncFields, SameTools
  <2> HIDE DEF closed
  <2>5. EncOK(closed)
    BY <2>2, <2>4 DEF EncOK, SameTools
  <2> QED
    BY <2>4, <2>5 DEF Between, closed
<1> QED
  BY <1>1, <1>2

\* OpenBlock leaves the new block open.
LEMMA OpenBlockOK ==
  ASSUME NEW enc, Between(enc), NEW kind, NEW call
  PROVE  /\ EncOK(OpenBlock(enc, kind, call)) /\ OpenBlock(enc, kind, call).open # NoBlock
         /\ SameTools(OpenBlock(enc, kind, call), enc)
<1> DEFINE e == Event("content_block_start", enc.next, kind, call, <<>>)
           open == [index |-> enc.next, kind |-> kind, call |-> call]
           opened == OpenBlock(enc, kind, call)
<1>1. e.type = "content_block_start" /\ e.index = enc.next /\ open.index = enc.next
  BY DEF Event
<1>2. opened = [[enc EXCEPT !.out = Append(@, e)] EXCEPT !.open = open, !.next = @ + 1]
  BY DEF OpenBlock, Emit
<1>3. open # NoBlock
  <2>1. NoBlock.index = -1
    BY DEF NoBlock
  <2>2. enc.next # -1
    BY DEF Between, EncOK, Nested
  <2> HIDE DEF open
  <2> QED
    BY <1>1, <2>1, <2>2
<1> HIDE DEF e, open
<1>4. /\ DOMAIN opened = EncFields /\ opened.started = enc.started /\ opened.next = enc.next + 1
      /\ opened.out = Append(enc.out, e) /\ opened.open = open /\ SameTools(opened, enc)
  BY <1>2 DEF Between, EncOK, EncFields, SameTools
<1>5. Nested(Append(enc.out, e), enc.next + 1, open)
  BY <1>1, NestedStart DEF Between, EncOK
<1> HIDE DEF opened
<1>6. EncOK(opened)
  BY <1>4, <1>5 DEF Between, EncOK, SameTools
<1> QED
  BY <1>3, <1>4, <1>6 DEF opened

\* Delta leaves the open block open.
LEMMA DeltaOK ==
  ASSUME NEW enc, EncOK(enc), enc.open # NoBlock, NEW kind, NEW body
  PROVE  /\ EncOK(Delta(enc, kind, body)) /\ Delta(enc, kind, body).open = enc.open
         /\ SameTools(Delta(enc, kind, body), enc)
<1> DEFINE e == Event("content_block_delta", enc.open.index, kind, "", body)
           told == Delta(enc, kind, body)
<1>1. e.type = "content_block_delta" /\ e.index = enc.open.index
  BY DEF Event
<1>2. told = [enc EXCEPT !.out = Append(@, e)]
  BY DEF Delta, Emit
<1> HIDE DEF e
<1>3. /\ DOMAIN told = EncFields /\ told.started = enc.started /\ told.next = enc.next
      /\ told.out = Append(enc.out, e) /\ told.open = enc.open /\ SameTools(told, enc)
  BY <1>2 DEF EncOK, EncFields, SameTools
<1>4. Nested(Append(enc.out, e), enc.next, enc.open)
  BY <1>1, NestedDelta DEF EncOK
<1> HIDE DEF told
<1>5. EncOK(told)
  BY <1>3, <1>4 DEF EncOK, SameTools
<1> QED
  BY <1>3, <1>5 DEF told

\* EmitText, which may close a block of another kind first.
LEMMA EmitTextOK ==
  ASSUME NEW enc, EncOK(enc), NEW body
  PROVE  EncOK(EmitText(enc, body))
<1> DEFINE opened == OpenText(enc)
           told == Delta(opened, "text_delta", body)
<1>1. EncOK(opened) /\ opened.open # NoBlock
  <2>1. CASE enc.open.kind = "text"
    <3>1. NoBlock.kind = ""
      BY DEF NoBlock
    <3>2. opened = enc
      BY <2>1 DEF OpenText
    <3> HIDE DEF opened
    <3> QED
      BY <2>1, <3>1, <3>2
  <2>2. CASE enc.open.kind # "text"
    BY <2>2, CloseBlockOK, OpenBlockOK DEF OpenText
  <2> QED
    BY <2>1, <2>2
<1> HIDE DEF opened
<1>2. EncOK(told)
  BY <1>1, DeltaOK
<1> HIDE DEF told
<1>3. EmitText(enc, body) = [told EXCEPT !.textEmitted = TRUE]
  BY DEF EmitText, told, opened
<1> QED
  BY <1>2, <1>3 DEF EncOK, EncFields

\* The parts of a thought that were held back go to the open block.
LEMMA ThinkingToldOK ==
  ASSUME NEW enc, EncOK(enc), enc.open # NoBlock, NEW parts, IsSeq(parts)
  PROVE  EncOK(ThinkingTold(enc, parts)) /\ ThinkingTold(enc, parts).open # NoBlock
<1> DEFINE n == Len(parts)
<1>1. n \in Nat /\ DOMAIN parts = 1..n
  BY SeqOfElements
<1> HIDE DEF n
<1>2. PICK g : ThinkingRun(g, enc, parts, n) /\ ThinkingTold(enc, parts) = g[n]
  BY <1>1, ThinkingUnrolled
<1> DEFINE P == {k \in 0..n : EncOK(g[k]) /\ g[k].open # NoBlock}
<1>3. 0 \in P
  BY <1>1, <1>2 DEF ThinkingRun
<1>4. ASSUME NEW k \in 1..n, k - 1 \in P PROVE k \in P
  BY <1>1, <1>2, <1>4, DeltaOK DEF ThinkingRun
<1> HIDE DEF P
<1>5. n \in P
  BY <1>1, <1>3, <1>4, Steps
<1> QED
  BY <1>2, <1>5 DEF P

\* completeThinking, which may leave the open block alone.
LEMMA CompleteThinkingOK ==
  ASSUME NEW enc, EncOK(enc), NEW thinking, NEW signature
  PROVE  EncOK(CompleteThinking(enc, thinking, signature))
<1> DEFINE parts == CASE enc.thinkDeltas # <<>> -> enc.thinkDeltas
                      [] enc.thinkDeltas = <<>> /\ thinking # <<>> -> <<thinking>>
                      [] OTHER -> <<>>
           opened == OpenBlock(CloseBlock(enc), "thinking", "")
           told == ThinkingTold(opened, parts)
           signed == Delta(told, "signature_delta", <<signature>>)
           closed == CloseBlock(signed)
<1>1. IsSeq(parts)
  <2>1. IsSeq(<<thinking>>)
    <3>1. <<thinking>> \in Seq({thinking})
      OBVIOUS
    <3> QED
      BY <3>1, TypedIsSeq
  <2> QED
    BY <2>1, EmptyIsSeq DEF EncOK
<1>2. EncOK(opened) /\ opened.open # NoBlock
  BY CloseBlockOK, OpenBlockOK
<1> HIDE DEF parts, opened
<1>3. EncOK(told) /\ told.open # NoBlock
  BY <1>1, <1>2, ThinkingToldOK
<1> HIDE DEF told
<1>4. EncOK(closed)
  BY <1>3, DeltaOK, CloseBlockOK DEF Between
<1> HIDE DEF signed, closed
<1>5. EncOK([closed EXCEPT !.thinkDeltas = <<>>, !.thinkEmitted = TRUE])
  BY <1>4, EmptyIsSeq DEF EncOK, EncFields
<1>6. CompleteThinking(enc, thinking, signature) =
        IF enc.thinkEmitted \/ signature = "" THEN enc
        ELSE [closed EXCEPT !.thinkDeltas = <<>>, !.thinkEmitted = TRUE]
  BY DEF CompleteThinking, ThinkingTold, parts, opened, told, signed, closed
<1> QED
  BY <1>5, <1>6

\* completeWebSearch: two blocks, each closed.
LEMMA CompleteWebSearchOK ==
  ASSUME NEW enc, EncOK(enc), NEW item, NEW fallback
  PROVE  EncOK(CompleteWebSearch(enc, item, fallback))
<1> DEFINE blocks == WebSearchBlocks(item, fallback)
           use == OpenBlock(CloseBlock(enc), "server_tool_use", blocks[1].call)
           asked == IF blocks[1].body = <<>> THEN use
                    ELSE Delta(use, "input_json_delta", blocks[1].body)
           result == OpenBlock(CloseBlock(asked), "web_search_tool_result", blocks[2].call)
           closed == CloseBlock(result)
<1>1. EncOK(use) /\ use.open # NoBlock
  BY CloseBlockOK, OpenBlockOK
<1>2. EncOK(asked)
  <2> HIDE DEF use, blocks
  <2> QED
    BY <1>1, DeltaOK
<1>3. EncOK(result)
  <2> HIDE DEF asked, blocks
  <2> QED
    BY <1>2, CloseBlockOK, OpenBlockOK
<1>4. EncOK(closed)
  <2> HIDE DEF result
  <2> QED
    BY <1>3, CloseBlockOK DEF Between
<1>5. CompleteWebSearch(enc, item, fallback) =
        IF blocks = <<>> \/ blocks[1].call \in enc.webDone THEN enc
        ELSE [closed EXCEPT !.webDone = @ \union {blocks[1].call}]
  BY DEF CompleteWebSearch
<1> HIDE DEF closed, blocks
<1>6. EncOK([closed EXCEPT !.webDone = @ \union {blocks[1].call}])
  BY <1>4 DEF EncOK, EncFields
<1> QED
  BY <1>5, <1>6

\* registerTool writes nothing.
LEMMA RegisterToolOK ==
  ASSUME NEW enc, EncOK(enc), NEW call, NEW at
  PROVE  /\ EncOK(RegisterTool(enc, call, at)) /\ RegisterTool(enc, call, at).open = enc.open
         /\ RegisterTool(enc, call, at).toolDeltas = enc.toolDeltas
<1> DEFINE order == IF call.call \in DOMAIN enc.toolStates THEN enc.toolOrder
                    ELSE Append(enc.toolOrder, call.call)
           states == Put(enc.toolStates, call.call, at)
<1>1. IsSeq(order)
  BY Appended DEF EncOK
<1>2. RegisterTool(enc, call, at) = [enc EXCEPT !.toolOrder = order, !.toolStates = states]
  BY DEF RegisterTool, EncOK, EncFields
<1> HIDE DEF order, states
<1> QED
  BY <1>1, <1>2 DEF EncOK, EncFields

\* What is missing of a tool's arguments goes to the open block.
LEMMA ToolRemainderOK ==
  ASSUME NEW enc, EncOK(enc), enc.open # NoBlock, NEW call
  PROVE  EncOK(ToolRemainder(enc, call))
<1> DEFINE sent == Get(enc.toolSent, call.call, 0)
           told == Delta(enc, "input_json_delta", SubSeq(call.body, sent + 1, Len(call.body)))
<1>1. EncOK(told)
  BY DeltaOK
<1>2. ToolRemainder(enc, call) =
        IF sent >= Len(call.body) THEN enc
        ELSE [told EXCEPT !.toolSent = Put(@, call.call, Len(call.body))]
  BY DEF ToolRemainder
<1> HIDE DEF told, sent
<1> QED
  BY <1>1, <1>2 DEF EncOK, EncFields

\* The fragments of a tool that were kept go to the open block.
LEMMA DeltasSentOK ==
  ASSUME NEW enc, EncOK(enc), enc.open # NoBlock, NEW id, NEW parts, IsSeq(parts)
  PROVE  EncOK(DeltasSent(enc, id, parts)) /\ DeltasSent(enc, id, parts).open # NoBlock
<1> DEFINE n == Len(parts)
<1>1. n \in Nat /\ DOMAIN parts = 1..n
  BY SeqOfElements
<1> HIDE DEF n
<1>2. PICK g : SentRun(g, enc, id, parts, n) /\ DeltasSent(enc, id, parts) = g[n]
  BY <1>1, SentUnrolled
<1> DEFINE P == {k \in 0..n : EncOK(g[k]) /\ g[k].open # NoBlock}
<1>3. 0 \in P
  BY <1>1, <1>2 DEF SentRun
<1>4. ASSUME NEW k \in 1..n, k - 1 \in P PROVE k \in P
  <2> DEFINE e == g[k - 1]
             told == Delta(e, "input_json_delta", parts[k])
             sent == Put(told.toolSent, id, Get(told.toolSent, id, 0) + Len(parts[k]))
  <2>1. g[k] = [told EXCEPT !.toolSent = sent]
    BY <1>2 DEF SentRun, SentStep
  <2>2. EncOK(told) /\ told.open # NoBlock
    BY <1>4, DeltaOK
  <2> HIDE DEF told, sent
  <2>3. EncOK(g[k]) /\ g[k].open # NoBlock
    BY <2>1, <2>2 DEF EncOK, EncFields
  <2> QED
    BY <2>3
<1> HIDE DEF P
<1>5. n \in P
  BY <1>1, <1>3, <1>4, Steps
<1> QED
  BY <1>2, <1>5 DEF P

\* A tool that waited: a whole block, closed again.
LEMMA SendToolOK ==
  ASSUME NEW enc, Between(enc), NEW calls, NEW id
  PROVE  Between(SendTool(enc, calls, id))
<1> DEFINE call == calls[enc.toolStates[id]]
           block == OpenBlock(enc, "tool_use", call.call)
           opened == [block EXCEPT !.toolSent = Put(@, call.call, 0)]
           parts == Get(enc.toolDeltas, id, <<>>)
           told == DeltasSent(opened, id, parts)
           cleared == [told EXCEPT !.toolDeltas = Without(@, id)]
           whole == ToolRemainder(cleared, call)
<1>1. IsSeq(parts)
  BY EmptyIsSeq DEF Get, Between, EncOK
<1>2. EncOK(block) /\ block.open # NoBlock
  BY OpenBlockOK
<1> HIDE DEF block, parts, call
<1>3. EncOK(opened) /\ opened.open # NoBlock
  BY <1>2 DEF EncOK, EncFields
<1> HIDE DEF opened
<1>4. EncOK(told) /\ told.open # NoBlock
  BY <1>1, <1>3, DeltasSentOK
<1> HIDE DEF told
<1>5. EncOK(cleared) /\ cleared.open # NoBlock
  BY <1>4 DEF EncOK, EncFields, Without
<1> HIDE DEF cleared
<1>6. EncOK(whole)
  BY <1>5, ToolRemainderOK
<1> HIDE DEF whole
<1>7. Between(CloseBlock(whole))
  BY <1>6, CloseBlockOK
<1> QED
  BY <1>7 DEF SendTool, DeltasSent, SentStep, call, block, opened, parts, told, cleared, whole

\* flushTools: the blocks of the tools that wait, as far as they are done.
LEMMA FlushToolsOK ==
  ASSUME NEW enc, EncOK(enc), NEW calls
  PROVE  EncOK(FlushTools(enc, calls))
<1>1. FlushTools(enc, calls) = IF enc.open # NoBlock THEN enc ELSE Flushing(enc, calls).enc
  BY DEF FlushTools, Flushing, FlushStep
<1>2. CASE enc.open # NoBlock
  BY <1>1, <1>2
<1>3. CASE enc.open = NoBlock
  <2> DEFINE n == Len(enc.toolOrder)
  <2>1. n \in Nat /\ DOMAIN enc.toolOrder = 1..n
    BY SeqOfElements DEF EncOK
  <2> HIDE DEF n
  <2>2. PICK g : FlushRun(g, enc, calls, n) /\ Flushing(enc, calls) = g[n]
    BY <2>1, FlushUnrolled
  <2> DEFINE P == {k \in 0..n : Between(g[k].enc) /\ DOMAIN g[k] = {"enc", "stuck"}}
  <2>3. 0 \in P
    BY <1>3, <2>1, <2>2 DEF FlushRun, Between
  <2>4. ASSUME NEW k \in 1..n, k - 1 \in P PROVE k \in P
    <3> DEFINE step == g[k - 1]
               id == enc.toolOrder[k]
               sent == SendTool(step.enc, calls, id)
    <3>1. g[k] = FlushStep(calls, step, id)
      BY <2>2 DEF FlushRun
    <3>2. Between(step.enc) /\ DOMAIN step = {"enc", "stuck"}
      BY <2>4
    <3>3. Between(sent)
      BY <3>2, SendToolOK
    <3> HIDE DEF step, id
    <3>4. g[k] \in {step, [step EXCEPT !.stuck = TRUE], [step EXCEPT !.enc = sent]}
      BY <3>1 DEF FlushStep
    <3> HIDE DEF sent
    <3>5. Between(g[k].enc) /\ DOMAIN g[k] = {"enc", "stuck"}
      BY <3>2, <3>3, <3>4
    <3> QED
      BY <3>5
  <2> HIDE DEF P
  <2>5. n \in Nat
    BY <2>1
  <2>6. n \in P
    BY <2>3, <2>4, <2>5, Steps
  <2> QED
    BY <1>1, <1>3, <2>2, <2>6 DEF P, Between
<1> QED
  BY <1>2, <1>3

\* completeTool, in the open block or in one of its own.
LEMMA CompleteToolOK ==
  ASSUME NEW enc, EncOK(enc), NEW calls, NEW at
  PROVE  EncOK(CompleteTool(enc, calls, at))
<1> DEFINE known == RegisterTool(enc, calls[at], at)
           done == [known EXCEPT !.toolDone = @ \union {calls[at].call}]
<1>1. EncOK(known)
  BY RegisterToolOK
<1> HIDE DEF known
<1>2. EncOK(done)
  BY <1>1 DEF EncOK, EncFields
<1> HIDE DEF done
<1>3. EncOK(FlushTools(done, calls))
  BY <1>2, FlushToolsOK
<1> QED
  BY <1>3 DEF CompleteTool, known, done

\* Settling the tools of the terminal response writes nothing.
LEMMA SettleToolsOK ==
  ASSUME NEW enc, EncOK(enc), NEW a, IsSeq(a.calls)
  PROVE  EncOK(SettleTools(enc, a))
<1> DEFINE n == Len(a.calls)
<1>1. DOMAIN a.calls = 1..n
  BY SeqOfElements
<1>2. n \in Nat
  BY SeqOfElements
<1> HIDE DEF n
<1>3. PICK g : SettleRun(g, enc, a, n) /\ SettleTools(enc, a) = g[n]
  BY <1>1, <1>2, SettleUnrolled
<1> DEFINE P == {k \in 0..n : EncOK(g[k])}
<1>4. 0 \in P
  BY <1>2, <1>3 DEF SettleRun
<1>5. ASSUME NEW k \in 1..n, k - 1 \in P PROVE k \in P
  <2> DEFINE e == g[k - 1]
             call == a.calls[k]
             known == RegisterTool(e, call, k)
             done == [known EXCEPT !.toolDone = @ \union {call.call}]
             gone == [e EXCEPT !.toolStates = Without(@, call.call)]
  <2>1. EncOK(e) /\ EncOK(known)
    BY <1>5, RegisterToolOK
  <2>2. g[k] \in {done, gone}
    BY <1>3 DEF SettleRun, SettleStep
  <2> HIDE DEF known, e
  <2>3. EncOK(done) /\ EncOK(gone)
    BY <2>1 DEF EncOK, EncFields
  <2> QED
    BY <2>2, <2>3
<1> HIDE DEF P
<1>6. n \in P
  BY <1>2, <1>4, <1>5, Steps
<1> QED
  BY <1>3, <1>6 DEF P

\* The searches of the terminal response, each in its blocks.
LEMMA HydrateSearchesOK ==
  ASSUME NEW enc, EncOK(enc), NEW output, IsSeq(output)
  PROVE  EncOK(HydrateSearches(enc, output))
<1> DEFINE n == Len(output)
<1>1. DOMAIN output = 1..n
  BY SeqOfElements
<1>2. n \in Nat
  BY SeqOfElements
<1> HIDE DEF n
<1>3. PICK g : SearchesRun(g, enc, output, n) /\ HydrateSearches(enc, output) = g[n]
  BY <1>1, <1>2, SearchesUnrolled
<1> DEFINE P == {k \in 0..n : EncOK(g[k])}
<1>4. 0 \in P
  BY <1>2, <1>3 DEF SearchesRun
<1>5. ASSUME NEW k \in 1..n, k - 1 \in P PROVE k \in P
  <2>1. EncOK(g[k - 1])
    BY <1>5
  <2>2. g[k] = SearchStep(output, g[k - 1], k)
    BY <1>3 DEF SearchesRun
  <2>3. EncOK(g[k])
    BY <2>1, <2>2, CompleteWebSearchOK DEF SearchStep
  <2> QED
    BY <2>3
<1> HIDE DEF P
<1>6. n \in P
  BY <1>2, <1>4, <1>5, Steps
<1> QED
  BY <1>3, <1>6 DEF P

\* output_text.done, which may hold more than the deltas did.
LEMMA TextDoneOK ==
  ASSUME NEW enc, EncOK(enc), NEW event, NEW a, NEW schema
  PROVE  EncOK(TextDone(enc, event, a, schema))
<1> DEFINE text == IF schema THEN NormalizedOutputText(TRUE, FirstBody(event.body, Text(a)))
                             ELSE event.body
           told == IF enc.textEmitted \/ text = <<>> THEN enc ELSE EmitText(enc, text)
<1>1. EncOK(told)
  <2> HIDE DEF text
  <2> QED
    BY EmitTextOK
<1> HIDE DEF told
<1>2. EncOK(CloseBlock(told))
  BY <1>1, CloseBlockOK DEF Between
<1> QED
  BY <1>1, <1>2 DEF TextDone, told

\* The hydration of a terminal response, and then its last block.
LEMMA HydrateTerminalOK ==
  ASSUME NEW enc, EncOK(enc), NEW a, NEW expose, NEW schema,
         IsSeq(a.calls), IsSeq(ResponsesOutput(a))
  PROVE  EncOK(HydrateTerminal(enc, a, expose, schema))
<1> DEFINE started == DOMAIN enc.toolSent # {} \/ DOMAIN enc.toolDeltas # {}
           Flushed(e, now) == IF now THEN FlushTools(e, a.calls) ELSE e
           blocks == ResponseBlocks(a, expose, schema)
           settled == SettleTools(enc, a)
           early == Flushed(settled, started)
           thought == HydrateThinking(early, blocks)
           searched == HydrateSearches(thought, ResponsesOutput(a))
           told == HydrateText(searched, blocks)
<1>1. EncOK(settled)
  BY SettleToolsOK
<1> HIDE DEF started, settled
<1>2. EncOK(early)
  BY <1>1, FlushToolsOK
<1> HIDE DEF early, blocks
<1>3. EncOK(thought)
  BY <1>2, CompleteThinkingOK DEF HydrateThinking
<1> HIDE DEF thought
<1>4. EncOK(searched)
  BY <1>3, HydrateSearchesOK
<1> HIDE DEF searched
<1>5. EncOK(told)
  <2> DEFINE texts == SelectSeq(blocks, LAMBDA b : b.kind = "text" /\ b.body # <<>>)
             said == EmitText(searched, texts[1].body)
  <2>1. EncOK(said)
    BY <1>4, EmitTextOK
  <2>2. EncOK(CloseBlock(said))
    <3> HIDE DEF said
    <3> QED
      BY <2>1, CloseBlockOK DEF Between
  <2> QED
    BY <1>4, <2>2 DEF HydrateText
<1> HIDE DEF told
<1>6. EncOK(Flushed(told, ~started))
  BY <1>5, FlushToolsOK
<1> QED
  BY <1>6 DEF HydrateTerminal, started, blocks, settled, early, thought, searched, told

\* BlocksNested of a stream.
BlocksOf(out) ==
  \A k \in DOMAIN out :
    LET starts == Cardinality(Before(out, "content_block_start", k))
        stops == Cardinality(Before(out, "content_block_stop", k))
    IN  CASE out[k].type = "message_start" -> k = 1
          [] out[k].type = "content_block_start" -> starts = stops /\ out[k].index = starts
          [] out[k].type \in {"content_block_delta", "content_block_stop"} ->
               starts = stops + 1 /\ out[k].index = stops
          [] out[k].type = "message_delta" -> starts = stops /\ k = Len(out) - 1
          [] OTHER -> k = Len(out)

\* The blocks of a stream that goes on are nested.
LEMMA NumberedIsNested ==
  ASSUME NEW out, NEW next, NEW open, Nested(out, next, open)
  PROVE  BlocksOf(out)
  BY DEF Nested, Numbered, BlocksOf

\* So they are when an error event ends it, inside a block or not.
LEMMA NestedFailed ==
  ASSUME NEW out, IsSeq(out), \A k \in DOMAIN out : Numbered(out, k), NEW e, e.type = "error"
  PROVE  BlocksOf(Append(out, e))
<1> DEFINE longer == Append(out, e)
           n == Len(out)
<1>1. /\ n \in Nat /\ DOMAIN longer = 1..(n + 1) /\ Len(longer) = n + 1 /\ DOMAIN out = 1..n
      /\ longer[n + 1] = e
  BY Appended
<1>2. ASSUME NEW k \in 1..n PROVE Numbered(longer, k)
  BY <1>1, StillNumbered
<1> HIDE DEF longer, n
<1>3. BlocksOf(longer)
  BY <1>1, <1>2 DEF BlocksOf, Numbered
<1> QED
  BY <1>3 DEF longer

\* So they are when it ends with nothing open.
LEMMA NestedEnded ==
  ASSUME NEW out, NEW next, Nested(out, next, NoBlock),
         NEW e, e.type = "message_delta", NEW f, f.type = "message_stop"
  PROVE  BlocksOf(Append(Append(out, e), f))
<1> DEFINE longer == Append(out, e)
           whole == Append(longer, f)
           n == Len(out)
<1>1. IsSeq(out) /\ next = Count(out, "content_block_start") /\ next = Count(out, "content_block_stop")
  BY DEF Nested
<1>2. /\ n \in Nat /\ DOMAIN longer = 1..(n + 1) /\ Len(longer) = n + 1 /\ DOMAIN out = 1..n
      /\ longer[n + 1] = e /\ IsSeq(longer)
  BY <1>1, Appended
<1>3. ASSUME NEW k \in 1..n PROVE Numbered(longer, k)
  BY <1>1, <1>2, StillNumbered DEF Nested
<1>4. \A type : Before(longer, type, n + 1) = Indices(out, type)
  BY <1>1, BeforeAppended
<1> HIDE DEF longer, n
<1>5. /\ DOMAIN whole = 1..(n + 2) /\ Len(whole) = n + 2 /\ whole[n + 2] = f /\ whole[n + 1] = e
  <2>1. /\ DOMAIN whole = 1..(n + 1 + 1) /\ Len(whole) = n + 1 + 1 /\ whole[n + 1 + 1] = f
        /\ \A k \in 1..(n + 1) : whole[k] = longer[k]
    BY <1>2, Appended
  <2> HIDE DEF whole
  <2> QED
    BY <1>2, <2>1
<1>6. \A k \in 1..n : Numbered(whole, k)
  BY <1>2, <1>3, StillNumbered
<1>7. \A type : Before(whole, type, n + 1) = Indices(out, type)
  <2>1. n + 1 \in 1..Len(longer)
    BY <1>2
  <2>2. \A type : Before(whole, type, n + 1) = Before(longer, type, n + 1)
    BY <1>2, <2>1, BeforeAppended
  <2> QED
    BY <1>4, <2>2
<1>8. Cardinality(Before(whole, "content_block_start", n + 1)) =
      Cardinality(Before(whole, "content_block_stop", n + 1))
  BY <1>1, <1>7 DEF Count
<1> HIDE DEF whole
<1>9. BlocksOf(whole)
  BY <1>2, <1>5, <1>6, <1>8 DEF BlocksOf, Numbered
<1> QED
  BY <1>9 DEF whole, longer

-----------------------------------------------------------------------------
(* The shape of the accumulator, which every event leaves as it is *)

AccFields == {"id", "text", "summary", "usage", "calls", "toolCallByID", "items", "next",
              "status", "terminal", "final"}

AccShape(a) == DOMAIN a = AccFields /\ IsSeq(a.calls) /\ IsSeq(a.items)

\* ensureToolCallState keeps the shape.
LEMMA EnsureToolCallStateShape ==
  ASSUME NEW a, AccShape(a), NEW itemId, NEW callId, NEW index
  PROVE  AccShape(EnsureToolCallState(a, itemId, callId, index))
<1> DEFINE known == EnsureToolCallState(a, itemId, callId, index)
<1>1. ASSUME NEW x, NEW calls, IsSeq(calls), NEW next, NEW aliases,
             x = [[a EXCEPT !.calls = calls, !.next = next] EXCEPT !.toolCallByID = aliases]
      PROVE  AccShape(x)
  BY <1>1 DEF AccShape, AccFields
<1>2. \A new : IsSeq(Append(a.calls, new))
  BY Appended DEF AccShape
<1>3. \A at, old : IsSeq([a.calls EXCEPT ![at] = old])
  BY ExceptIsSeq DEF AccShape
<1>4. \/ \E new, next, aliases : known =
           [[a EXCEPT !.calls = Append(a.calls, new), !.next = next] EXCEPT !.toolCallByID = aliases]
      \/ \E at, old, next, aliases : known =
           [[a EXCEPT !.calls = [a.calls EXCEPT ![at] = old], !.next = next]
              EXCEPT !.toolCallByID = aliases]
  <2> DEFINE item == FirstNonEmpty(itemId, callId)
             call == FirstNonEmpty(callId, item)
             at == CallKnownBy(a, call, item)
             new == [item |-> item, call |-> call, tool |-> "function_call", name |-> "",
                     body |-> <<>>, index |-> ResolvedIndex(a, index),
                     status |-> "in_progress", added |-> FALSE, done |-> FALSE]
             c == a.calls[at]
             old == [c EXCEPT !.item = IF c.item = c.call THEN item ELSE @,
                              !.call = IF c.item = c.call THEN call ELSE @,
                              !.index = IF index >= 0 THEN index ELSE @]
             next == IF index >= 0 THEN AfterIndex(a, index) ELSE a.next
             Aliased(x, p, ids) == [id \in DOMAIN x \union ids |-> IF id \in ids THEN p ELSE x[id]]
  <2>1. CASE at = 0
    <3>1. known = [[a EXCEPT !.calls = Append(a.calls, new), !.next = AfterIndex(a, index)]
                     EXCEPT !.toolCallByID =
                       Aliased(a.toolCallByID, Len(a.calls) + 1, {call, item})]
      BY <2>1 DEF EnsureToolCallState, RegisterAliases, AccShape, AccFields
    <3> HIDE DEF new, item, call, known, Aliased
    <3> QED
      BY <3>1
  <2>2. CASE at # 0
    <3>1. known = [[a EXCEPT !.calls = [a.calls EXCEPT ![at] = old], !.next = next]
                     EXCEPT !.toolCallByID =
                       Aliased(a.toolCallByID, at, {old.call, old.item, call, item})]
      BY <2>2 DEF EnsureToolCallState, RegisterAliases, AccShape, AccFields
    <3> HIDE DEF old, item, call, known, Aliased, next
    <3> QED
      BY <3>1
  <2> QED
    BY <2>1, <2>2
<1> QED
  BY <1>1, <1>2, <1>3, <1>4

\* So does a change of one call.
LEMMA OneCallShape ==
  ASSUME NEW a, AccShape(a), NEW at, NEW call
  PROVE  AccShape([a EXCEPT !.calls[at] = call])
<1>1. IsSeq([a.calls EXCEPT ![at] = call])
  BY ExceptIsSeq DEF AccShape
<1> QED
  BY <1>1 DEF AccShape, AccFields

\* So does the event of a tool's arguments.
LEMMA ApplyToolArgumentEventShape ==
  ASSUME NEW a, AccShape(a), NEW event
  PROVE  AccShape(ApplyToolArgumentEvent(a, event))
<1> DEFINE id == FirstNonEmpty(event.call, event.id)
           known == EnsureToolCallState(a, event.id, id, event.index)
           c == known.calls[known.toolCallByID[id]]
           told == [c EXCEPT !.name = FirstNonEmpty(event.name, @), !.tool = event.kind,
                             !.body = IF event.type = "arguments.done" THEN FirstBody(event.body, @)
                                      ELSE @ \o event.body,
                             !.status = IF event.type = "arguments.done" THEN "completed" ELSE @]
<1>1. AccShape(known)
  BY EnsureToolCallStateShape
<1>2. ApplyToolArgumentEvent(a, event) =
        [known EXCEPT !.calls[known.toolCallByID[id]] = told]
  BY DEF ApplyToolArgumentEvent
<1> HIDE DEF known, told
<1> QED
  BY <1>1, <1>2, OneCallShape

\* So does the item of a tool call.
LEMMA CaptureToolCallShape ==
  ASSUME NEW a, AccShape(a), NEW item, NEW index
  PROVE  AccShape(CaptureToolCall(a, item, index))
<1> DEFINE id == FirstNonEmpty(item.call, item.id)
           known == EnsureToolCallState(a, FirstNonEmpty(item.id, id), id, index)
           c == known.calls[known.toolCallByID[id]]
           told == [c EXCEPT !.name = FirstNonEmpty(item.name, @), !.tool = item.kind,
                             !.body = FirstBody(item.body, @),
                             !.status = FirstNonEmpty(item.status, @)]
<1>1. AccShape(known)
  BY EnsureToolCallStateShape
<1>2. CaptureToolCall(a, item, index) =
        [known EXCEPT !.calls[known.toolCallByID[id]] = told]
  BY DEF CaptureToolCall
<1> HIDE DEF known, told
<1> QED
  BY <1>1, <1>2, OneCallShape

\* So does any item.
LEMMA CaptureOutputItemShape ==
  ASSUME NEW a, AccShape(a), NEW item, NEW explicitIndex
  PROVE  AccShape(CaptureOutputItem(a, item, explicitIndex))
<1> DEFINE index == ResolvedIndex(a, explicitIndex)
           next == AfterIndex(a, explicitIndex)
           same == {i \in DOMAIN a.items : SameOutputItem(a.items[i], item, index)}
           entry == [key |-> item.id, keyIndex |-> index, index |-> index, item |-> item]
           kept == [i \in DOMAIN a.items |-> IF i \in same
                      THEN [a.items[i] EXCEPT !.index = index, !.item = item] ELSE a.items[i]]
           result == CaptureOutputItem(a, item, explicitIndex)
<1>1. result \in {a, CaptureToolCall(a, item, explicitIndex), [a EXCEPT !.items = kept, !.next = next],
                  [a EXCEPT !.items = Append(@, entry), !.next = next]}
  BY DEF CaptureOutputItem
<1>2. IsSeq(kept)
  <2>1. DOMAIN a.items = 1..Len(a.items) /\ Len(a.items) \in Nat
    BY SeqOfElements DEF AccShape
  <2>2. kept = [k \in 1..Len(a.items) |-> kept[k]]
    BY <2>1
  <2> HIDE DEF kept
  <2> QED
    BY <2>1, <2>2 DEF IsSeq
<1>3. IsSeq(Append(a.items, entry))
  BY Appended DEF AccShape
<1> HIDE DEF kept, entry, next
<1>4. /\ AccShape([a EXCEPT !.items = kept, !.next = next])
      /\ AccShape([a EXCEPT !.items = Append(@, entry), !.next = next])
  BY <1>2, <1>3 DEF AccShape, AccFields
<1> HIDE DEF result
<1>5. AccShape(result)
  BY <1>1, <1>4, CaptureToolCallShape
<1> QED
  BY <1>5 DEF result

\* ReplaceOutputItems, one item after the other.
CaptureRun(g, a, output, n) ==
  g[0] = [a EXCEPT !.items = <<>>] /\ \A k \in 1..n : g[k] = CaptureOutputItem(g[k - 1], output[k], k - 1)

\* The fold over the output is such a run.
LEMMA CaptureUnrolled ==
  ASSUME NEW a, NEW output, NEW n \in Nat, DOMAIN output = 1..n
  PROVE  \E g : CaptureRun(g, a, output, n) /\ ReplaceOutputItems(a, output) = g[n]
<1> DEFINE s == [i \in DOMAIN output |-> i]
           Fold(f, D) == f = [S \in SUBSET D |->
             IF S = {} THEN [a EXCEPT !.items = <<>>] ELSE CaptureOutputItem(f[S \ {Max(S)}], output[s[Max(S)]], s[Max(S)] - 1)]
           f == CHOOSE f : Fold(f, DOMAIN s)
           P == {m \in Nat : \E h : Fold(h, 1..m)}
<1>1. ReplaceOutputItems(a, output) = f[DOMAIN s]
  BY DEF FoldLeft, MapThenFoldSet, ReplaceOutputItems, FoldLeftDomain
<1>2. DOMAIN s = 1..n /\ \A k \in 1..n : s[k] = k
  OBVIOUS
<1> HIDE DEF s
<1>3. 0 \in P
  <2>1. \A S \in SUBSET (1..0) : S = {}
    OBVIOUS
  <2>2. Fold([S \in SUBSET (1..0) |-> [a EXCEPT !.items = <<>>]], 1..0)
    BY <2>1
  <2> QED
    BY <2>2
<1>4. ASSUME NEW k \in 1..n, k - 1 \in P PROVE k \in P
  <2>1. PICK h : Fold(h, 1..(k - 1))
    BY <1>4
  <2> DEFINE longer == [S \in SUBSET (1..k) |->
               IF k \in S THEN CaptureOutputItem(h[S \ {k}], output[s[k]], s[k] - 1) ELSE h[S]]
  <2>2. longer = [S \in SUBSET (1..k) |-> longer[S]]
    OBVIOUS
  <2>3. \A S \in SUBSET (1..(k - 1)) : S \in SUBSET (1..k) /\ longer[S] = h[S]
    OBVIOUS
  <2>4. \A S \in SUBSET (1..k) : k \in S => longer[S] = CaptureOutputItem(h[S \ {k}], output[s[k]], s[k] - 1)
    OBVIOUS
  <2> HIDE DEF longer
  <2>5. ASSUME NEW S \in SUBSET (1..k), S # {}
        PROVE  longer[S] = CaptureOutputItem(longer[S \ {Max(S)}], output[s[Max(S)]], s[Max(S)] - 1)
    <3>1. CASE k \in S
      <4>1. Max(S) = k /\ S \ {k} \in SUBSET (1..(k - 1))
        BY <3>1, MaxOfSegment
      <4> QED
        BY <3>1, <4>1, <2>3, <2>4
    <3>2. CASE k \notin S
      <4>1. S \in SUBSET (1..(k - 1))
        BY <3>2, MaxOfSegment
      <4>2. S \ {Max(S)} \in SUBSET (1..(k - 1))
        BY <4>1
      <4>3. h[S] = CaptureOutputItem(h[S \ {Max(S)}], output[s[Max(S)]], s[Max(S)] - 1)
        BY <2>1, <2>5, <4>1
      <4> QED
        BY <2>3, <4>1, <4>2, <4>3
    <3> QED
      BY <3>1, <3>2
  <2>6. longer[{}] = [a EXCEPT !.items = <<>>]
    BY <2>1, <2>3
  <2>7. Fold(longer, 1..k)
    BY <2>2, <2>5, <2>6
  <2>8. k \in Nat
    OBVIOUS
  <2> HIDE DEF Fold
  <2> QED
    BY <2>7, <2>8
<1>5. Fold(f, 1..n)
  <2> HIDE DEF P
  <2>1. n \in P
    BY <1>3, <1>4, Steps
  <2> QED
    BY <1>2, <2>1 DEF P
<1> HIDE DEF f
<1> DEFINE g == [k \in 0..n |-> f[1..k]]
<1>6. g[0] = [a EXCEPT !.items = <<>>] /\ g[n] = f[DOMAIN s]
  <2>1. 1..0 = {} /\ {} \in SUBSET (1..n) /\ 0 \in 0..n /\ n \in 0..n
    OBVIOUS
  <2>2. f[{}] = [a EXCEPT !.items = <<>>]
    BY <1>5, <2>1
  <2> QED
    BY <1>2, <2>1, <2>2
<1>7. ASSUME NEW k \in 1..n PROVE g[k] = CaptureOutputItem(g[k - 1], output[k], k - 1)
  <2>1. Max(1..k) = k /\ (1..k) \ {k} = 1..(k - 1) /\ 1..k # {} /\ 1..k \in SUBSET (1..n)
    BY Segment
  <2>2. f[1..k] = CaptureOutputItem(f[1..(k - 1)], output[s[k]], s[k] - 1)
    BY <1>5, <2>1
  <2>3. k \in 0..n /\ k - 1 \in 0..n
    OBVIOUS
  <2> QED
    BY <1>2, <2>2, <2>3
<1> HIDE DEF g
<1>8. CaptureRun(g, a, output, n) /\ ReplaceOutputItems(a, output) = g[n]
  BY <1>1, <1>6, <1>7 DEF CaptureRun
<1> QED
  BY <1>8

\* So does the output of a response, when there is one.
LEMMA ReplacedShape ==
  ASSUME NEW a, AccShape(a), NEW output, IsSeq(output)
  PROVE  AccShape(Replaced(a, output))
<1> DEFINE n == Len(output)
<1>1. DOMAIN output = 1..n
  BY SeqOfElements
<1>2. n \in Nat
  BY SeqOfElements
<1> HIDE DEF n
<1>3. PICK g : CaptureRun(g, a, output, n) /\ ReplaceOutputItems(a, output) = g[n]
  BY <1>1, <1>2, CaptureUnrolled
<1> DEFINE P == {k \in 0..n : AccShape(g[k])}
<1>4. 0 \in P
  <2>1. AccShape([a EXCEPT !.items = <<>>])
    BY EmptyIsSeq DEF AccShape, AccFields
  <2> QED
    BY <1>2, <1>3, <2>1 DEF CaptureRun
<1>5. ASSUME NEW k \in 1..n, k - 1 \in P PROVE k \in P
  <2>1. AccShape(g[k - 1])
    BY <1>5
  <2>2. g[k] = CaptureOutputItem(g[k - 1], output[k], k - 1)
    BY <1>3 DEF CaptureRun
  <2>3. AccShape(g[k])
    BY <2>1, <2>2, CaptureOutputItemShape
  <2> QED
    BY <2>3
<1> HIDE DEF P
<1>6. n \in P
  BY <1>2, <1>4, <1>5, Steps
<1> QED
  BY <1>3, <1>6 DEF P, Replaced

\* So does any event.
LEMMA ApplyShape ==
  ASSUME NEW a, AccShape(a), NEW event, IsSeq(event.output)
  PROVE  AccShape(Apply(a, event))
<1> DEFINE named == [a EXCEPT !.id = IF event.response
                                       THEN FirstNonEmpty(event.responseId, @)
                                       ELSE FirstNonEmpty(@, event.responseId),
                              !.status = FirstNonEmpty(event.respStatus, @),
                              !.usage = IF event.usage # NoUsage THEN event.usage ELSE @]
           noted == ApplyMetadata(a, event)
           told == ApplyText(noted, event)
           argued == IF event.type \in {"arguments.delta", "arguments.done"}
                       THEN ApplyToolArgumentEvent(told, event) ELSE told
           captured == CaptureOutputItem(argued, event.item, event.index)
           ended == [captured EXCEPT !.terminal = event.type, !.final = event]
<1>1. AccShape(named)
  BY DEF AccShape, AccFields
<1>2. noted = Replaced(named, event.output)
  BY DEF ApplyMetadata
<1> HIDE DEF named, noted
<1>3. AccShape(noted)
  BY <1>1, <1>2, ReplacedShape
<1>4. AccShape(told)
  BY <1>3 DEF ApplyText, AccShape, AccFields
<1> HIDE DEF told
<1>5. AccShape(argued)
  BY <1>4, ApplyToolArgumentEventShape
<1> HIDE DEF argued
<1>6. AccShape(captured)
  BY <1>5, CaptureOutputItemShape
<1> HIDE DEF captured
<1>7. AccShape(ended)
  BY <1>6 DEF AccShape, AccFields
<1> HIDE DEF ended
<1>8. AccShape(ApplyTerminal(captured, event))
  BY <1>6, <1>7, ReplacedShape DEF ApplyTerminal, ended
<1> QED
  BY <1>8 DEF Apply, noted, told, argued, captured

\* The accumulator starts with that shape.
LEMMA EmptyAccumulatorShape == AccShape(EmptyAccumulator)
  BY EmptyIsSeq DEF AccShape, AccFields, EmptyAccumulator

\* The output of the object is a sequence, whatever was accumulated.
LEMMA ResponsesOutputIsSeq ==
  ASSUME NEW a, AccShape(a)
  PROVE  IsSeq(ResponsesOutput(a))
<1> DEFINE text == Text(a)
           ending == IF Incomplete(a) THEN "incomplete" ELSE "completed"
           CallStatus(call) == IF Incomplete(a) THEN FirstNonEmpty(call.status, "incomplete")
                                                ELSE "completed"
           Filled(item) == IF item.kind = "message"
                             THEN [item EXCEPT !.body = FirstBody(@, text),
                                               !.status = FirstNonEmpty(@, ending)]
                             ELSE item
           calls == [i \in DOMAIN a.calls |->
                       [index |-> a.calls[i].index, order |-> i,
                        item |-> ResponseOutputItem(a.calls[i], CallStatus(a.calls[i]))]]
           items == [i \in DOMAIN a.items |->
                       [index |-> a.items[i].index, order |-> Len(a.calls) + i,
                        item |-> Filled(a.items[i].item)]]
           all == calls \o items
           entries == Ordered(all)
           whole == [i \in DOMAIN entries |-> entries[i].item]
           only == [NoItem EXCEPT !.kind = "message", !.body = text, !.status = ending]
<1>1. IsSeq(calls) /\ IsSeq(items)
  <2>1. /\ DOMAIN a.calls = 1..Len(a.calls) /\ Len(a.calls) \in Nat
        /\ DOMAIN a.items = 1..Len(a.items) /\ Len(a.items) \in Nat
    BY SeqOfElements DEF AccShape
  <2>2. calls = [k \in 1..Len(a.calls) |-> calls[k]] /\ items = [k \in 1..Len(a.items) |-> items[k]]
    BY <2>1
  <2> HIDE DEF calls, items
  <2> QED
    BY <2>1, <2>2 DEF IsSeq
<1> HIDE DEF calls, items
<1>2. Len(all) \in Nat
  BY <1>1, Concatenated
<1> HIDE DEF all
<1>3. DOMAIN entries = 1..Len(all)
  BY DEF Ordered
<1> HIDE DEF entries
<1>4. whole = [k \in 1..Len(all) |-> whole[k]]
  BY <1>3
<1> HIDE DEF whole
<1>5. IsSeq(whole)
  BY <1>2, <1>4 DEF IsSeq
<1>6. IsSeq(<<only>>)
  <2>1. <<only>> \in Seq({only})
    OBVIOUS
  <2> QED
    BY <2>1, TypedIsSeq
<1> HIDE DEF only
<1>7. ResponsesOutput(a) \in {whole, <<>>, <<only>>}
  BY DEF ResponsesOutput, whole, entries, all, calls, items, only
<1> QED
  BY <1>5, <1>6, <1>7, EmptyIsSeq

-----------------------------------------------------------------------------
(* What the upstream may send about an item *)

Tuples(s, n) == IsSeq(s) /\ Len(s) = n /\ DOMAIN s = 1..n

\* A tuple is a sequence of its length.
LEMMA TuplesOf ==
  ASSUME NEW a, NEW b, NEW c, NEW d, NEW e
  PROVE  /\ Tuples(<<a>>, 1) /\ Tuples(<<a, b>>, 2) /\ Tuples(<<a, b, c>>, 3)
         /\ Tuples(<<a, b, c, d>>, 4) /\ Tuples(<<a, b, c, d, e>>, 5)
<1> DEFINE S == {a, b, c, d, e}
<1>1. <<a>> \in Seq(S) /\ Len(<<a>>) = 1
  OBVIOUS
<1>2. <<a, b>> \in Seq(S) /\ Len(<<a, b>>) = 2
  OBVIOUS
<1>3. <<a, b, c>> \in Seq(S) /\ Len(<<a, b, c>>) = 3
  OBVIOUS
<1>4. <<a, b, c, d>> \in Seq(S) /\ Len(<<a, b, c, d>>) = 4
  OBVIOUS
<1>5. <<a, b, c, d, e>> \in Seq(S) /\ Len(<<a, b, c, d, e>>) = 5
  OBVIOUS
<1> HIDE DEF S
<1>6. ASSUME NEW s \in Seq(S) PROVE Tuples(s, Len(s))
  BY TypedIsSeq, SeqOfElements DEF Tuples
<1>7. Tuples(<<a>>, 1)
  BY <1>1, <1>6
<1>8. Tuples(<<a, b>>, 2)
  BY <1>2, <1>6
<1>9. Tuples(<<a, b, c>>, 3)
  BY <1>3, <1>6
<1>10. Tuples(<<a, b, c, d>>, 4)
  BY <1>4, <1>6
<1>11. Tuples(<<a, b, c, d, e>>, 5)
  BY <1>5, <1>6
<1> QED
  BY <1>7, <1>8, <1>9, <1>10, <1>11

\* An announcement or the end of the item, or else a fragment of it.
OfItem(e, kind, i) ==
  /\ e.type \in {"output_item.added", "output_item.done"}
  /\ e.item.kind = kind /\ e.item.id = ItemId(i)
  /\ kind \in ToolKinds => e.item.call = CallId(i)
  /\ e.type = "output_item.added" => e.item.status = "in_progress"
  /\ e.body = <<>> /\ e.sig = ""

OfFragment(e, kind, i) ==
  /\ e.item = NoItem /\ e.id = ItemId(i)
  /\ e.type \in {"arguments.delta", "arguments.done", "output_text.delta", "output_text.done",
                 "reasoning_summary_text.delta", "reasoning_summary_text.done", "partial_image"}
  /\ kind \in ToolKinds =>
       /\ e.type \in {"arguments.delta", "arguments.done"} /\ e.kind = kind
       /\ e.call \in {"", CallId(i)} /\ e.sig = ""
       /\ e.type = "arguments.delta" => e.body # Whole
  /\ kind \notin ToolKinds => e.type \notin {"arguments.delta", "arguments.done"}

OfScript(e, kind, i) ==
  /\ e.output = <<>> /\ e.respStatus = "" /\ e.index = i - 1
  /\ OfItem(e, kind, i) \/ OfFragment(e, kind, i)

\* The events that complete a tool call come last.
Closes(e) == e.type \in {"arguments.done", "output_item.done"}
ClosesAfter(events, m) == m < Len(events) /\ \A k \in DOMAIN events : Closes(events[k]) <=> k > m

ScriptOK(script, i) ==
  /\ DOMAIN script = {"kind", "events"} /\ script.kind \in ItemKinds
  /\ IsSeq(script.events)
  /\ \A k \in DOMAIN script.events : OfScript(script.events[k], script.kind, i)
  /\ script.kind \in ToolKinds /\ script.events # <<>> =>
       \E m \in Nat : ClosesAfter(script.events, m)

\* The events that carry an item are of the script.
LEMMA ItemEvents ==
  ASSUME NEW kind, NEW i, NEW body, NEW status
  PROVE  OfScript(Added(kind, i, body), kind, i) /\ OfScript(Done(kind, i, body, status), kind, i)
  BY DEF Added, Done, ItemEvent, Item, NoEvent, NoItem, OfScript, OfItem

\* So are the fragments.
LEMMA FragmentEvents ==
  ASSUME NEW kind, NEW i, NEW type, NEW body, NEW named \in BOOLEAN,
         type \in {"arguments.delta", "arguments.done", "output_text.delta", "output_text.done",
                 "reasoning_summary_text.delta", "reasoning_summary_text.done", "partial_image"},
         kind \in ToolKinds => type \in {"arguments.delta", "arguments.done"},
         kind \notin ToolKinds => type \notin {"arguments.delta", "arguments.done"},
         type = "arguments.delta" => body # Whole
  PROVE  OfScript(Fragment(type, kind, i, body, named), kind, i)
  BY DEF Fragment, NoEvent, NoItem, OfScript, OfFragment

\* Every way in which a tool call may come ends with what closes it, or says nothing.
LEMMA ToolScriptsOK ==
  ASSUME NEW kind \in ToolKinds, NEW i, NEW events \in ToolScripts(kind, i)
  PROVE  /\ IsSeq(events) /\ \A k \in DOMAIN events : OfScript(events[k], kind, i)
         /\ events # <<>> => \E m \in Nat : ClosesAfter(events, m)
<1> DEFINE D(chunk, named) == Fragment("arguments.delta", kind, i, <<chunk>>, named)
           Args(named) == Fragment("arguments.done", kind, i, Whole, named)
           done == Done(kind, i, Whole, "completed")
           cut == Done(kind, i, <<1>>, "incomplete")
           new == Added(kind, i, <<>>)
           late == Added(kind, i, <<1>>)
           OK(e) == OfScript(e, kind, i)
<1>1. OK(done) /\ OK(cut) /\ OK(new) /\ OK(late)
  BY ItemEvents
<1>2. <<1>> # Whole /\ <<2>> # Whole
  BY DEF Whole
<1>3. /\ OK(D(1, FALSE)) /\ OK(D(2, FALSE)) /\ OK(D(1, TRUE)) /\ OK(D(2, TRUE))
      /\ OK(Args(FALSE)) /\ OK(Args(TRUE))
  BY <1>2, FragmentEvents
<1>4. /\ Closes(done) /\ Closes(cut) /\ Closes(Args(TRUE)) /\ Closes(Args(FALSE))
      /\ ~Closes(new) /\ ~Closes(late)
      /\ ~Closes(D(1, FALSE)) /\ ~Closes(D(2, FALSE)) /\ ~Closes(D(1, TRUE)) /\ ~Closes(D(2, TRUE))
  BY DEF Closes, Added, Done, ItemEvent, Fragment, NoEvent
<1>5. events \in {<<new, D(1, FALSE), D(2, FALSE), Args(FALSE), done>>,
                  <<new, D(1, FALSE), D(2, FALSE), Args(FALSE)>>,
                  <<new, D(1, FALSE), done>>, <<D(1, TRUE), D(2, TRUE), Args(TRUE)>>,
                  <<done>>, <<>>, <<D(1, FALSE), late, D(2, FALSE), Args(FALSE), done>>,
                  <<new, D(1, FALSE), cut>>}
  BY DEF ToolScripts
<1> DEFINE Fine(s, n, m) == /\ Tuples(s, n) /\ m < n
                           /\ \A k \in 1..n : OK(s[k]) /\ (Closes(s[k]) <=> k > m)
<1> HIDE DEF D, Args, done, cut, new, late, OK
<1>6. ASSUME NEW a, NEW b, NEW c, NEW d, NEW e, OK(a), OK(b), OK(c), OK(d), OK(e)
      PROVE  /\ Closes(a) => Fine(<<a>>, 1, 0)
             /\ ~Closes(a) /\ ~Closes(b) /\ Closes(c) => Fine(<<a, b, c>>, 3, 2)
             /\ ~Closes(a) /\ ~Closes(b) /\ ~Closes(c) /\ Closes(d) => Fine(<<a, b, c, d>>, 4, 3)
             /\ ~Closes(a) /\ ~Closes(b) /\ ~Closes(c) /\ Closes(d) /\ Closes(e) =>
                  Fine(<<a, b, c, d, e>>, 5, 3)
  <2>1. ASSUME Closes(a) PROVE Fine(<<a>>, 1, 0)
    <3>1. Tuples(<<a>>, 1)
      BY TuplesOf
    <3>2. \A k \in 1..1 : OK(<<a>>[k])
      BY <1>6
    <3>3. \A k \in 1..1 : Closes(<<a>>[k]) <=> k > 0
      BY <2>1
    <3> QED
      BY <3>1, <3>2, <3>3
  <2>2. ASSUME ~Closes(a) /\ ~Closes(b) /\ Closes(c) PROVE Fine(<<a, b, c>>, 3, 2)
    <3>1. Tuples(<<a, b, c>>, 3)
      BY TuplesOf
    <3>2. \A k \in 1..3 : OK(<<a, b, c>>[k])
      BY <1>6
    <3>3. \A k \in 1..3 : Closes(<<a, b, c>>[k]) <=> k > 2
      BY <2>2
    <3> QED
      BY <3>1, <3>2, <3>3
  <2>3. ASSUME ~Closes(a) /\ ~Closes(b) /\ ~Closes(c) /\ Closes(d) PROVE Fine(<<a, b, c, d>>, 4, 3)
    <3>1. Tuples(<<a, b, c, d>>, 4)
      BY TuplesOf
    <3>2. \A k \in 1..4 : OK(<<a, b, c, d>>[k])
      BY <1>6
    <3>3. \A k \in 1..4 : Closes(<<a, b, c, d>>[k]) <=> k > 3
      BY <2>3
    <3> QED
      BY <3>1, <3>2, <3>3
  <2>4. ASSUME ~Closes(a) /\ ~Closes(b) /\ ~Closes(c) /\ Closes(d) /\ Closes(e) PROVE Fine(<<a, b, c, d, e>>, 5, 3)
    <3>1. Tuples(<<a, b, c, d, e>>, 5)
      BY TuplesOf
    <3>2. \A k \in 1..5 : OK(<<a, b, c, d, e>>[k])
      BY <1>6
    <3>3. \A k \in 1..5 : Closes(<<a, b, c, d, e>>[k]) <=> k > 3
      BY <2>4
    <3> QED
      BY <3>1, <3>2, <3>3
  <2> QED
    BY <2>1, <2>2, <2>3, <2>4
<1>7. events = <<>> \/ \E n \in 1..5, m \in Nat : Fine(events, n, m)
  <2> HIDE DEF Fine
  <2>1. Fine(<<new, D(1, FALSE), D(2, FALSE), Args(FALSE), done>>, 5, 3)
    BY <1>1, <1>3, <1>4, <1>6
  <2>2. Fine(<<new, D(1, FALSE), D(2, FALSE), Args(FALSE)>>, 4, 3)
    BY <1>1, <1>3, <1>4, <1>6
  <2>3. Fine(<<new, D(1, FALSE), done>>, 3, 2)
    BY <1>1, <1>3, <1>4, <1>6
  <2>4. Fine(<<D(1, TRUE), D(2, TRUE), Args(TRUE)>>, 3, 2)
    BY <1>1, <1>3, <1>4, <1>6
  <2>5. Fine(<<done>>, 1, 0)
    BY <1>1, <1>3, <1>4, <1>6
  <2>6. Fine(<<D(1, FALSE), late, D(2, FALSE), Args(FALSE), done>>, 5, 3)
    BY <1>1, <1>3, <1>4, <1>6
  <2>7. Fine(<<new, D(1, FALSE), cut>>, 3, 2)
    BY <1>1, <1>3, <1>4, <1>6
  <2> DEFINE Good(s) == s = <<>> \/ \E n \in 1..5, m \in Nat : Fine(s, n, m)
  <2>8. \A s : Fine(s, 1, 0) \/ Fine(s, 3, 2) \/ Fine(s, 4, 3) \/ Fine(s, 5, 3) \/ s = <<>> => Good(s)
    OBVIOUS
  <2> HIDE DEF Good
  <2>9. Good(events)
    BY <1>5, <2>1, <2>2, <2>3, <2>4, <2>5, <2>6, <2>7, <2>8
  <2> QED
    BY <2>9 DEF Good
<1>8. CASE events = <<>>
  BY <1>8, EmptyIsSeq
<1>9. CASE \E n \in 1..5, m \in Nat : Fine(events, n, m)
  <2>1. PICK n \in 1..5, m \in Nat : Fine(events, n, m)
    BY <1>9
  <2> QED
    BY <2>1 DEF Tuples, ClosesAfter, OK
<1> QED
  BY <1>7, <1>8, <1>9

AllOf(s, kind, i) == IsSeq(s) /\ \A k \in DOMAIN s : OfScript(s[k], kind, i)

\* What holds of five events holds of every tuple of them.
LEMMA AllOfTuples ==
  ASSUME NEW kind, NEW i, NEW a, NEW b, NEW c, NEW d, NEW e,
         OfScript(a, kind, i), OfScript(b, kind, i), OfScript(c, kind, i), OfScript(d, kind, i),
         OfScript(e, kind, i)
  PROVE  /\ AllOf(<<>>, kind, i) /\ AllOf(<<a>>, kind, i) /\ AllOf(<<a, b>>, kind, i)
         /\ AllOf(<<a, b, c>>, kind, i) /\ AllOf(<<a, b, c, d>>, kind, i)
         /\ AllOf(<<a, b, c, d, e>>, kind, i)
<1>0. AllOf(<<>>, kind, i)
  BY EmptyIsSeq DEF AllOf
<1> DEFINE OK(x) == OfScript(x, kind, i)
<1> HIDE DEF OK
<1>1. AllOf(<<a>>, kind, i)
  <2>1. Tuples(<<a>>, 1)
    BY TuplesOf
  <2>2. \A k \in 1..1 : OK(<<a>>[k])
    BY DEF OK
  <2> QED
    BY <2>1, <2>2 DEF AllOf, Tuples, OK
<1>2. AllOf(<<a, b>>, kind, i)
  <2>1. Tuples(<<a, b>>, 2)
    BY TuplesOf
  <2>2. \A k \in 1..2 : OK(<<a, b>>[k])
    BY DEF OK
  <2> QED
    BY <2>1, <2>2 DEF AllOf, Tuples, OK
<1>3. AllOf(<<a, b, c>>, kind, i)
  <2>1. Tuples(<<a, b, c>>, 3)
    BY TuplesOf
  <2>2. \A k \in 1..3 : OK(<<a, b, c>>[k])
    BY DEF OK
  <2> QED
    BY <2>1, <2>2 DEF AllOf, Tuples, OK
<1>4. AllOf(<<a, b, c, d>>, kind, i)
  <2>1. Tuples(<<a, b, c, d>>, 4)
    BY TuplesOf
  <2>2. \A k \in 1..4 : OK(<<a, b, c, d>>[k])
    BY DEF OK
  <2> QED
    BY <2>1, <2>2 DEF AllOf, Tuples, OK
<1>5. AllOf(<<a, b, c, d, e>>, kind, i)
  <2>1. Tuples(<<a, b, c, d, e>>, 5)
    BY TuplesOf
  <2>2. \A k \in 1..5 : OK(<<a, b, c, d, e>>[k])
    BY DEF OK
  <2> QED
    BY <2>1, <2>2 DEF AllOf, Tuples, OK
<1> QED
  BY <1>0, <1>1, <1>2, <1>3, <1>4, <1>5

\* Every way in which a message may come.
LEMMA MessageScriptsOK ==
  ASSUME NEW i, NEW events \in MessageScripts(i)
  PROVE  AllOf(events, "message", i)
<1> DEFINE D(chunk) == Fragment("output_text.delta", "message", i, <<chunk>>, FALSE)
           whole == Fragment("output_text.done", "message", i, Whole, FALSE)
           new == Added("message", i, <<>>)
           done == Done("message", i, Whole, "completed")
           OK(x) == OfScript(x, "message", i)
           All(s) == AllOf(s, "message", i)
<1>1. events \in {<<new, D(1), D(2), whole, done>>, <<D(1), D(2)>>, <<whole>>, <<>>}
  BY DEF MessageScripts
<1>2. "message" \notin ToolKinds
  BY DEF ToolKinds
<1>3. OK(new) /\ OK(done)
  BY ItemEvents
<1>4. OK(D(1)) /\ OK(D(2)) /\ OK(whole)
  BY <1>2, FragmentEvents
<1>5. ASSUME NEW a, NEW b, NEW c, NEW d, NEW e, OK(a), OK(b), OK(c), OK(d), OK(e)
      PROVE  All(<<a>>) /\ All(<<a, b>>) /\ All(<<a, b, c, d, e>>) /\ All(<<>>)
  BY <1>5, AllOfTuples
<1> HIDE DEF D, whole, new, done, OK, All
<1>6. All(<<new, D(1), D(2), whole, done>>)
  BY <1>3, <1>4, <1>5
<1>7. All(<<D(1), D(2)>>)
  BY <1>3, <1>4, <1>5
<1>8. All(<<whole>>) /\ All(<<>>)
  BY <1>3, <1>4, <1>5
<1>9. All(events)
  BY <1>1, <1>6, <1>7, <1>8
<1> QED
  BY <1>9 DEF All

\* Every way in which a thought may come.
LEMMA ReasoningScriptsOK ==
  ASSUME NEW i, NEW events \in ReasoningScripts(i)
  PROVE  AllOf(events, "reasoning", i)
<1> DEFINE D(chunk) == Fragment("reasoning_summary_text.delta", "reasoning", i, <<chunk>>, FALSE)
           new == Added("reasoning", i, <<>>)
           done == Done("reasoning", i, Whole, "completed")
           plain == Fragment("reasoning_summary_text.done", "reasoning", i, Whole, FALSE)
           signed == [plain EXCEPT !.sig = "sig"]
           unsigned == Done("reasoning", i, Whole, "")
           OK(x) == OfScript(x, "reasoning", i)
           All(s) == AllOf(s, "reasoning", i)
<1>1. events \in {<<new, D(1), D(2), done>>, <<D(1), D(2), signed, done>>,
                  <<D(1), D(2), unsigned>>, <<>>}
  BY DEF ReasoningScripts
<1>2. "reasoning" \notin ToolKinds
  BY DEF ToolKinds
<1>3. OK(new) /\ OK(done) /\ OK(unsigned)
  BY ItemEvents
<1>4. OK(D(1)) /\ OK(D(2)) /\ OK(signed)
  <2>1. OK(D(1)) /\ OK(D(2)) /\ OK(plain)
    BY <1>2, FragmentEvents
  <2>2. OK(signed)
    BY <1>2 DEF OfScript, OfFragment, Fragment, NoEvent
  <2> QED
    BY <2>1, <2>2
<1>5. ASSUME NEW a, NEW b, NEW c, NEW d, OK(a), OK(b), OK(c), OK(d)
      PROVE  All(<<a, b, c>>) /\ All(<<a, b, c, d>>) /\ All(<<>>)
  BY <1>5, AllOfTuples
<1> HIDE DEF D, signed, unsigned, new, done, OK, All
<1>6. All(<<new, D(1), D(2), done>>)
  BY <1>3, <1>4, <1>5
<1>7. All(<<D(1), D(2), signed, done>>)
  BY <1>3, <1>4, <1>5
<1>8. All(<<D(1), D(2), unsigned>>) /\ All(<<>>)
  BY <1>3, <1>4, <1>5
<1>9. All(events)
  BY <1>1, <1>6, <1>7, <1>8
<1> QED
  BY <1>9 DEF All

\* Every way in which an image may come.
LEMMA ImageScriptsOK ==
  ASSUME NEW i, NEW events \in ImageScripts(i)
  PROVE  AllOf(events, "image_generation_call", i)
<1> DEFINE partial(n) == Fragment("partial_image", "image_generation_call", i, <<n>>, FALSE)
           done == Done("image_generation_call", i, Whole, "completed")
           OK(x) == OfScript(x, "image_generation_call", i)
           All(s) == AllOf(s, "image_generation_call", i)
<1>1. events \in {<<partial(1), partial(2), done>>, <<done>>, <<>>}
  BY DEF ImageScripts
<1>2. "image_generation_call" \notin ToolKinds
  BY DEF ToolKinds
<1>3. OK(done) /\ OK(partial(1)) /\ OK(partial(2))
  BY <1>2, ItemEvents, FragmentEvents
<1>4. ASSUME NEW a, NEW b, NEW c, OK(a), OK(b), OK(c)
      PROVE  All(<<a>>) /\ All(<<a, b, c>>) /\ All(<<>>)
  BY <1>4, AllOfTuples
<1> HIDE DEF partial, done, OK, All
<1>5. All(<<partial(1), partial(2), done>>)
  BY <1>3, <1>4
<1>6. All(<<done>>) /\ All(<<>>)
  BY <1>3, <1>4
<1>7. All(events)
  BY <1>1, <1>5, <1>6
<1> QED
  BY <1>7 DEF All

\* Every way in which an item may come.
LEMMA ScriptsAreOK ==
  ASSUME NEW kind \in ItemKinds, NEW i, NEW script \in ScriptsOf(kind, i)
  PROVE  ScriptOK(script, i) /\ script.kind = kind
<1>1. PICK events \in Scripts(kind, i) : script = [kind |-> kind, events |-> events]
  BY DEF ScriptsOf
<1>2. DOMAIN script = {"kind", "events"} /\ script.kind = kind /\ script.events = events
  BY <1>1
<1>3. CASE kind \in ToolKinds
  <2>1. events \in ToolScripts(kind, i)
    BY <1>3 DEF Scripts, ToolKinds
  <2> QED
    BY <1>2, <2>1, <1>3, ToolScriptsOK DEF ScriptOK
<1>4. CASE kind \notin ToolKinds
  <2>1. AllOf(events, kind, i)
    <3>1. CASE kind = "message"
      BY <3>1, MessageScriptsOK DEF Scripts, ToolKinds
    <3>2. CASE kind = "reasoning"
      BY <3>2, ReasoningScriptsOK DEF Scripts, ToolKinds
    <3>3. CASE kind = "image_generation_call"
      BY <3>3, ImageScriptsOK DEF Scripts, ToolKinds
    <3>4. CASE kind = "web_search_call"
      <4> DEFINE done == Done("web_search_call", i, Whole, "completed")
      <4>1. events \in {<<done>>, <<>>}
        BY <3>4 DEF Scripts, ToolKinds
      <4>2. OfScript(done, kind, i)
        BY <3>4, ItemEvents
      <4> HIDE DEF done
      <4>3. AllOf(<<done>>, kind, i) /\ AllOf(<<>>, kind, i)
        BY <4>2, AllOfTuples
      <4> QED
        BY <4>1, <4>3
    <3> QED
      BY <1>4, <3>1, <3>2, <3>3, <3>4 DEF ItemKinds
  <2> QED
    BY <1>2, <1>4, <2>1 DEF ScriptOK, AllOf
<1> QED
  BY <1>3, <1>4

-----------------------------------------------------------------------------
(* StreamEncoder.Events *)

Fresh(enc) == enc = NewStreamEncoder \/ EncOK(enc)

\* ensureStarted: message_start first, and once.
LEMMA EnsureStartedOK ==
  ASSUME NEW enc, Fresh(enc), NEW a
  PROVE  EncOK(EnsureStarted(enc, a))
<1>1. CASE EncOK(enc)
  BY <1>1 DEF EnsureStarted, EncOK
<1>2. CASE enc = NewStreamEncoder
  <2> DEFINE e == Event("message_start", -1, "", a.id, <<>>)
             begun == EnsureStarted(enc, a)
  <2>1. begun = [[NewStreamEncoder EXCEPT !.out = Append(@, e)] EXCEPT !.started = TRUE]
    BY <1>2 DEF EnsureStarted, Emit, NewStreamEncoder
  <2>2. e.type = "message_start"
    BY DEF Event
  <2> HIDE DEF e, begun
  <2>3. /\ DOMAIN begun = EncFields /\ begun.started = TRUE /\ begun.next = 0 /\ begun.open = NoBlock
        /\ begun.thinkDeltas = <<>> /\ begun.toolOrder = <<>> /\ begun.toolDeltas = <<>>
        /\ begun.out = Append(<<>>, e)
    BY <2>1 DEF EncFields, NewStreamEncoder
  <2>4. EncOK(begun)
    BY <2>2, <2>3, NestedBegun, EmptyIsSeq DEF EncOK
  <2> QED
    BY <2>4 DEF begun
<1> QED
  BY <1>1, <1>2 DEF Fresh

\* An event that ends nothing leaves the blocks nested and the encoder well.
LEMMA EventsOK ==
  ASSUME NEW encoder, Fresh(encoder), NEW event, ~IsTerminal(event), NEW a, NEW expose, NEW schema
  PROVE  EncOK(Events(encoder, event, a, expose, schema))
<1> DEFINE enc == EnsureStarted(encoder, a)
           at == ToolCallStateForEvent(a, event)
           id == a.calls[at].call
           thought == [enc EXCEPT !.thinkDeltas = Append(@, event.body)]
           known == RegisterTool(enc, a.calls[at], at)
           deltas == Put(known.toolDeltas, id, Append(Get(known.toolDeltas, id, <<>>), event.body))
           kept == [known EXCEPT !.toolDeltas = deltas]
           result == Events(encoder, event, a, expose, schema)
<1>1. EncOK(enc)
  BY EnsureStartedOK
<1>2. result \in {enc, thought, CompleteThinking(enc, a.summary, FirstNonEmpty(event.sig, event.item.sig)),
                  EmitText(enc, event.body), TextDone(enc, event, a, schema), kept,
                  CompleteTool(enc, a.calls, at),
                  CompleteWebSearch(enc, event.item, WebSearchFallback(event.index)),
                  ReasoningDone(enc, event, expose)}
  BY DEF Events
<1> HIDE DEF enc, at, id
<1>3. EncOK(thought)
  <2>1. IsSeq(Append(enc.thinkDeltas, event.body))
    BY <1>1, Appended DEF EncOK
  <2> QED
    BY <1>1, <2>1 DEF EncOK, EncFields
<1>4. EncOK(kept)
  <2>1. EncOK(known)
    BY <1>1, RegisterToolOK
  <2> HIDE DEF known
  <2>2. IsSeq(Get(known.toolDeltas, id, <<>>))
    BY <2>1, EmptyIsSeq DEF EncOK, Get
  <2>3. IsSeq(Append(Get(known.toolDeltas, id, <<>>), event.body))
    BY <2>2, Appended
  <2>4. \A x \in DOMAIN deltas : IsSeq(deltas[x])
    BY <2>1, <2>3 DEF EncOK, Put
  <2> HIDE DEF deltas
  <2> QED
    BY <2>1, <2>4 DEF EncOK, EncFields
<1>5. EncOK(ReasoningDone(enc, event, expose))
  <2>1. EncOK([enc EXCEPT !.thinkDeltas = <<>>])
    BY <1>1, EmptyIsSeq DEF EncOK, EncFields
  <2> QED
    BY <1>1, <2>1, CompleteThinkingOK DEF ReasoningDone
<1> HIDE DEF thought, kept, result
<1>6. EncOK(result)
  BY <1>1, <1>2, <1>3, <1>4, <1>5, CompleteThinkingOK, EmitTextOK, TextDoneOK, CompleteToolOK,
     CompleteWebSearchOK
<1> QED
  BY <1>6 DEF result

\* The terminal event closes what is open, ends the message and writes no more.
LEMMA TerminateOK ==
  ASSUME NEW encoder, Fresh(encoder), NEW event, IsTerminal(event), NEW a, AccShape(a),
         NEW expose, NEW schema
  PROVE  BlocksOf(Events(encoder, event, a, expose, schema).out)
<1> DEFINE enc == EnsureStarted(encoder, a)
           hydrated == HydrateTerminal(enc, a, expose, schema)
           closed == CloseBlock(hydrated)
           e == Event("message_delta", UsageFromAccumulator(a).output, StopFromAccumulator(a), "", <<>>)
           f == Event("message_stop", -1, "", "", <<>>)
           ended == Emit(closed, e)
           whole == Emit(ended, f)
<1>1. EncOK(enc)
  BY EnsureStartedOK
<1>2. Events(encoder, event, a, expose, schema) = whole
  BY DEF Events, IsTerminal, Terminate
<1> HIDE DEF enc
<1>3. EncOK(hydrated)
  BY <1>1, HydrateTerminalOK, ResponsesOutputIsSeq DEF AccShape
<1> HIDE DEF hydrated
<1>4. EncOK(closed) /\ closed.open = NoBlock
  BY <1>3, CloseBlockOK DEF Between
<1> HIDE DEF closed
<1>5. e.type = "message_delta" /\ f.type = "message_stop"
  BY DEF Event
<1> HIDE DEF e, f
<1>6. whole.out = Append(Append(closed.out, e), f)
  BY <1>4 DEF Emit, EncOK, EncFields
<1>7. BlocksOf(Append(Append(closed.out, e), f))
  BY <1>4, <1>5, NestedEnded DEF EncOK
<1> QED
  BY <1>2, <1>6, <1>7

\* The error event may come at any point.
LEMMA FailedOK ==
  ASSUME NEW enc, Fresh(enc), NEW e, e.type = "error"
  PROVE  BlocksOf(Append(enc.out, e))
<1>1. IsSeq(enc.out) /\ \A k \in DOMAIN enc.out : Numbered(enc.out, k)
  <2>1. CASE enc = NewStreamEncoder
    BY <2>1, EmptyIsSeq DEF NewStreamEncoder
  <2>2. CASE EncOK(enc)
    BY <2>2 DEF EncOK, Nested
  <2> QED
    BY <2>1, <2>2 DEF Fresh
<1> QED
  BY <1>1, NestedFailed

\* What was written so far is nested.
LEMMA FreshIsNested ==
  ASSUME NEW enc, Fresh(enc)
  PROVE  BlocksOf(enc.out)
<1>1. CASE enc = NewStreamEncoder
  BY <1>1, EmptyIsSeq DEF NewStreamEncoder, BlocksOf
<1>2. CASE EncOK(enc)
  BY <1>2, NumberedIsNested DEF EncOK
<1> QED
  BY <1>1, <1>2 DEF Fresh
-----------------------------------------------------------------------------
(* The upstream, whatever the endpoint *)

UpstreamInv ==
  /\ endpoint \in {"anthropic", "chat", "completions", "responses"} /\ structured \in BOOLEAN
  /\ IsSeq(scripts) /\ \A i \in DOMAIN scripts : ScriptOK(scripts[i], i)
  /\ DOMAIN delivered = DOMAIN scripts
  /\ \A i \in DOMAIN scripts : delivered[i] \in 0..Len(scripts[i].events)
  /\ phase \in {"streaming", "ended", "failed", "canceled"}

\* The upstream starts with scripts of which nothing was told.
LEMMA UpstreamInit ==
  ASSUME Init
  PROVE  UpstreamInv
<1>1. PICK plan \in Plans :
        scripts \in {s \in [DOMAIN plan -> UNION {ScriptsOf(plan[i], i) : i \in DOMAIN plan}] :
                       \A i \in DOMAIN plan : s[i] \in ScriptsOf(plan[i], i)}
  BY DEF Init
<1>2. plan \in Seq(ItemKinds)
  BY PlansAssumption
<1>3. DOMAIN plan = 1..Len(plan) /\ Len(plan) \in Nat /\ \A i \in DOMAIN plan : plan[i] \in ItemKinds
  BY <1>2, LenProperties
<1>4. scripts = [k \in 1..Len(plan) |-> scripts[k]] /\ DOMAIN scripts = 1..Len(plan)
  BY <1>1, <1>3
<1>5. IsSeq(scripts)
  BY <1>3, <1>4 DEF IsSeq
<1>6. \A i \in DOMAIN scripts : ScriptOK(scripts[i], i)
  BY <1>1, <1>3, <1>4, ScriptsAreOK
<1>7. \A i \in DOMAIN scripts : Len(scripts[i].events) \in Nat
  BY <1>6, SeqOfElements DEF ScriptOK
<1> QED
  BY <1>5, <1>6, <1>7, EndpointsAssumption, PlansAssumption DEF Init, UpstreamInv

\* It tells no more of an item than the script has.
LEMMA UpstreamNext ==
  ASSUME UpstreamInv, [Next]_vars
  PROVE  UpstreamInv'
<1>1. CASE UNCHANGED vars
  BY <1>1 DEF UpstreamInv, vars
<1>2. ASSUME NEW i \in DOMAIN scripts, Receive(i) PROVE UpstreamInv'
  <2>1. Len(scripts[i].events) \in Nat /\ delivered[i] \in 0..Len(scripts[i].events)
    BY SeqOfElements DEF UpstreamInv, ScriptOK
  <2>2. delivered[i] + 1 \in 0..Len(scripts[i].events)
    <3>1. delivered[i] # Len(scripts[i].events)
      BY <1>2 DEF Receive, Finished
    <3> QED
      BY <2>1, <3>1
  <2>3. UNCHANGED <<endpoint, structured, scripts, phase>> /\ delivered' = [delivered EXCEPT ![i] = @ + 1]
    BY <1>2 DEF Receive, Handle
  <2> QED
    BY <2>2, <2>3 DEF UpstreamInv
<1>3. CASE Begin \/ Fail \/ Cancel \/ \E output \in Outputs :
             Complete(output) \/ \E reason \in {"max_output_tokens", "content_filter"} : Cut(output, reason)
  <2>1. UNCHANGED <<endpoint, structured, scripts, delivered>>
    BY <1>3 DEF Begin, Fail, Cancel, Complete, Cut, Handle
  <2>2. phase' \in {"streaming", "ended", "failed", "canceled"}
    BY <1>3 DEF Begin, Fail, Cancel, Complete, Cut, Handle, UpstreamInv
  <2> QED
    BY <2>1, <2>2 DEF UpstreamInv
<1> QED
  BY <1>1, <1>2, <1>3 DEF Next

\* The output of a terminal response is a sequence.
LEMMA OutputsAreSequences ==
  ASSUME UpstreamInv, NEW output \in Outputs
  PROVE  IsSeq(output)
<1>1. IsFiniteSet(Begun)
  <2>1. DOMAIN scripts = 1..Len(scripts) /\ Len(scripts) \in Nat
    BY SeqOfElements DEF UpstreamInv
  <2>2. Begun \subseteq 1..Len(scripts)
    BY <2>1 DEF Begun
  <2>3. IsFiniteSet(1..Len(scripts))
    BY <2>1, FS_Interval
  <2> QED
    BY <2>2, <2>3, FS_Subset
<1>2. Cardinality(Begun) \in Nat
  BY <1>1, FS_CardinalityType
<1>3. FullOutput = [n \in 1..Cardinality(Begun) |-> FullOutput[n]]
  BY DEF FullOutput
<1>4. IsSeq(FullOutput)
  BY <1>2, <1>3 DEF IsSeq
<1> QED
  BY <1>4, EmptyIsSeq DEF Outputs

-----------------------------------------------------------------------------
(* Anthropic: the invariant and the property *)

AnthropicInv ==
  endpoint = "anthropic" =>
    /\ AccShape(acc)
    /\ phase = "streaming" => Fresh(writer)
    /\ BlocksOf(writer.out)

\* An Anthropic stream starts with nothing written.
LEMMA AnthropicInit ==
  ASSUME Init
  PROVE  AnthropicInv
<1>1. endpoint = "anthropic" => writer = NewStreamEncoder
  BY DEF Init
<1>2. acc = EmptyAccumulator
  BY DEF Init
<1> QED
  BY <1>1, <1>2, EmptyAccumulatorShape, FreshIsNested DEF AnthropicInv, Fresh

\* The events that may come before the terminal one.
LEMMA ReceivedEvent ==
  ASSUME UpstreamInv, NEW i \in DOMAIN scripts, Receive(i)
  PROVE  /\ OfScript(scripts[i].events[delivered[i] + 1], scripts[i].kind, i)
         /\ delivered[i] + 1 \in 1..Len(scripts[i].events)
<1>1. /\ Len(scripts[i].events) \in Nat /\ delivered[i] \in 0..Len(scripts[i].events)
      /\ DOMAIN scripts[i].events = 1..Len(scripts[i].events)
  BY SeqOfElements DEF UpstreamInv, ScriptOK
<1>2. delivered[i] # Len(scripts[i].events)
  BY DEF Receive, Finished
<1>3. delivered[i] + 1 \in 1..Len(scripts[i].events)
  BY <1>1, <1>2
<1> QED
  BY <1>1, <1>3 DEF UpstreamInv, ScriptOK

\* No event about an item ends the response.
LEMMA NotTerminal ==
  ASSUME NEW event, NEW kind, NEW i, OfScript(event, kind, i)
  PROVE  ~IsTerminal(event) /\ IsSeq(event.output)
  BY EmptyIsSeq DEF OfScript, OfItem, OfFragment, IsTerminal

\* Neither does the first event.
LEMMA CreatedIsPlain == ~IsTerminal(Created) /\ Created.output = <<>> /\ IsSeq(Created.output)
  BY EmptyIsSeq DEF Created, NoEvent, IsTerminal

\* The terminal event has the output and the type it was made with.
LEMMA TerminalEvents ==
  ASSUME NEW type \in {"completed", "incomplete"}, NEW output, NEW reason
  PROVE  /\ IsTerminal(TerminalEvent(type, output, reason))
         /\ TerminalEvent(type, output, reason).output = output
         /\ TerminalEvent(type, output, reason).type = type
         /\ TerminalEvent(type, output, reason).item = NoItem
         /\ TerminalEvent(type, output, reason).respStatus = type
  BY DEF TerminalEvent, NoEvent, IsTerminal

Reasons == {"", "max_output_tokens", "content_filter"}

\* The response ends with one of the terminal events; complete, only with everything told.
LEMMA EndingEvents ==
  ASSUME NEW output,
         Complete(output) \/ \E reason \in {"max_output_tokens", "content_filter"} : Cut(output, reason)
  PROVE  \E type \in {"completed", "incomplete"}, reason \in Reasons :
           /\ phase = "streaming" /\ Handle(TerminalEvent(type, output, reason)) /\ phase' = "ended"
           /\ type = "completed" => \A i \in DOMAIN scripts : Finished(i)
<1>1. CASE Complete(output)
  <2>1. phase = "streaming" /\ Handle(TerminalEvent("completed", output, "")) /\ phase' = "ended"
    BY <1>1 DEF Complete
  <2>2. \A i \in DOMAIN scripts : Finished(i)
    BY <1>1 DEF Complete
  <2> QED
    BY <2>1, <2>2 DEF Reasons
<1>2. ASSUME NEW reason \in {"max_output_tokens", "content_filter"}, Cut(output, reason)
      PROVE  phase = "streaming" /\ Handle(TerminalEvent("incomplete", output, reason)) /\ phase' = "ended"
  BY <1>2 DEF Cut
<1> QED
  BY <1>1, <1>2 DEF Reasons

\* One event, on its way through the accumulator and the encoder.
LEMMA AnthropicHandles ==
  ASSUME AnthropicInv, endpoint = "anthropic", phase = "streaming",
         NEW event, IsSeq(event.output), Handle(event)
  PROVE  /\ AccShape(acc') /\ endpoint' = endpoint
         /\ ~IsTerminal(event) => Fresh(writer') /\ BlocksOf(writer'.out)
         /\ IsTerminal(event) => BlocksOf(writer'.out)
<1>1. AccShape(acc) /\ Fresh(writer)
  BY DEF AnthropicInv
<1>2. /\ acc' = Apply(acc, event) /\ endpoint' = endpoint
      /\ writer' = Events(writer, event, Apply(acc, event), TRUE, structured)
  BY DEF Handle, WriteEvent
<1>3. AccShape(acc')
  BY <1>1, <1>2, ApplyShape
<1>4. ASSUME ~IsTerminal(event) PROVE Fresh(writer')
  BY <1>1, <1>2, <1>4, EventsOK DEF Fresh
<1>5. ASSUME IsTerminal(event) PROVE BlocksOf(writer'.out)
  BY <1>1, <1>2, <1>3, <1>5, TerminateOK
<1>6. Fresh(writer') => BlocksOf(writer'.out)
  BY FreshIsNested
<1> QED
  BY <1>2, <1>3, <1>4, <1>5, <1>6

\* No step takes an Anthropic stream out of the invariant.
LEMMA AnthropicNext ==
  ASSUME UpstreamInv, AnthropicInv, [Next]_vars
  PROVE  AnthropicInv'
<1>1. CASE UNCHANGED vars
  BY <1>1 DEF AnthropicInv, vars
<1>2. SUFFICES ASSUME Next, endpoint' = "anthropic" PROVE AnthropicInv'
  BY <1>1 DEF AnthropicInv
<1>3. endpoint = "anthropic"
  BY <1>2 DEF Next, Begin, Receive, Complete, Cut, Fail, Cancel, Handle
<1>4. CASE Begin
  <2>1. phase = "streaming" /\ Handle(Created) /\ phase' = phase
    BY <1>4 DEF Begin
  <2> QED
    BY <1>3, <2>1, CreatedIsPlain, AnthropicHandles DEF AnthropicInv
<1>5. ASSUME NEW i \in DOMAIN scripts, Receive(i) PROVE AnthropicInv'
  <2> DEFINE event == scripts[i].events[delivered[i] + 1]
  <2>1. phase = "streaming" /\ Handle(event) /\ phase' = phase
    BY <1>5 DEF Receive
  <2>2. ~IsTerminal(event) /\ IsSeq(event.output)
    BY <1>5, ReceivedEvent, NotTerminal
  <2> HIDE DEF event
  <2> QED
    BY <1>3, <2>1, <2>2, AnthropicHandles DEF AnthropicInv
<1>6. ASSUME NEW output \in Outputs,
             Complete(output) \/ \E reason \in {"max_output_tokens", "content_filter"} : Cut(output, reason)
      PROVE  AnthropicInv'
  <2>1. PICK type \in {"completed", "incomplete"}, reason \in Reasons :
          phase = "streaming" /\ Handle(TerminalEvent(type, output, reason)) /\ phase' = "ended"
    BY <1>6, EndingEvents
  <2> DEFINE event == TerminalEvent(type, output, reason)
  <2>2. IsTerminal(event) /\ IsSeq(event.output)
    BY TerminalEvents, OutputsAreSequences
  <2> HIDE DEF event
  <2> QED
    BY <1>3, <2>1, <2>2, AnthropicHandles DEF AnthropicInv, event
<1>7. CASE Fail
  <2> DEFINE e == Event("error", -1, "", "", <<>>)
  <2>1. e.type = "error"
    BY DEF Event
  <2>2. /\ phase = "streaming" /\ phase' = "failed" /\ acc' = acc
        /\ writer' = [writer EXCEPT !.out = Append(@, e)]
    BY <1>3, <1>7 DEF Fail
  <2> HIDE DEF e
  <2>3. "out" \in DOMAIN writer /\ Fresh(writer)
    BY <1>3, <2>2 DEF AnthropicInv, Fresh, EncOK, EncFields, NewStreamEncoder
  <2>4. writer'.out = Append(writer.out, e)
    BY <2>2, <2>3
  <2> QED
    BY <1>3, <2>1, <2>2, <2>3, <2>4, FailedOK DEF AnthropicInv
<1>8. CASE Cancel
  BY <1>3, <1>8 DEF Cancel, AnthropicInv
<1> QED
  BY <1>2, <1>4, <1>5, <1>6, <1>7, <1>8 DEF Next

\* The Anthropic stream has one message_start, blocks numbered in their order and
\* never nested, and its message_stop last with nothing open (StreamEncoder.Events).
THEOREM AnthropicBlocksNested == Spec => [](endpoint = "anthropic" => BlocksNested)
<1>1. Init => UpstreamInv /\ AnthropicInv
  BY UpstreamInit, AnthropicInit
<1>2. UpstreamInv /\ AnthropicInv /\ [Next]_vars => UpstreamInv' /\ AnthropicInv'
  BY UpstreamNext, AnthropicNext
<1>3. AnthropicInv => (endpoint = "anthropic" => BlocksNested)
  BY DEF AnthropicInv, BlocksOf, BlocksNested, Written
<1> QED
  BY <1>1, <1>2, <1>3, PTL DEF Spec

-----------------------------------------------------------------------------
(* Chat Completions: the order of the chunks *)

Chunked(out, k) ==
  CASE out[k].type = "role" -> k = 1
    [] out[k].type = "tool" -> \A j \in Before(out, "tool", k) :
         out[j].call # out[k].call /\ out[j].index # out[k].index
    [] out[k].type = "arguments" -> \E j \in Before(out, "tool", k) : out[j].index = out[k].index
    [] OTHER -> out[k].type \in {"content", "reasoning", "image"}

\* "places" are the indices that the calls have got, "headed" those with a header.
Headers(out, places, headed, next) ==
  /\ IsSeq(out) /\ Len(out) > 0
  /\ \A k \in DOMAIN out : Chunked(out, k)
  /\ next \in Nat
  /\ \A id \in DOMAIN places : places[id] \in Nat /\ places[id] < next
  /\ \A id, jd \in DOMAIN places : places[id] = places[jd] => id = jd
  /\ headed \subseteq DOMAIN places
  /\ \A k \in Indices(out, "tool") : out[k].call \in headed /\ out[k].index = places[out[k].call]
  /\ \A id \in headed : \E k \in Indices(out, "tool") : out[k].index = places[id]

\* A chunk more changes nothing about those before it.
LEMMA StillChunked ==
  ASSUME NEW out, IsSeq(out), NEW e, NEW k \in 1..Len(out), Chunked(out, k)
  PROVE  Chunked(Append(out, e), k)
<1> DEFINE longer == Append(out, e)
<1>1. /\ \A j \in 1..Len(out) : longer[j] = out[j]
      /\ DOMAIN out = 1..Len(out)
  BY Appended
<1>2. Before(longer, "tool", k) = Before(out, "tool", k)
  BY BeforeAppended
<1>3. Before(out, "tool", k) \subseteq 1..Len(out)
  BY <1>1 DEF Before, Indices
<1> HIDE DEF longer
<1>4. Chunked(longer, k)
  BY <1>1, <1>2, <1>3 DEF Chunked
<1> QED
  BY <1>4 DEF longer

\* A chunk with text, or with arguments of a call that has its header.
LEMMA ChunkAppended ==
  ASSUME NEW out, NEW places, NEW headed, NEW next, Headers(out, places, headed, next),
         NEW e, \/ e.type \in {"content", "reasoning", "image"}
                \/ /\ e.type = "arguments"
                   /\ \E id \in headed : e.index = places[id]
  PROVE  Headers(Append(out, e), places, headed, next)
<1> DEFINE longer == Append(out, e)
           n == Len(out)
<1>1. IsSeq(out) /\ n > 0
  BY DEF Headers
<1>2. /\ IsSeq(longer) /\ n \in Nat /\ DOMAIN longer = 1..(n + 1) /\ DOMAIN out = 1..n
      /\ Len(longer) = n + 1 /\ longer[n + 1] = e /\ \A k \in 1..n : longer[k] = out[k]
  BY <1>1, Appended
<1>3. Before(longer, "tool", n + 1) = Indices(out, "tool")
  BY <1>1, BeforeAppended
<1>4. Indices(longer, "tool") = Indices(out, "tool")
  BY <1>1, IndicesOfAppended
<1>5. \A k \in 1..n : Chunked(longer, k)
  BY <1>1, <1>2, StillChunked DEF Headers
<1>6. Indices(out, "tool") \subseteq 1..n
  BY <1>2 DEF Indices
<1> HIDE DEF longer, n
<1>7. Chunked(longer, n + 1)
  <2>1. CASE e.type \in {"content", "reasoning", "image"}
    BY <1>2, <2>1 DEF Chunked
  <2>2. CASE e.type = "arguments" /\ \E id \in headed : e.index = places[id]
    <3>1. \E j \in Indices(out, "tool") : out[j].index = e.index
      BY <2>2 DEF Headers
    <3>2. \E j \in Before(longer, "tool", n + 1) : longer[j].index = e.index
      BY <1>2, <1>3, <1>6, <3>1
    <3> QED
      BY <1>2, <2>2, <3>2 DEF Chunked
  <2> QED
    BY <2>1, <2>2
<1>8. \A k \in DOMAIN longer : Chunked(longer, k)
  BY <1>2, <1>5, <1>7
<1>9. \A k \in Indices(longer, "tool") : longer[k] = out[k]
  BY <1>2, <1>4, <1>6
<1>10. Headers(longer, places, headed, next)
  BY <1>1, <1>2, <1>4, <1>8, <1>9 DEF Headers
<1> QED
  BY <1>10 DEF longer

\* The header of a call that has a place and had no header.
LEMMA HeaderAppended ==
  ASSUME NEW out, NEW places, NEW headed, NEW next, Headers(out, places, headed, next),
         NEW id \in DOMAIN places, id \notin headed,
         NEW e, e.type = "tool", e.call = id, e.index = places[id]
  PROVE  Headers(Append(out, e), places, headed \union {id}, next)
<1> DEFINE longer == Append(out, e)
           n == Len(out)
<1>1. IsSeq(out) /\ n > 0
  BY DEF Headers
<1>2. /\ IsSeq(longer) /\ n \in Nat /\ DOMAIN longer = 1..(n + 1) /\ DOMAIN out = 1..n
      /\ Len(longer) = n + 1 /\ longer[n + 1] = e /\ \A k \in 1..n : longer[k] = out[k]
  BY <1>1, Appended
<1>3. Before(longer, "tool", n + 1) = Indices(out, "tool")
  BY <1>1, BeforeAppended
<1>4. Indices(longer, "tool") = Indices(out, "tool") \union {n + 1}
  BY <1>1, IndicesOfAppended
<1>5. \A k \in 1..n : Chunked(longer, k)
  BY <1>1, <1>2, StillChunked DEF Headers
<1>6. Indices(out, "tool") \subseteq 1..n
  BY <1>2 DEF Indices
<1> HIDE DEF longer, n
<1>7. \A j \in Indices(out, "tool") : longer[j] = out[j] /\ out[j].call # id /\ out[j].index # places[id]
  BY <1>2, <1>6 DEF Headers
<1>8. Chunked(longer, n + 1)
  BY <1>2, <1>3, <1>7 DEF Chunked
<1>9. \A k \in DOMAIN longer : Chunked(longer, k)
  BY <1>2, <1>5, <1>8
<1>10. \A k \in Indices(longer, "tool") :
         longer[k].call \in headed \union {id} /\ longer[k].index = places[longer[k].call]
  <2>1. \A k \in Indices(out, "tool") : out[k].call \in headed /\ out[k].index = places[out[k].call]
    BY DEF Headers
  <2> QED
    BY <1>2, <1>4, <1>7, <2>1
<1>11. \A jd \in headed \union {id} : \E k \in Indices(longer, "tool") : longer[k].index = places[jd]
  <2>1. \A jd \in headed : \E k \in Indices(out, "tool") : out[k].index = places[jd]
    BY DEF Headers
  <2> QED
    BY <1>2, <1>4, <1>7, <2>1
<1>12. Headers(longer, places, headed \union {id}, next)
  BY <1>1, <1>2, <1>9, <1>10, <1>11 DEF Headers
<1> QED
  BY <1>12 DEF longer
-----------------------------------------------------------------------------
(* The chat stream *)

ChatFields == {"indexByCallID", "initialized", "argumentsSent", "nextIndex", "imageIndex",
               "lastImage", "nextImage", "tupleText", "textSent", "out"}

ChatOK(c) ==
  /\ DOMAIN c = ChatFields
  /\ Headers(c.out, c.indexByCallID, c.initialized, c.nextIndex)

\* A chat stream starts with its role.
LEMMA NewChatOK == ChatOK(NewChatStream)
<1> DEFINE e == Chunk("role", -1, "", "", <<>>)
           out == Append(<<>>, e)
<1>0. \A x : /\ IsSeq(Append(<<>>, x)) /\ Len(Append(<<>>, x)) = 1
             /\ DOMAIN Append(<<>>, x) = 1..1 /\ Append(<<>>, x)[1] = x
  <2> TAKE x
  <2>1. IsSeq(<<>>) /\ Len(<<>>) = 0
    BY EmptyIsSeq
  <2>2. /\ IsSeq(Append(<<>>, x)) /\ Len(Append(<<>>, x)) = 0 + 1
        /\ DOMAIN Append(<<>>, x) = 1..(0 + 1) /\ Append(<<>>, x)[0 + 1] = x
    BY <2>1, Appended
  <2> QED
    BY <2>2
<1>1. /\ IsSeq(out) /\ Len(out) = 1 /\ DOMAIN out = 1..1 /\ out[1] = e
  BY <1>0
<1>2. e.type = "role"
  BY DEF Chunk
<1> HIDE DEF e, out
<1>3. Indices(out, "tool") = {} /\ \A k \in DOMAIN out : Chunked(out, k)
  BY <1>1, <1>2 DEF Indices, Chunked
<1>4. Headers(out, <<>>, {}, 0)
  BY <1>1, <1>3, EmptyIsSeq DEF Headers
<1>5. /\ DOMAIN NewChatStream = ChatFields /\ NewChatStream.out = out
      /\ NewChatStream.indexByCallID = <<>> /\ NewChatStream.initialized = {}
      /\ NewChatStream.nextIndex = 0
  BY DEF NewChatStream, Write, ChatFields, out, e
<1> QED
  BY <1>4, <1>5 DEF ChatOK

\* A chunk that has to do with no tool.
LEMMA PlainOK ==
  ASSUME NEW c, ChatOK(c), NEW e, e.type \in {"content", "reasoning", "image"}
  PROVE  ChatOK(Write(c, e))
<1>1. Headers(Append(c.out, e), c.indexByCallID, c.initialized, c.nextIndex)
  BY ChunkAppended DEF ChatOK
<1> QED
  BY <1>1 DEF ChatOK, ChatFields, Write

\* writeChunk: a header at most once, and arguments only after it.
LEMMA WriteToolChunkOK ==
  ASSUME NEW c, ChatOK(c), NEW a, NEW at
  PROVE  ChatOK(WriteToolChunk(c, a, at))
<1> DEFINE call == a.calls[at]
           id == call.call
           index == At(c.indexByCallID, id, c.nextIndex)
           placed == [c EXCEPT !.indexByCallID = With(@, id, index),
                               !.nextIndex = IF id \in DOMAIN c.indexByCallID THEN @ ELSE @ + 1]
           header == Chunk("tool", index, id, call.name, <<>>)
           headed == IF id \in c.initialized \/ call.name = "" THEN placed
                     ELSE [Write(placed, header) EXCEPT !.initialized = @ \union {id}]
           sent == At(c.argumentsSent, id, 0)
           part == Chunk("arguments", index, "", "", SubSeq(call.body, sent + 1, Len(call.body)))
           whole == [Write(headed, part) EXCEPT !.argumentsSent = With(@, id, Len(call.body))]
<1>1. /\ DOMAIN c = ChatFields
      /\ Headers(c.out, c.indexByCallID, c.initialized, c.nextIndex)
  BY DEF ChatOK
<1>2. /\ DOMAIN placed = ChatFields /\ placed.out = c.out /\ placed.initialized = c.initialized
      /\ placed.indexByCallID = With(c.indexByCallID, id, index)
      /\ placed.nextIndex = IF id \in DOMAIN c.indexByCallID THEN c.nextIndex ELSE c.nextIndex + 1
      /\ placed.argumentsSent = c.argumentsSent
  BY <1>1 DEF ChatFields
<1>3. /\ id \in DOMAIN placed.indexByCallID /\ placed.indexByCallID[id] = index
      /\ Headers(placed.out, placed.indexByCallID, placed.initialized, placed.nextIndex)
  <2> DEFINE places == With(c.indexByCallID, id, index)
  <2>1. /\ DOMAIN places = DOMAIN c.indexByCallID \union {id} /\ places[id] = index
        /\ \A jd \in DOMAIN c.indexByCallID : jd # id => places[jd] = c.indexByCallID[jd]
    BY DEF With
  <2>2. CASE id \in DOMAIN c.indexByCallID
    <3>1. index = c.indexByCallID[id]
      BY <2>2 DEF At
    <3> HIDE DEF places, placed, index
    <3>2. \A jd \in DOMAIN c.indexByCallID : places[jd] = c.indexByCallID[jd]
      BY <2>1, <3>1
    <3>3. DOMAIN places = DOMAIN c.indexByCallID /\ placed.nextIndex = c.nextIndex
      BY <1>2, <2>1, <2>2
    <3>4. \A k \in Indices(c.out, "tool") : c.out[k].call \in DOMAIN places
      BY <1>1, <3>3 DEF Headers
    <3>5. c.initialized \subseteq DOMAIN c.indexByCallID
      BY <1>1 DEF Headers
    <3>6. Headers(c.out, places, c.initialized, c.nextIndex)
      BY <1>1, <3>2, <3>3, <3>4, <3>5 DEF Headers
    <3> QED
      BY <1>2, <2>1, <3>3, <3>6 DEF places
  <2>3. CASE id \notin DOMAIN c.indexByCallID
    <3>1. index = c.nextIndex
      BY <2>3 DEF At
    <3> HIDE DEF places, placed, index
    <3>2. \A jd \in DOMAIN c.indexByCallID : places[jd] = c.indexByCallID[jd] /\ jd \in DOMAIN places
      BY <2>1, <2>3
    <3>3. placed.nextIndex = c.nextIndex + 1 /\ c.nextIndex \in Nat
      BY <1>1, <1>2, <2>3 DEF Headers
    <3>4. c.initialized \subseteq DOMAIN c.indexByCallID
      BY <1>1 DEF Headers
    <3>5. \A jd \in DOMAIN places : places[jd] \in Nat /\ places[jd] < c.nextIndex + 1
      BY <1>1, <2>1, <3>1, <3>2, <3>3 DEF Headers
    <3>6. \A jd, kd \in DOMAIN places : places[jd] = places[kd] => jd = kd
      BY <1>1, <2>1, <3>1, <3>2, <3>3 DEF Headers
    <3>7. /\ \A k \in Indices(c.out, "tool") :
               c.out[k].call \in c.initialized /\ c.out[k].index = places[c.out[k].call]
          /\ \A jd \in c.initialized : \E k \in Indices(c.out, "tool") : c.out[k].index = places[jd]
      BY <1>1, <3>2, <3>4 DEF Headers
    <3>8. IsSeq(c.out) /\ Len(c.out) > 0 /\ \A k \in DOMAIN c.out : Chunked(c.out, k)
      BY <1>1 DEF Headers
    <3>9. c.initialized \subseteq DOMAIN places
      BY <3>2, <3>4
    <3>10. Headers(c.out, places, c.initialized, c.nextIndex + 1)
      BY <3>3, <3>5, <3>6, <3>7, <3>8, <3>9 DEF Headers
    <3> QED
      BY <1>2, <2>1, <3>3, <3>10 DEF places
  <2> QED
    BY <2>2, <2>3
<1> HIDE DEF placed, index
<1>4. /\ DOMAIN headed = ChatFields /\ headed.indexByCallID = placed.indexByCallID
      /\ Headers(headed.out, headed.indexByCallID, headed.initialized, headed.nextIndex)
  <2>1. CASE id \in c.initialized \/ call.name = ""
    BY <1>2, <1>3, <2>1
  <2>2. CASE ~(id \in c.initialized \/ call.name = "")
    <3>1. header.type = "tool" /\ header.call = id /\ header.index = index
      BY DEF Chunk
    <3> HIDE DEF header, id
    <3>2. Headers(Append(placed.out, header), placed.indexByCallID, placed.initialized \union {id},
                  placed.nextIndex)
      BY <1>2, <1>3, <2>2, <3>1, HeaderAppended
    <3>3. /\ DOMAIN headed = ChatFields /\ headed.indexByCallID = placed.indexByCallID
          /\ headed.out = Append(placed.out, header) /\ headed.nextIndex = placed.nextIndex
          /\ headed.initialized = placed.initialized \union {id}
      BY <1>2, <2>2 DEF Write, ChatFields
    <3> QED
      BY <3>2, <3>3
  <2> QED
    BY <2>1, <2>2
<1> HIDE DEF headed
<1>5. ASSUME id \in headed.initialized PROVE ChatOK(whole)
  <2>1. part.type = "arguments" /\ part.index = index
    BY DEF Chunk
  <2> HIDE DEF part, id
  <2>2. Headers(Append(headed.out, part), headed.indexByCallID, headed.initialized, headed.nextIndex)
    BY <1>3, <1>4, <1>5, <2>1, ChunkAppended
  <2>3. /\ DOMAIN whole = ChatFields /\ whole.indexByCallID = headed.indexByCallID
        /\ whole.out = Append(headed.out, part) /\ whole.nextIndex = headed.nextIndex
        /\ whole.initialized = headed.initialized
    BY <1>4 DEF Write, ChatFields
  <2> QED
    BY <2>2, <2>3 DEF ChatOK
<1>6. WriteToolChunk(c, a, at) =
        IF id \notin headed.initialized \/ sent >= Len(call.body) THEN headed ELSE whole
  BY DEF WriteToolChunk, headed, placed, index
<1> HIDE DEF whole, sent
<1> QED
  BY <1>4, <1>5, <1>6 DEF ChatOK

\* WriteImage, once for each picture.
LEMMA WriteImageOK ==
  ASSUME NEW c, ChatOK(c), NEW id, NEW image
  PROVE  ChatOK(WriteImage(c, id, image))
<1> DEFINE index == At(c.imageIndex, id, c.nextImage)
           e == Chunk("image", index, id, "", image)
           drawn == Write(c, e)
           whole == [drawn EXCEPT !.lastImage = With(@, id, image), !.imageIndex = With(@, id, index),
                                  !.nextImage = IF id \in DOMAIN c.imageIndex THEN @ ELSE @ + 1]
<1>1. e.type = "image"
  BY DEF Chunk
<1> HIDE DEF e
<1>2. ChatOK(drawn)
  BY <1>1, PlainOK
<1>3. WriteImage(c, id, image) =
        IF image = <<>> \/ At(c.lastImage, id, <<>>) = image THEN c ELSE whole
  BY DEF WriteImage, e
<1> HIDE DEF drawn, index
<1>4. ChatOK(whole)
  BY <1>2 DEF ChatOK, ChatFields
<1> QED
  BY <1>3, <1>4

DrawnStep(c, item) ==
  IF item.kind = "image_generation_call" THEN WriteImage(c, item.id, item.body) ELSE c

AllDrawn(c, output) == FoldLeft(LAMBDA e, item : DrawnStep(e, item), c, output)

\* One image of the output after the other.
DrawnRun(g, c, output, n) ==
  g[0] = c /\ \A k \in 1..n : g[k] = DrawnStep(g[k - 1], output[k])

\* The fold over the output is such a run.
LEMMA DrawnUnrolled ==
  ASSUME NEW c, NEW output, NEW n \in Nat, DOMAIN output = 1..n
  PROVE  \E g : DrawnRun(g, c, output, n) /\ AllDrawn(c, output) = g[n]
<1> DEFINE s == output
           Fold(f, D) == f = [S \in SUBSET D |->
             IF S = {} THEN c ELSE DrawnStep(f[S \ {Max(S)}], s[Max(S)])]
           f == CHOOSE f : Fold(f, DOMAIN s)
           P == {m \in Nat : \E h : Fold(h, 1..m)}
<1>1. AllDrawn(c, output) = f[DOMAIN s]
  BY DEF FoldLeft, MapThenFoldSet, AllDrawn
<1>2. DOMAIN s = 1..n /\ \A k : s[k] = output[k]
  OBVIOUS
<1> HIDE DEF s
<1>3. 0 \in P
  <2>1. \A S \in SUBSET (1..0) : S = {}
    OBVIOUS
  <2>2. Fold([S \in SUBSET (1..0) |-> c], 1..0)
    BY <2>1
  <2> QED
    BY <2>2
<1>4. ASSUME NEW k \in 1..n, k - 1 \in P PROVE k \in P
  <2>1. PICK h : Fold(h, 1..(k - 1))
    BY <1>4
  <2> DEFINE longer == [S \in SUBSET (1..k) |->
               IF k \in S THEN DrawnStep(h[S \ {k}], s[k]) ELSE h[S]]
  <2>2. longer = [S \in SUBSET (1..k) |-> longer[S]]
    OBVIOUS
  <2>3. \A S \in SUBSET (1..(k - 1)) : S \in SUBSET (1..k) /\ longer[S] = h[S]
    OBVIOUS
  <2>4. \A S \in SUBSET (1..k) : k \in S => longer[S] = DrawnStep(h[S \ {k}], s[k])
    OBVIOUS
  <2> HIDE DEF longer
  <2>5. ASSUME NEW S \in SUBSET (1..k), S # {}
        PROVE  longer[S] = DrawnStep(longer[S \ {Max(S)}], s[Max(S)])
    <3>1. CASE k \in S
      <4>1. Max(S) = k /\ S \ {k} \in SUBSET (1..(k - 1))
        BY <3>1, MaxOfSegment
      <4> QED
        BY <3>1, <4>1, <2>3, <2>4
    <3>2. CASE k \notin S
      <4>1. S \in SUBSET (1..(k - 1))
        BY <3>2, MaxOfSegment
      <4>2. S \ {Max(S)} \in SUBSET (1..(k - 1))
        BY <4>1
      <4>3. h[S] = DrawnStep(h[S \ {Max(S)}], s[Max(S)])
        BY <2>1, <2>5, <4>1
      <4> QED
        BY <2>3, <4>1, <4>2, <4>3
    <3> QED
      BY <3>1, <3>2
  <2>6. longer[{}] = c
    BY <2>1, <2>3
  <2>7. Fold(longer, 1..k)
    BY <2>2, <2>5, <2>6
  <2>8. k \in Nat
    OBVIOUS
  <2> HIDE DEF Fold
  <2> QED
    BY <2>7, <2>8
<1>5. Fold(f, 1..n)
  <2> HIDE DEF P
  <2>1. n \in P
    BY <1>3, <1>4, Steps
  <2> QED
    BY <1>2, <2>1 DEF P
<1> HIDE DEF f
<1> DEFINE g == [k \in 0..n |-> f[1..k]]
<1>6. g[0] = c /\ g[n] = f[DOMAIN s]
  <2>1. 1..0 = {} /\ {} \in SUBSET (1..n) /\ 0 \in 0..n /\ n \in 0..n
    OBVIOUS
  <2>2. f[{}] = c
    BY <1>5, <2>1
  <2> QED
    BY <1>2, <2>1, <2>2
<1>7. ASSUME NEW k \in 1..n PROVE g[k] = DrawnStep(g[k - 1], output[k])
  <2>1. Max(1..k) = k /\ (1..k) \ {k} = 1..(k - 1) /\ 1..k # {} /\ 1..k \in SUBSET (1..n)
    BY Segment
  <2>2. f[1..k] = DrawnStep(f[1..(k - 1)], s[k])
    BY <1>5, <2>1
  <2>3. k \in 0..n /\ k - 1 \in 0..n
    OBVIOUS
  <2> QED
    BY <1>2, <2>2, <2>3
<1> HIDE DEF g
<1>8. DrawnRun(g, c, output, n) /\ AllDrawn(c, output) = g[n]
  BY <1>1, <1>6, <1>7 DEF DrawnRun
<1> QED
  BY <1>8

\* The images of an event, and of the output of a terminal one.
LEMMA WriteImagesOK ==
  ASSUME NEW c, ChatOK(c), NEW event, IsSeq(event.output)
  PROVE  ChatOK(WriteImages(c, event))
<1> DEFINE output == event.output
           n == Len(output)
<1>1. DOMAIN output = 1..n
  BY SeqOfElements
<1>2. n \in Nat
  BY SeqOfElements
<1> HIDE DEF n
<1>3. PICK g : DrawnRun(g, c, output, n) /\ AllDrawn(c, output) = g[n]
  BY <1>1, <1>2, DrawnUnrolled
<1> DEFINE P == {k \in 0..n : ChatOK(g[k])}
<1>4. 0 \in P
  BY <1>2, <1>3 DEF DrawnRun
<1>5. ASSUME NEW k \in 1..n, k - 1 \in P PROVE k \in P
  <2>1. ChatOK(g[k - 1])
    BY <1>5
  <2>2. g[k] = DrawnStep(g[k - 1], output[k])
    BY <1>3 DEF DrawnRun
  <2>3. ChatOK(g[k])
    BY <2>1, <2>2, WriteImageOK DEF DrawnStep
  <2> QED
    BY <2>3
<1> HIDE DEF P
<1>6. n \in P
  BY <1>2, <1>4, <1>5, Steps
<1>7. ChatOK(AllDrawn(c, output))
  BY <1>3, <1>6 DEF P
<1>8. WriteImages(c, event) \in {WriteImage(c, event.id, event.body), DrawnStep(c, event.item),
                                 AllDrawn(c, output), c}
  BY DEF WriteImages, AllDrawn, DrawnStep
<1>9. ChatOK(DrawnStep(c, event.item))
  BY WriteImageOK DEF DrawnStep
<1> QED
  BY <1>7, <1>8, <1>9, WriteImageOK

-----------------------------------------------------------------------------
\* ChunksOrdered, of any stream.
InPlace(out, k) ==
  CASE out[k].type = "role" -> k = 1
    [] out[k].type = "tool" -> \A j \in Before(out, "tool", k) :
         out[j].call # out[k].call /\ out[j].index # out[k].index
    [] out[k].type = "arguments" -> \E j \in Before(out, "tool", k) : out[j].index = out[k].index
    [] out[k].type = "final" -> k = Len(out) - 1
    [] OTHER -> TRUE

ChunksOf(out) ==
  /\ \A k \in DOMAIN out : InPlace(out, k)
  /\ Indices(out, "[DONE]") \subseteq {Len(out)} /\ Indices(out, "error") \subseteq {Len(out)}

Open(out) == IsSeq(out) /\ \A k \in DOMAIN out : Chunked(out, k)

\* A chunk of a stream that goes on is in place and ends nothing.
LEMMA ChunkedIsInPlace ==
  ASSUME NEW out, NEW k, Chunked(out, k)
  PROVE  InPlace(out, k) /\ out[k].type \notin {"[DONE]", "error", "final"}
<1>1. out[k].type \notin {"[DONE]", "error", "final"}
  BY DEF Chunked
<1>2. InPlace(out, k)
  BY <1>1 DEF Chunked, InPlace
<1> QED
  BY <1>1, <1>2

\* The chunks of a stream that goes on are in order.
LEMMA OpenIsOrdered ==
  ASSUME NEW out, Open(out)
  PROVE  ChunksOf(out)
<1>1. \A k \in DOMAIN out : InPlace(out, k) /\ out[k].type \notin {"[DONE]", "error", "final"}
  BY ChunkedIsInPlace DEF Open
<1> QED
  BY <1>1 DEF ChunksOf, Indices

\* So they are when an error event ends it.
LEMMA OpenFailed ==
  ASSUME NEW out, Open(out), NEW e, e.type = "error"
  PROVE  ChunksOf(Append(out, e))
<1> DEFINE longer == Append(out, e)
           n == Len(out)
<1>1. /\ n \in Nat /\ DOMAIN out = 1..n /\ DOMAIN longer = 1..(n + 1) /\ Len(longer) = n + 1
      /\ longer[n + 1] = e
  BY Appended DEF Open
<1>2. \A k \in 1..n : Chunked(longer, k)
  BY <1>1, StillChunked DEF Open
<1> HIDE DEF longer, n
<1>3. \A k \in 1..n : InPlace(longer, k) /\ longer[k].type \notin {"[DONE]", "error", "final"}
  BY <1>2, ChunkedIsInPlace
<1>4. InPlace(longer, n + 1)
  BY <1>1 DEF InPlace
<1>5. ChunksOf(longer)
  BY <1>1, <1>3, <1>4 DEF ChunksOf, Indices
<1> QED
  BY <1>5 DEF longer

\* So they are with the finish reason and [DONE] at the end.
LEMMA OpenEnded ==
  ASSUME NEW out, Open(out), NEW e, e.type = "final", NEW f, f.type = "[DONE]"
  PROVE  ChunksOf(Append(Append(out, e), f))
<1> DEFINE longer == Append(out, e)
           whole == Append(longer, f)
           n == Len(out)
<1>1. /\ n \in Nat /\ DOMAIN out = 1..n /\ DOMAIN longer = 1..(n + 1) /\ Len(longer) = n + 1
      /\ longer[n + 1] = e /\ IsSeq(longer)
  BY Appended DEF Open
<1>2. \A k \in 1..n : Chunked(longer, k)
  BY <1>1, StillChunked DEF Open
<1> HIDE DEF longer, n
<1>3. /\ DOMAIN whole = 1..((n + 1) + 1) /\ Len(whole) = (n + 1) + 1 /\ whole[(n + 1) + 1] = f
      /\ \A k \in 1..(n + 1) : whole[k] = longer[k]
  BY <1>1, Appended
<1>4. \A k \in 1..n : k \in 1..Len(longer)
  BY <1>1
<1>5. \A k \in 1..n : Chunked(whole, k)
  BY <1>1, <1>2, <1>4, StillChunked
<1> HIDE DEF whole
<1>6. \A k \in 1..n : InPlace(whole, k) /\ whole[k].type \notin {"[DONE]", "error", "final"}
  BY <1>5, ChunkedIsInPlace
<1>7. whole[n + 1] = e /\ whole[n + 2] = f /\ Len(whole) = n + 2 /\ DOMAIN whole = 1..(n + 2)
  BY <1>1, <1>3
<1>8. InPlace(whole, n + 1) /\ InPlace(whole, n + 2)
  BY <1>1, <1>7 DEF InPlace
<1>9. \A k \in DOMAIN whole : k \in 1..n \/ k = n + 1 \/ k = n + 2
  BY <1>1, <1>7
<1>10. \A k \in DOMAIN whole : InPlace(whole, k)
  BY <1>6, <1>8, <1>9
<1>11. \A k \in DOMAIN whole : whole[k].type \in {"[DONE]", "error"} => k = Len(whole)
  BY <1>6, <1>7, <1>9
<1>12. ChunksOf(whole)
  BY <1>10, <1>11 DEF ChunksOf, Indices
<1> QED
  BY <1>12 DEF whole, longer

\* A chat stream that is well goes on.
LEMMA ChatIsOpen ==
  ASSUME NEW c, ChatOK(c)
  PROVE  Open(c.out)
  BY DEF ChatOK, Headers, Open
-----------------------------------------------------------------------------
(* One event of a chat stream *)

\* WriteContent keeps the chat stream well.
LEMMA WriteContentOK ==
  ASSUME NEW c, ChatOK(c), NEW body
  PROVE  ChatOK(WriteContent(c, body))
<1> DEFINE e == Chunk("content", -1, "", "", body)
           d == Write(c, e)
<1>1. e.type = "content"
  BY DEF Chunk
<1>2. WriteContent(c, body) = [d EXCEPT !.textSent = TRUE]
  BY DEF WriteContent
<1> HIDE DEF e
<1>3. ChatOK(d)
  BY <1>1, PlainOK
<1> HIDE DEF d
<1> QED
  BY <1>2, <1>3 DEF ChatOK, ChatFields

\* Text, also when it is held back for a schema.
LEMMA WriteTextOK ==
  ASSUME NEW c, ChatOK(c), NEW event, NEW a, NEW tuple \in BOOLEAN
  PROVE  ChatOK(WriteText(c, event, a, tuple))
<1> DEFINE whole == FirstBody(c.tupleText, Text(a))
           thought == Chunk("reasoning", -1, "", "", event.body)
           longer == [c EXCEPT !.tupleText = @ \o event.body]
           told == [c EXCEPT !.tupleText = FirstBody(event.body, @)]
<1>1. WriteText(c, event, a, tuple) \in
        {Write(c, thought), longer, WriteContent(c, event.body), told,
         WriteContent(c, ReconvertJSONText(whole)), c}
  BY DEF WriteText, IsTerminal
<1>2. thought.type = "reasoning"
  BY DEF Chunk
<1> HIDE DEF thought
<1>3. ChatOK(longer) /\ ChatOK(told)
  BY DEF ChatOK, ChatFields
<1> HIDE DEF longer, told, whole
<1> QED
  BY <1>1, <1>2, <1>3, PlainOK, WriteContentOK

\* ChatEvents: an event that ends nothing leaves the stream well; any leaves it in order.
LEMMA ChatEventsOK ==
  ASSUME NEW c, ChatOK(c), NEW event, IsSeq(event.output), NEW a, NEW tuple \in BOOLEAN
  PROVE  /\ ~IsTerminal(event) => ChatOK(ChatEvents(c, event, a, tuple))
         /\ ChunksOf(ChatEvents(c, event, a, tuple).out)
<1> DEFINE at == ToolCallStateForEvent(a, event)
           tooled == IF at = 0 THEN c ELSE WriteToolChunk(c, a, at)
           told == WriteText(WriteImages(tooled, event), event, a, tuple)
           text == IF told.textSent THEN <<>> ELSE Text(a)
           e == Chunk("final", -1, "", ChatFinishReason(a), text)
           f == Chunk("[DONE]", -1, "", "", <<>>)
           whole == Write(Write(told, e), f)
<1>1. ChatOK(tooled)
  BY WriteToolChunkOK
<1>2. ChatEvents(c, event, a, tuple) =
        IF tooled.out # c.out THEN tooled ELSE IF IsTerminal(event) THEN whole ELSE told
  BY DEF ChatEvents, FinishChat
<1> HIDE DEF tooled, at
<1>3. ChatOK(told)
  BY <1>1, WriteImagesOK, WriteTextOK
<1> HIDE DEF told
<1>4. e.type = "final" /\ f.type = "[DONE]"
  BY DEF Chunk
<1> HIDE DEF e, f
<1>5. whole.out = Append(Append(told.out, e), f)
  BY <1>3 DEF Write, ChatOK, ChatFields
<1> HIDE DEF whole
<1>6. ChunksOf(whole.out)
  BY <1>3, <1>4, <1>5, ChatIsOpen, OpenEnded
<1>7. ChunksOf(tooled.out) /\ ChunksOf(told.out)
  BY <1>1, <1>3, ChatIsOpen, OpenIsOrdered
<1> QED
  BY <1>1, <1>2, <1>3, <1>6, <1>7
-----------------------------------------------------------------------------
(* Legacy Completions: nothing but text, then the end *)

CompletionOK(c) == DOMAIN c = {"textSent", "out"} /\ Open(c.out)

\* CompletionEvents, in the same way.
LEMMA CompletionEventsOK ==
  ASSUME NEW c, CompletionOK(c), NEW event, NEW a
  PROVE  /\ ~IsTerminal(event) => CompletionOK(CompletionEvents(c, event, a))
         /\ ChunksOf(CompletionEvents(c, event, a).out)
<1> DEFINE text == IF c.textSent THEN <<>> ELSE Text(a)
           e == Chunk("final", -1, "", ChatFinishReason(a), text)
           f == Chunk("[DONE]", -1, "", "", <<>>)
           d == Chunk("content", -1, "", "", event.body)
           whole == Write(Write(c, e), f)
           longer == [Write(c, d) EXCEPT !.textSent = TRUE]
<1>1. CompletionEvents(c, event, a) \in {whole, longer, c}
      /\ (CompletionEvents(c, event, a) = whole => IsTerminal(event) \/ whole = c \/ whole = longer)
  BY DEF CompletionEvents, WriteContent, IsTerminal
<1>2. e.type = "final" /\ f.type = "[DONE]" /\ d.type = "content"
  BY DEF Chunk
<1> HIDE DEF e, f, d
<1>3. /\ whole.out = Append(Append(c.out, e), f)
      /\ DOMAIN longer = {"textSent", "out"} /\ longer.out = Append(c.out, d)
  BY DEF Write, CompletionOK
<1> HIDE DEF whole, longer
<1>4. Open(Append(c.out, d))
  <2> DEFINE out == c.out
             more == Append(out, d)
             n == Len(out)
  <2>1. /\ IsSeq(more) /\ n \in Nat /\ DOMAIN more = 1..(n + 1) /\ more[n + 1] = d
        /\ DOMAIN out = 1..n
    BY Appended DEF CompletionOK, Open
  <2>2. \A k \in 1..n : Chunked(more, k)
    BY <2>1, StillChunked DEF CompletionOK, Open
  <2> HIDE DEF more, n
  <2>3. Chunked(more, n + 1)
    BY <1>2, <2>1 DEF Chunked
  <2>4. Open(more)
    BY <2>1, <2>2, <2>3 DEF Open
  <2> QED
    BY <2>4 DEF more
<1>5. CompletionOK(longer)
  BY <1>3, <1>4 DEF CompletionOK
<1>6. ChunksOf(whole.out)
  BY <1>2, <1>3, OpenEnded DEF CompletionOK
<1>7. ChunksOf(longer.out) /\ ChunksOf(c.out)
  BY <1>5, OpenIsOrdered DEF CompletionOK
<1> QED
  BY <1>1, <1>5, <1>6, <1>7
-----------------------------------------------------------------------------
(* Chat and Completions: the invariant and the property *)

ChunkInv ==
  /\ endpoint = "chat" =>
       /\ phase = "streaming" => ChatOK(writer)
       /\ ChunksOf(writer.out)
  /\ endpoint = "completions" =>
       /\ phase = "streaming" => CompletionOK(writer)
       /\ ChunksOf(writer.out)

\* A stream of chunks starts in order.
LEMMA ChunkInit ==
  ASSUME Init
  PROVE  ChunkInv
<1>1. endpoint = "chat" => writer = NewChatStream
  BY DEF Init
<1>2. endpoint = "completions" => writer = NewCompletionStream
  BY DEF Init
<1>3. ChunksOf(NewChatStream.out)
  BY NewChatOK, ChatIsOpen, OpenIsOrdered
<1>4. CompletionOK(NewCompletionStream)
  BY EmptyIsSeq DEF NewCompletionStream, CompletionOK, Open
<1>5. ChunksOf(NewCompletionStream.out)
  BY <1>4, OpenIsOrdered DEF CompletionOK
<1> QED
  BY <1>1, <1>2, <1>3, <1>4, <1>5, NewChatOK DEF ChunkInv

\* One event, on its way through the accumulator to the chunks.
LEMMA ChunkHandles ==
  ASSUME UpstreamInv, ChunkInv, endpoint \in {"chat", "completions"}, phase = "streaming",
         NEW event, IsSeq(event.output), Handle(event)
  PROVE  /\ ChunksOf(writer'.out) /\ endpoint' = endpoint
         /\ ~IsTerminal(event) => /\ endpoint = "chat" => ChatOK(writer')
                                  /\ endpoint = "completions" => CompletionOK(writer')
<1>1. structured \in BOOLEAN /\ endpoint' = endpoint
  BY DEF Handle, UpstreamInv
<1>2. CASE endpoint = "chat"
  <2>1. ChatOK(writer) /\ writer' = ChatEvents(writer, event, Apply(acc, event), structured)
    BY <1>2 DEF Handle, WriteEvent, ChunkInv
  <2> QED
    BY <1>1, <1>2, <2>1, ChatEventsOK
<1>3. CASE endpoint = "completions"
  <2>1. CompletionOK(writer) /\ writer' = CompletionEvents(writer, event, Apply(acc, event))
    BY <1>3 DEF Handle, WriteEvent, ChunkInv
  <2> QED
    BY <1>1, <1>3, <2>1, CompletionEventsOK
<1> QED
  BY <1>2, <1>3

\* No step takes a stream of chunks out of the invariant.
LEMMA ChunkNext ==
  ASSUME UpstreamInv, ChunkInv, [Next]_vars
  PROVE  ChunkInv'
<1>1. CASE UNCHANGED vars
  BY <1>1 DEF ChunkInv, vars
<1>2. SUFFICES ASSUME Next, endpoint' \in {"chat", "completions"} PROVE ChunkInv'
  BY <1>1 DEF ChunkInv
<1>3. endpoint \in {"chat", "completions"}
  BY <1>2 DEF Next, Begin, Receive, Complete, Cut, Fail, Cancel, Handle
<1>4. CASE Begin
  <2>1. phase = "streaming" /\ Handle(Created) /\ phase' = phase
    BY <1>4 DEF Begin
  <2> QED
    BY <1>3, <2>1, CreatedIsPlain, ChunkHandles DEF ChunkInv
<1>5. ASSUME NEW i \in DOMAIN scripts, Receive(i) PROVE ChunkInv'
  <2> DEFINE event == scripts[i].events[delivered[i] + 1]
  <2>1. phase = "streaming" /\ Handle(event) /\ phase' = phase
    BY <1>5 DEF Receive
  <2>2. ~IsTerminal(event) /\ IsSeq(event.output)
    BY <1>5, ReceivedEvent, NotTerminal
  <2> HIDE DEF event
  <2> QED
    BY <1>3, <2>1, <2>2, ChunkHandles DEF ChunkInv
<1>6. ASSUME NEW output \in Outputs,
             Complete(output) \/ \E reason \in {"max_output_tokens", "content_filter"} : Cut(output, reason)
      PROVE  ChunkInv'
  <2>1. PICK type \in {"completed", "incomplete"}, reason \in Reasons :
          phase = "streaming" /\ Handle(TerminalEvent(type, output, reason)) /\ phase' = "ended"
    BY <1>6, EndingEvents
  <2> DEFINE event == TerminalEvent(type, output, reason)
  <2>2. IsSeq(event.output)
    BY TerminalEvents, OutputsAreSequences
  <2> HIDE DEF event
  <2> QED
    BY <1>3, <2>1, <2>2, ChunkHandles DEF ChunkInv, event
<1>7. CASE Fail
  <2> DEFINE e == Chunk("error", -1, "", "", <<>>)
  <2>1. e.type = "error"
    BY DEF Chunk
  <2>2. /\ phase = "streaming" /\ phase' = "failed" /\ endpoint' = endpoint
        /\ writer' = [writer EXCEPT !.out = Append(@, e)]
    BY <1>3, <1>7 DEF Fail
  <2> HIDE DEF e
  <2>3. "out" \in DOMAIN writer /\ Open(writer.out)
    BY <1>3, <2>2, ChatIsOpen DEF ChunkInv, ChatOK, CompletionOK, ChatFields
  <2>4. writer'.out = Append(writer.out, e)
    BY <2>2, <2>3
  <2> QED
    BY <2>1, <2>2, <2>3, <2>4, OpenFailed DEF ChunkInv
<1>8. CASE Cancel
  BY <1>3, <1>8 DEF Cancel, ChunkInv
<1> QED
  BY <1>2, <1>4, <1>5, <1>6, <1>7, <1>8 DEF Next

\* On the chat and completions endpoints the role comes first, the arguments of a tool
\* after its one header, and the finish reason and [DONE] last (streamChatCompletion,
\* streamCompletion).
THEOREM ChatChunksOrdered == Spec => [](endpoint \in {"chat", "completions"} => ChunksOrdered)
<1>1. Init => UpstreamInv /\ ChunkInv
  BY UpstreamInit, ChunkInit
<1>2. UpstreamInv /\ ChunkInv /\ [Next]_vars => UpstreamInv' /\ ChunkInv'
  BY UpstreamNext, ChunkNext
<1>3. ChunkInv => (endpoint \in {"chat", "completions"} => ChunksOrdered)
  BY DEF ChunkInv, ChunksOf, InPlace, ChunksOrdered, OnlyLast, Written
<1> QED
  BY <1>1, <1>2, <1>3, PTL DEF Spec

-----------------------------------------------------------------------------
(* Responses: the frames of a stream that goes on *)

\* Sequences of the same elements are the same.
LEMMA SameSeq ==
  ASSUME NEW s, IsSeq(s), NEW t, IsSeq(t), Len(s) = Len(t), \A k \in 1..Len(s) : s[k] = t[k]
  PROVE  s = t
<1>1. s = [k \in 1..Len(s) |-> s[k]] /\ t = [k \in 1..Len(t) |-> t[k]]
  BY SeqOfElements
<1>2. [k \in 1..Len(s) |-> s[k]] = [k \in 1..Len(t) |-> t[k]]
  OBVIOUS
<1> QED
  BY <1>1, <1>2

\* Nothing put after a sequence.
LEMMA NothingAdded ==
  ASSUME NEW s, IsSeq(s)
  PROVE  s \o <<>> = s
<1> DEFINE t == <<>>
<1>1. IsSeq(t) /\ Len(t) = 0
  BY EmptyIsSeq
<1> HIDE DEF t
<1>2. IsSeq(s \o t) /\ Len(s \o t) = Len(s) /\ Len(s) \in Nat /\ \A k \in 1..Len(s) : (s \o t)[k] = s[k]
  BY <1>1, Concatenated
<1>3. s \o t = s
  BY <1>2, SameSeq
<1> QED
  BY <1>3 DEF t

\* What is appended to the second of two sequences comes last of all.
LEMMA AppendedLast ==
  ASSUME NEW s, IsSeq(s), NEW t, IsSeq(t), NEW x
  PROVE  s \o Append(t, x) = Append(s \o t, x)
<1> DEFINE n == Len(s)
           m == Len(t)
           tx == Append(t, x)
           st == s \o t
           left == s \o tx
           right == Append(st, x)
<1>1. /\ IsSeq(tx) /\ m \in Nat /\ Len(tx) = m + 1 /\ tx[m + 1] = x /\ \A k \in 1..m : tx[k] = t[k]
  BY Appended
<1>2. /\ IsSeq(st) /\ n \in Nat /\ Len(st) = n + m
      /\ (\A k \in 1..n : st[k] = s[k]) /\ \A k \in 1..m : st[n + k] = t[k]
  BY Concatenated
<1> HIDE DEF tx, st
<1>3. /\ IsSeq(left) /\ Len(left) = n + Len(tx)
      /\ (\A k \in 1..n : left[k] = s[k]) /\ \A k \in 1..Len(tx) : left[n + k] = tx[k]
  BY <1>1, Concatenated
<1>4. /\ IsSeq(right) /\ Len(right) = Len(st) + 1 /\ right[Len(st) + 1] = x
      /\ \A k \in 1..Len(st) : right[k] = st[k]
  BY <1>2, Appended
<1> HIDE DEF n, m, left, right
<1>5. Len(left) = n + m + 1 /\ Len(right) = n + m + 1
  BY <1>1, <1>2, <1>3, <1>4
<1>6. ASSUME NEW k \in 1..Len(left) PROVE left[k] = right[k]
  <2>1. CASE k \in 1..n
    BY <1>1, <1>2, <1>3, <1>4, <2>1
  <2>2. CASE k - n \in 1..m
    <3>1. k = n + (k - n) /\ k \in 1..Len(st) /\ k - n \in 1..Len(tx)
      BY <1>1, <1>2, <1>5, <2>2
    <3>2. left[k] = tx[k - n] /\ st[k] = t[k - n]
      BY <1>2, <1>3, <2>2, <3>1
    <3> QED
      BY <1>1, <1>4, <2>2, <3>1, <3>2
  <2>3. CASE k = n + m + 1
    <3>1. m + 1 \in 1..Len(tx) /\ k = n + (m + 1)
      BY <1>1, <1>2, <2>3
    <3>2. left[k] = x
      BY <1>1, <1>3, <3>1
    <3> QED
      BY <1>1, <1>2, <1>4, <2>3, <3>2
  <2> QED
    BY <1>1, <1>2, <1>5, <2>1, <2>2, <2>3
<1>7. left = right
  BY <1>3, <1>4, <1>5, <1>6, SameSeq
<1> QED
  BY <1>7 DEF left, right, tx, st

\* A sequence of one element, put after another.
LEMMA OneAdded ==
  ASSUME NEW s, IsSeq(s), NEW x
  PROVE  s \o <<x>> = Append(s, x)
<1>1. <<x>> = Append(<<>>, x)
  OBVIOUS
<1>2. s \o Append(<<>>, x) = Append(s \o <<>>, x)
  BY EmptyIsSeq, AppendedLast
<1> QED
  BY <1>1, <1>2, NothingAdded

\* A sequence of two elements, put after another.
LEMMA TwoAdded ==
  ASSUME NEW s, IsSeq(s), NEW x, NEW y
  PROVE  s \o <<x, y>> = Append(Append(s, x), y) /\ IsSeq(s \o <<x, y>>)
<1>1. <<x, y>> = Append(<<x>>, y) /\ <<x>> = Append(<<>>, x)
  OBVIOUS
<1>2. IsSeq(<<x>>)
  BY TuplesOf DEF Tuples
<1>3. s \o <<x, y>> = Append(s \o <<x>>, y)
  BY <1>1, <1>2, AppendedLast
<1>4. s \o <<x>> = Append(s, x)
  BY OneAdded
<1>5. IsSeq(Append(s, x)) /\ IsSeq(Append(Append(s, x), y))
  BY Appended
<1> QED
  BY <1>3, <1>4, <1>5

\* Sequences are put one after the other in any grouping.
LEMMA AppendInParts ==
  ASSUME NEW s, IsSeq(s), NEW t, IsSeq(t), NEW u, IsSeq(u)
  PROVE  s \o (t \o u) = (s \o t) \o u
<1> DEFINE n == Len(s)
           m == Len(t)
           l == Len(u)
           tu == t \o u
           st == s \o t
           left == s \o tu
           right == st \o u
<1>1. /\ IsSeq(tu) /\ m \in Nat /\ l \in Nat /\ Len(tu) = m + l
      /\ (\A k \in 1..m : tu[k] = t[k]) /\ \A k \in 1..l : tu[m + k] = u[k]
  BY Concatenated
<1>2. /\ IsSeq(st) /\ n \in Nat /\ Len(st) = n + m
      /\ (\A k \in 1..n : st[k] = s[k]) /\ \A k \in 1..m : st[n + k] = t[k]
  BY Concatenated
<1> HIDE DEF tu, st
<1>0. IsSeq(tu) /\ IsSeq(st)
  BY <1>1, <1>2
<1>3. /\ IsSeq(left) /\ Len(left) = n + Len(tu)
      /\ (\A k \in 1..n : left[k] = s[k]) /\ \A k \in 1..Len(tu) : left[n + k] = tu[k]
  BY <1>0, Concatenated
<1>4. /\ IsSeq(right) /\ Len(right) = Len(st) + l
      /\ (\A k \in 1..Len(st) : right[k] = st[k]) /\ \A k \in 1..l : right[Len(st) + k] = u[k]
  BY <1>0, Concatenated
<1> HIDE DEF n, m, l, left, right
<1>5. Len(left) = n + m + l /\ Len(right) = n + m + l
  BY <1>1, <1>2, <1>3, <1>4
<1>6. ASSUME NEW k \in 1..Len(left) PROVE left[k] = right[k]
  <2>1. CASE k \in 1..n
    BY <1>1, <1>2, <1>3, <1>4, <2>1
  <2>2. CASE k - n \in 1..m
    <3>1. k = n + (k - n) /\ k \in 1..Len(st) /\ k - n \in 1..Len(tu)
      BY <1>1, <1>2, <1>5, <2>2
    <3>2. left[k] = tu[k - n] /\ st[k] = t[k - n]
      BY <1>2, <1>3, <2>2, <3>1
    <3> QED
      BY <1>1, <1>4, <2>2, <3>1, <3>2
  <2>3. CASE k - n - m \in 1..l
    <3> DEFINE x == k - n - m
    <3>1. m + x \in 1..Len(tu) /\ k = n + (m + x) /\ k = Len(st) + x /\ x \in 1..l
      BY <1>1, <1>2, <1>5, <2>3
    <3> HIDE DEF x
    <3>2. left[k] = tu[m + x] /\ tu[m + x] = u[x]
      BY <1>1, <1>3, <3>1
    <3> QED
      BY <1>4, <3>1, <3>2
  <2> QED
    BY <1>1, <1>2, <1>5, <2>1, <2>2, <2>3
<1>7. left = right
  BY <1>3, <1>4, <1>5, <1>6, SameSeq
<1> QED
  BY <1>7 DEF left, right, tu, st
-----------------------------------------------------------------------------
ToolTypes == {"output_item.added", "output_item.done", "arguments.delta"}
EndTypes == {"completed", "incomplete", "error"}

\* The output indices at which there is an event of a type.
Placed(out, type) == {out[k].index : k \in Indices(out, type)}

\* What ToolEventsPaired says of one event.
PairedAt(out, k) ==
  out[k].type \in ToolTypes /\ out[k].item.kind \in ToolKinds =>
    LET Same(type) == {j \in Before(out, type, k) : out[j].index = out[k].index}
    IN  /\ Same("output_item.done") = {}
        /\ (Same("output_item.added") = {}) <=> (out[k].type = "output_item.added")

PairsOf(out) ==
  /\ \A type \in EndTypes : Indices(out, type) \subseteq {Len(out)}
  /\ \A k \in DOMAIN out : PairedAt(out, k)

\* No end yet.
GoesOn(out) ==
  /\ IsSeq(out)
  /\ \A k \in DOMAIN out : out[k].type \notin EndTypes /\ PairedAt(out, k)

\* An event that may come next.
Fits(out, e) ==
  e.type \in ToolTypes /\ e.item.kind \in ToolKinds =>
    /\ e.index \notin Placed(out, "output_item.done")
    /\ e.index \notin Placed(out, "output_item.added") <=> e.type = "output_item.added"

\* The output indices after one more event.
LEMMA PlacedAppended ==
  ASSUME NEW out, IsSeq(out), NEW e, NEW type
  PROVE  /\ e.type = type => Placed(Append(out, e), type) = Placed(out, type) \union {e.index}
         /\ e.type # type => Placed(Append(out, e), type) = Placed(out, type)
<1> DEFINE longer == Append(out, e)
           n == Len(out)
<1>1. /\ n \in Nat /\ DOMAIN out = 1..n /\ longer[n + 1] = e /\ \A k \in 1..n : longer[k] = out[k]
  BY Appended
<1>2. /\ e.type = type => Indices(longer, type) = Indices(out, type) \union {n + 1}
      /\ e.type # type => Indices(longer, type) = Indices(out, type)
  BY IndicesOfAppended
<1> HIDE DEF longer, n
<1>3. Indices(out, type) \subseteq 1..n
  BY <1>1 DEF Indices
<1>4. e.type = type => Placed(longer, type) = Placed(out, type) \union {e.index}
  BY <1>1, <1>2, <1>3 DEF Placed
<1>5. e.type # type => Placed(longer, type) = Placed(out, type)
  BY <1>1, <1>2, <1>3 DEF Placed
<1> QED
  BY <1>4, <1>5 DEF longer

\* An event more changes nothing about those before it.
LEMMA PairedBefore ==
  ASSUME NEW out, IsSeq(out), NEW e, NEW k \in 1..Len(out), PairedAt(out, k)
  PROVE  PairedAt(Append(out, e), k)
<1> DEFINE longer == Append(out, e)
<1>1. /\ \A j \in 1..Len(out) : longer[j] = out[j]
      /\ DOMAIN out = 1..Len(out)
  BY Appended
<1>2. \A type : Before(longer, type, k) = Before(out, type, k) /\ Before(out, type, k) \subseteq 1..Len(out)
  BY <1>1, BeforeAppended DEF Before, Indices
<1> HIDE DEF longer
<1>3. \A type : {j \in Before(longer, type, k) : longer[j].index = longer[k].index}
                = {j \in Before(out, type, k) : out[j].index = out[k].index}
  BY <1>1, <1>2
<1>4. longer[k] = out[k]
  BY <1>1
<1>5. PairedAt(longer, k)
  BY <1>3, <1>4 DEF PairedAt
<1> QED
  BY <1>5 DEF longer

\* An event that fits is paired where it is put.
LEMMA PairedLast ==
  ASSUME NEW out, IsSeq(out), NEW e, Fits(out, e)
  PROVE  PairedAt(Append(out, e), Len(out) + 1)
<1> DEFINE longer == Append(out, e)
           n == Len(out)
<1>1. /\ n \in Nat /\ DOMAIN out = 1..n /\ longer[n + 1] = e /\ \A k \in 1..n : longer[k] = out[k]
  BY Appended
<1>2. \A type : Before(longer, type, n + 1) = Indices(out, type) /\ Indices(out, type) \subseteq 1..n
  BY <1>1, BeforeAppended DEF Indices
<1> HIDE DEF longer, n
<1>3. \A type : ({j \in Before(longer, type, n + 1) : longer[j].index = longer[n + 1].index} = {})
                <=> e.index \notin Placed(out, type)
  BY <1>1, <1>2 DEF Placed
<1>4. PairedAt(longer, n + 1)
  BY <1>1, <1>3 DEF PairedAt, Fits
<1> QED
  BY <1>4 DEF longer, n

\* A stream goes on with an event that fits and ends nothing.
LEMMA GoesOnAppended ==
  ASSUME NEW out, GoesOn(out), NEW e, e.type \notin EndTypes, Fits(out, e)
  PROVE  GoesOn(Append(out, e))
<1> DEFINE longer == Append(out, e)
           n == Len(out)
<1>1. /\ n \in Nat /\ DOMAIN out = 1..n /\ longer[n + 1] = e /\ \A k \in 1..n : longer[k] = out[k]
      /\ IsSeq(longer) /\ DOMAIN longer = 1..(n + 1)
  BY Appended DEF GoesOn
<1>2. \A k \in 1..n : PairedAt(longer, k)
  BY <1>1, PairedBefore DEF GoesOn
<1>3. PairedAt(longer, n + 1)
  BY PairedLast DEF GoesOn
<1> HIDE DEF longer, n
<1>4. \A k \in 1..n : longer[k].type \notin EndTypes
  BY <1>1 DEF GoesOn
<1>5. GoesOn(longer)
  BY <1>1, <1>2, <1>3, <1>4 DEF GoesOn
<1> QED
  BY <1>5 DEF longer

\* The events of a stream that goes on are paired.
LEMMA GoesOnIsPaired ==
  ASSUME NEW out, GoesOn(out)
  PROVE  PairsOf(out)
  BY DEF GoesOn, PairsOf, Indices

\* The last event of all.
LEMMA PairsEnded ==
  ASSUME NEW out, GoesOn(out), NEW e, e.type \in EndTypes
  PROVE  PairsOf(Append(out, e))
<1> DEFINE longer == Append(out, e)
           n == Len(out)
<1>1. /\ n \in Nat /\ DOMAIN out = 1..n /\ longer[n + 1] = e /\ \A k \in 1..n : longer[k] = out[k]
      /\ DOMAIN longer = 1..(n + 1) /\ Len(longer) = n + 1
  BY Appended DEF GoesOn
<1>2. \A k \in 1..n : PairedAt(longer, k)
  BY <1>1, PairedBefore DEF GoesOn
<1> HIDE DEF longer, n
<1>3. PairedAt(longer, n + 1)
  BY <1>1 DEF PairedAt, ToolTypes, EndTypes
<1>4. \A k \in 1..n : longer[k].type \notin EndTypes
  BY <1>1 DEF GoesOn
<1>5. PairsOf(longer)
  BY <1>1, <1>2, <1>3, <1>4 DEF PairsOf, Indices
<1> QED
  BY <1>5 DEF longer

-----------------------------------------------------------------------------
(* The calls of the accumulator and the ids they are known by; "tools" are the
   positions of the tool calls in the plan *)

CallFields == {"item", "call", "tool", "name", "body", "index", "status", "added", "done"}

\* The upstream's ids, as IdsAssumption has them.
Distinct(tools) ==
  /\ tools \subseteq Nat
  /\ \A i, j \in tools :
       /\ ItemId(i) # "" /\ CallId(i) # "" /\ ItemId(i) # CallId(j)
       /\ i # j => ItemId(i) # ItemId(j) /\ CallId(i) # CallId(j)

Known(a, i) == ItemId(i) \in DOMAIN a.toolCallByID
Place(a, i) == a.toolCallByID[ItemId(i)]
CallOf(a, i) == a.calls[Place(a, i)]

\* A call that was announced as done was announced before.
CallOK(c, i) ==
  /\ DOMAIN c = CallFields
  /\ c.item = ItemId(i) /\ c.call \in {ItemId(i), CallId(i)}
  /\ c.tool \in ToolKinds
  /\ c.added \in BOOLEAN /\ c.done \in BOOLEAN /\ (c.done => c.added)

(* Every id leads to the call of one tool, and every call has its tool. *)
CallsOK(a, tools) ==
  /\ AccShape(a)
  /\ \A id \in DOMAIN a.toolCallByID : \E i \in tools :
       id \in {ItemId(i), CallId(i)} /\ Known(a, i) /\ a.toolCallByID[id] = Place(a, i)
  /\ \A i \in tools : Known(a, i) => Place(a, i) \in DOMAIN a.calls /\ CallOK(CallOf(a, i), i)
  /\ \A at \in DOMAIN a.calls : \E i \in tools : Known(a, i) /\ Place(a, i) = at

\* From a to b, only the call of tool i may have changed.
OnlyCall(a, b, tools, i) ==
  /\ CallsOK(b, tools) /\ Known(b, i)
  /\ \A j \in tools \ {i} : (Known(b, j) <=> Known(a, j)) /\ (Known(a, j) => CallOf(b, j) = CallOf(a, j))
  /\ b.terminal = a.terminal /\ b.status = a.status

\* ... and what the client was told of it has not.
SameFlags(a, b, i) ==
  /\ Known(a, i) => CallOf(b, i).added = CallOf(a, i).added /\ CallOf(b, i).done = CallOf(a, i).done
  /\ ~Known(a, i) => CallOf(b, i).added = FALSE /\ CallOf(b, i).done = FALSE

\* Two tools have two calls.
LEMMA OwnPlace ==
  ASSUME NEW a, NEW tools, CallsOK(a, tools), Distinct(tools),
         NEW i \in tools, NEW j \in tools, Known(a, i), Known(a, j), Place(a, i) = Place(a, j)
  PROVE  i = j
<1>1. CallOf(a, i).item = ItemId(i) /\ CallOf(a, j).item = ItemId(j) /\ CallOf(a, i) = CallOf(a, j)
  BY DEF CallsOK, CallOK, CallOf
<1> QED
  BY <1>1 DEF Distinct

\* One call is replaced by another of the same tool.
LEMMA SetCall ==
  ASSUME NEW a, NEW tools, CallsOK(a, tools), Distinct(tools), NEW i \in tools, Known(a, i),
         NEW c, CallOK(c, i)
  PROVE  /\ OnlyCall(a, [a EXCEPT !.calls[Place(a, i)] = c], tools, i)
         /\ CallOf([a EXCEPT !.calls[Place(a, i)] = c], i) = c
         /\ [a EXCEPT !.calls[Place(a, i)] = c].toolCallByID = a.toolCallByID
         /\ DOMAIN [a EXCEPT !.calls[Place(a, i)] = c].calls = DOMAIN a.calls
         /\ [a EXCEPT !.calls[Place(a, i)] = c].items = a.items
<1> DEFINE at == Place(a, i)
           b == [a EXCEPT !.calls[at] = c]
<1>1. at \in DOMAIN a.calls
  BY DEF CallsOK
<1>2. /\ b.calls = [a.calls EXCEPT ![at] = c] /\ b.toolCallByID = a.toolCallByID
      /\ b.terminal = a.terminal /\ b.status = a.status /\ b.items = a.items
  BY DEF CallsOK, AccShape, AccFields
<1>3. AccShape(b)
  BY OneCallShape DEF CallsOK
<1> HIDE DEF b
<1>4. \A j : (Known(b, j) <=> Known(a, j)) /\ Place(b, j) = Place(a, j)
  BY <1>2 DEF Known, Place
<1>5. CallOf(b, i) = c
  BY <1>1, <1>2, <1>4 DEF CallOf
<1>6. \A j \in tools \ {i} : Known(a, j) => CallOf(b, j) = CallOf(a, j)
  <2>1. \A j \in tools \ {i} : Known(a, j) => Place(a, j) # at
    BY OwnPlace
  <2> QED
    BY <1>1, <1>2, <1>4, <2>1 DEF CallOf, CallsOK
<1>7. DOMAIN b.calls = DOMAIN a.calls
  BY <1>2
<1>8. \A j \in tools : Known(b, j) => Place(b, j) \in DOMAIN b.calls /\ CallOK(CallOf(b, j), j)
  <2> TAKE j \in tools
  <2>1. CASE j = i
    BY <1>1, <1>4, <1>5, <1>7, <2>1
  <2>2. CASE j # i
    BY <1>4, <1>6, <1>7, <2>2 DEF CallsOK
  <2> QED
    BY <2>1, <2>2
<1>9. \A id \in DOMAIN b.toolCallByID : \E j \in tools :
        id \in {ItemId(j), CallId(j)} /\ Known(b, j) /\ b.toolCallByID[id] = Place(b, j)
  BY <1>2, <1>4 DEF CallsOK
<1>10. CallsOK(b, tools)
  BY <1>3, <1>4, <1>7, <1>8, <1>9 DEF CallsOK
<1>11. OnlyCall(a, b, tools, i)
  BY <1>2, <1>4, <1>6, <1>10 DEF OnlyCall
<1> QED
  BY <1>2, <1>5, <1>7, <1>11 DEF b
-----------------------------------------------------------------------------
(* EnsureToolCallState *)

\* b is a with other calls, one of them known by more ids.
Registered(a, b, calls, at, ids) ==
  /\ DOMAIN b = AccFields /\ b.calls = calls
  /\ b.toolCallByID = [id \in DOMAIN a.toolCallByID \union ids |->
                         IF id \in ids THEN at ELSE a.toolCallByID[id]]
  /\ b.terminal = a.terminal /\ b.status = a.status /\ b.items = a.items

\* A new call, at the end and under two ids of its tool.
LEMMA NewCall ==
  ASSUME NEW a, NEW tools, CallsOK(a, tools), Distinct(tools), NEW i \in tools,
         ~Known(a, i), CallId(i) \notin DOMAIN a.toolCallByID,
         NEW c, CallOK(c, i), NEW ids, ItemId(i) \in ids, ids \subseteq {ItemId(i), CallId(i)},
         NEW b, Registered(a, b, Append(a.calls, c), Len(a.calls) + 1, ids)
  PROVE  /\ OnlyCall(a, b, tools, i) /\ CallOf(b, i) = c
         /\ \A id \in ids : id \in DOMAIN b.toolCallByID /\ b.toolCallByID[id] = Place(b, i)
         /\ b.items = a.items
<1> DEFINE n == Len(a.calls)
<1>1. /\ n \in Nat /\ DOMAIN a.calls = 1..n /\ IsSeq(a.calls)
      /\ IsSeq(Append(a.calls, c)) /\ DOMAIN Append(a.calls, c) = 1..(n + 1)
      /\ Append(a.calls, c)[n + 1] = c /\ \A k \in 1..n : Append(a.calls, c)[k] = a.calls[k]
  BY Appended DEF CallsOK, AccShape
<1>2. /\ b.calls = Append(a.calls, c) /\ DOMAIN b = AccFields
      /\ b.toolCallByID = [id \in DOMAIN a.toolCallByID \union ids |->
                             IF id \in ids THEN n + 1 ELSE a.toolCallByID[id]]
      /\ b.terminal = a.terminal /\ b.status = a.status /\ b.items = a.items
  BY DEF Registered
<1>3. AccShape(b)
  BY <1>1, <1>2 DEF AccShape, CallsOK
<1> HIDE DEF n
<1>4. \A j \in tools \ {i} : ItemId(j) \notin ids /\ CallId(j) \notin ids
  BY DEF Distinct
<1>5. \A j \in tools \ {i} : (Known(b, j) <=> Known(a, j)) /\ (Known(a, j) => Place(b, j) = Place(a, j))
  BY <1>2, <1>4 DEF Known, Place
<1>6. Known(b, i) /\ Place(b, i) = n + 1
  BY <1>2 DEF Known, Place
<1>7. CallOf(b, i) = c
  BY <1>1, <1>2, <1>6 DEF CallOf
<1>8. \A j \in tools : Known(a, j) => Place(a, j) \in 1..n
  BY <1>1 DEF CallsOK
<1>9. \A j \in tools \ {i} : Known(a, j) => CallOf(b, j) = CallOf(a, j)
  BY <1>1, <1>2, <1>5, <1>8 DEF CallOf
<1>10. \A j \in tools : Known(b, j) => Place(b, j) \in DOMAIN b.calls /\ CallOK(CallOf(b, j), j)
  <2> TAKE j \in tools
  <2>1. CASE j = i
    BY <1>1, <1>2, <1>6, <1>7, <2>1
  <2>2. CASE j # i
    BY <1>1, <1>2, <1>5, <1>8, <1>9, <2>2 DEF CallsOK
  <2> QED
    BY <2>1, <2>2
<1>11. ASSUME NEW id \in DOMAIN b.toolCallByID
       PROVE  \E j \in tools : id \in {ItemId(j), CallId(j)} /\ Known(b, j) /\ b.toolCallByID[id] = Place(b, j)
  <2>1. CASE id \in ids
    BY <1>2, <1>6, <2>1
  <2>2. CASE id \notin ids
    <3>1. id \in DOMAIN a.toolCallByID /\ b.toolCallByID[id] = a.toolCallByID[id]
      BY <1>2, <2>2
    <3>2. PICK j \in tools : id \in {ItemId(j), CallId(j)} /\ Known(a, j) /\ a.toolCallByID[id] = Place(a, j)
      BY <3>1 DEF CallsOK
    <3>3. j # i
      BY <3>2
    <3> QED
      BY <1>5, <3>1, <3>2, <3>3
  <2> QED
    BY <2>1, <2>2
<1>12. ASSUME NEW at \in DOMAIN b.calls PROVE \E j \in tools : Known(b, j) /\ Place(b, j) = at
  <2>1. CASE at = n + 1
    BY <1>6, <2>1
  <2>2. CASE at # n + 1
    <3>1. at \in DOMAIN a.calls
      BY <1>1, <1>2, <2>2
    <3>2. PICK j \in tools : Known(a, j) /\ Place(a, j) = at
      BY <3>1 DEF CallsOK
    <3> QED
      BY <1>5, <3>2
  <2> QED
    BY <2>1, <2>2
<1>13. CallsOK(b, tools)
  BY <1>3, <1>10, <1>11, <1>12 DEF CallsOK
<1>14. OnlyCall(a, b, tools, i)
  BY <1>2, <1>5, <1>6, <1>9, <1>13 DEF OnlyCall
<1>15. \A id \in ids : id \in DOMAIN b.toolCallByID /\ b.toolCallByID[id] = Place(b, i)
  BY <1>2, <1>6
<1> QED
  BY <1>2, <1>7, <1>14, <1>15

\* More ids for a call that has one.
LEMMA MoreIds ==
  ASSUME NEW a, NEW tools, CallsOK(a, tools), Distinct(tools), NEW i \in tools, Known(a, i),
         NEW ids, ids \subseteq {ItemId(i), CallId(i)}, NEW b,
         Registered(a, b, a.calls, Place(a, i), ids)
  PROVE  /\ OnlyCall(a, b, tools, i) /\ CallOf(b, i) = CallOf(a, i)
         /\ \A id \in ids : id \in DOMAIN b.toolCallByID /\ b.toolCallByID[id] = Place(b, i)
         /\ b.items = a.items
<1>1. /\ b.calls = a.calls /\ DOMAIN b = AccFields
      /\ b.toolCallByID = [id \in DOMAIN a.toolCallByID \union ids |->
                             IF id \in ids THEN Place(a, i) ELSE a.toolCallByID[id]]
      /\ b.terminal = a.terminal /\ b.status = a.status /\ b.items = a.items
  BY DEF Registered
<1>2. AccShape(b)
  BY <1>1 DEF AccShape, CallsOK
<1>3. \A j \in tools \ {i} : ItemId(j) \notin ids /\ CallId(j) \notin ids
  BY DEF Distinct
<1>4. Known(b, i) /\ Place(b, i) = Place(a, i)
  BY <1>1 DEF Known, Place
<1>5. \A j \in tools : (Known(b, j) <=> Known(a, j)) /\ (Known(a, j) => Place(b, j) = Place(a, j))
  BY <1>1, <1>3, <1>4 DEF Known, Place
<1>6. \A j \in tools : Known(a, j) => CallOf(b, j) = CallOf(a, j)
  BY <1>1, <1>5 DEF CallOf
<1>7. \A j \in tools : Known(b, j) => Place(b, j) \in DOMAIN b.calls /\ CallOK(CallOf(b, j), j)
  BY <1>1, <1>5, <1>6 DEF CallsOK
<1>8. ASSUME NEW id \in DOMAIN b.toolCallByID
      PROVE  \E j \in tools : id \in {ItemId(j), CallId(j)} /\ Known(b, j) /\ b.toolCallByID[id] = Place(b, j)
  <2>1. CASE id \in ids
    BY <1>1, <1>4, <2>1
  <2>2. CASE id \notin ids
    <3>1. id \in DOMAIN a.toolCallByID /\ b.toolCallByID[id] = a.toolCallByID[id]
      BY <1>1, <2>2
    <3> QED
      BY <1>5, <3>1 DEF CallsOK
  <2> QED
    BY <2>1, <2>2
<1>9. \A at \in DOMAIN b.calls : \E j \in tools : Known(b, j) /\ Place(b, j) = at
  BY <1>1, <1>5 DEF CallsOK
<1>10. CallsOK(b, tools)
  BY <1>2, <1>7, <1>8, <1>9 DEF CallsOK
<1> QED
  BY <1>1, <1>4, <1>5, <1>6, <1>10 DEF OnlyCall

\* Two changes of a call are one.
LEMMA OnlyCallTwice ==
  ASSUME NEW a, NEW b, NEW c, NEW tools, NEW i, OnlyCall(a, b, tools, i), OnlyCall(b, c, tools, i)
  PROVE  OnlyCall(a, c, tools, i)
  BY DEF OnlyCall

\* The call of tool i has its id and its name.
IsNamed(a, i) == Known(a, i) /\ CallOf(a, i).call = CallId(i) /\ CallOf(a, i).name = ToolName(i)

\* Another look for the call of tool i leaves what was told, and may tell its id.
Kept(a, b, i, id) ==
  /\ Known(a, i) => CallOf(b, i).name = CallOf(a, i).name /\ CallOf(b, i).body = CallOf(a, i).body
  /\ ~Known(a, i) => CallOf(b, i).name = "" /\ CallOf(b, i).body = <<>>
  /\ id = CallId(i) \/ (Known(a, i) /\ CallOf(a, i).call = CallId(i)) => CallOf(b, i).call = CallId(i)

\* It is of a kind.
HasKind(a, i, kind) == CallOf(a, i).tool = kind

\* The call of tool i was told an id, a name and a body, if they are not empty.
ToldOf(a, d, i, call, name, body) ==
  /\ call = CallId(i) /\ name = ToolName(i) => IsNamed(d, i)
  /\ IsNamed(a, i) /\ name \in {"", ToolName(i)} => IsNamed(d, i)
  /\ body # <<>> => CallOf(d, i).body = body

\* ensureToolCallState finds the call of the tool or makes it, and knows it by both ids after.
LEMMA EnsureOK ==
  ASSUME NEW a, NEW tools, CallsOK(a, tools), Distinct(tools), NEW i \in tools,
         NEW id \in {ItemId(i), CallId(i)}, NEW index \in Nat,
         NEW b, b = EnsureToolCallState(a, ItemId(i), id, index)
  PROVE  /\ OnlyCall(a, b, tools, i) /\ SameFlags(a, b, i) /\ b.items = a.items
         /\ Kept(a, b, i, id)
         /\ CallOf(b, i).index = index
         /\ Known(a, i) => CallOf(b, i).status = CallOf(a, i).status
         /\ ~Known(a, i) => CallOf(b, i).status = "in_progress"
         /\ id \in DOMAIN b.toolCallByID /\ b.toolCallByID[id] = Place(b, i)
<1> DEFINE at == CallKnownBy(a, id, ItemId(i))
           next == AfterIndex(a, index)
           new == [item |-> ItemId(i), call |-> id, tool |-> "function_call", name |-> "",
                   body |-> <<>>, index |-> ResolvedIndex(a, index),
                   status |-> "in_progress", added |-> FALSE, done |-> FALSE]
           c == a.calls[at]
           old == [c EXCEPT !.item = IF c.item = c.call THEN ItemId(i) ELSE @,
                            !.call = IF c.item = c.call THEN id ELSE @,
                            !.index = IF index >= 0 THEN index ELSE @]
           set == [a EXCEPT !.calls[at] = old]
<1>1. FirstNonEmpty(ItemId(i), id) = ItemId(i) /\ FirstNonEmpty(id, ItemId(i)) = id
  BY DEF FirstNonEmpty, Distinct
<1>2. DOMAIN a = AccFields
  BY DEF CallsOK, AccShape
<1>3. ASSUME at = 0 PROVE Registered(a, b, Append(a.calls, new), Len(a.calls) + 1, {id, ItemId(i)})
  <2> DEFINE x == [a EXCEPT !.calls = Append(a.calls, new), !.next = next]
             ids == {id, ItemId(i)}
  <2>1. b = RegisterAliases(x, Len(a.calls) + 1, ids)
    BY <1>1, <1>2, <1>3 DEF EnsureToolCallState, AccFields
  <2> HIDE DEF new, at, next, ids
  <2>2. /\ DOMAIN x = AccFields /\ x.calls = Append(a.calls, new) /\ x.toolCallByID = a.toolCallByID
        /\ x.terminal = a.terminal /\ x.status = a.status /\ x.items = a.items
    BY <1>2 DEF AccFields
  <2> HIDE DEF x
  <2>3. Registered(a, b, Append(a.calls, new), Len(a.calls) + 1, ids)
    BY <2>1, <2>2 DEF Registered, RegisterAliases, AccFields
  <2> QED
    BY <2>3 DEF ids
<1>4. ASSUME at # 0 PROVE Registered(set, b, set.calls, at, {old.call, old.item, id, ItemId(i)})
  <2>1. index >= 0
    OBVIOUS
  <2> DEFINE calls == [a.calls EXCEPT ![at] = old]
             ids == {old.call, old.item, id, ItemId(i)}
             x == [a EXCEPT !.calls = calls, !.next = next]
  <2>2. b = RegisterAliases(x, at, ids)
    BY <1>1, <1>2, <1>4, <2>1 DEF EnsureToolCallState, AccFields
  <2>3. /\ set.calls = calls /\ set.toolCallByID = a.toolCallByID /\ set.terminal = a.terminal
        /\ set.status = a.status /\ set.items = a.items
    BY <1>2 DEF AccFields
  <2> HIDE DEF old, at, next, calls, ids, set
  <2>4. /\ DOMAIN x = AccFields /\ x.calls = calls /\ x.toolCallByID = a.toolCallByID
        /\ x.terminal = a.terminal /\ x.status = a.status /\ x.items = a.items
    BY <1>2 DEF AccFields
  <2> HIDE DEF x
  <2>5. Registered(set, b, set.calls, at, ids)
    BY <2>2, <2>3, <2>4 DEF Registered, RegisterAliases, AccFields
  <2> QED
    BY <2>5 DEF ids
<1>5. \A j \in tools : Known(a, j) => Place(a, j) # 0
  BY SeqOfElements DEF CallsOK, AccShape
<1>6. CASE ~Known(a, i)
  <2>1. CallId(i) \notin DOMAIN a.toolCallByID /\ id \notin DOMAIN a.toolCallByID
    <3>1. ASSUME CallId(i) \in DOMAIN a.toolCallByID PROVE FALSE
      <4>1. PICK j \in tools : CallId(i) \in {ItemId(j), CallId(j)} /\ Known(a, j)
        BY <3>1 DEF CallsOK
      <4> QED
        BY <1>6, <4>1 DEF Distinct
    <3> QED
      BY <1>6, <3>1 DEF Known
  <2>2. at = 0
    BY <1>6, <2>1 DEF CallKnownBy, Known
  <2>3. CallOK(new, i) /\ new.index = index /\ new.status = "in_progress" /\ new.added = FALSE /\ new.done = FALSE
    BY DEF CallOK, CallFields, ToolKinds, ResolvedIndex
  <2>7. new.name = "" /\ new.body = <<>> /\ new.call = id
    OBVIOUS
  <2> DEFINE ids == {id, ItemId(i)}
  <2>4. ItemId(i) \in ids /\ id \in ids /\ ids \subseteq {ItemId(i), CallId(i)}
    OBVIOUS
  <2>5. Registered(a, b, Append(a.calls, new), Len(a.calls) + 1, ids)
    BY <1>3, <2>2
  <2> HIDE DEF new, next, at, ids
  <2>6. /\ OnlyCall(a, b, tools, i) /\ CallOf(b, i) = new /\ b.items = a.items
        /\ \A jd \in ids : jd \in DOMAIN b.toolCallByID /\ b.toolCallByID[jd] = Place(b, i)
    BY <1>6, <2>1, <2>3, <2>4, <2>5, NewCall
  <2>8. Kept(a, b, i, id)
    BY <1>6, <2>6, <2>7 DEF Kept
  <2>9. SameFlags(a, b, i) /\ CallOf(b, i).index = index /\ CallOf(b, i).status = "in_progress"
    BY <1>6, <2>3, <2>6 DEF SameFlags
  <2> QED
    BY <1>6, <2>4, <2>6, <2>8, <2>9
<1>7. CASE Known(a, i)
  <2>1. at = Place(a, i)
    <3>1. CASE id \in DOMAIN a.toolCallByID
      <4>1. PICK j \in tools : id \in {ItemId(j), CallId(j)} /\ a.toolCallByID[id] = Place(a, j)
        BY <3>1 DEF CallsOK
      <4>2. j = i
        BY <4>1 DEF Distinct
      <4> QED
        BY <3>1, <4>1, <4>2 DEF CallKnownBy
    <3>2. CASE id \notin DOMAIN a.toolCallByID
      BY <1>7, <3>2 DEF CallKnownBy, Known, Place
    <3> QED
      BY <3>1, <3>2
  <2>2. c = CallOf(a, i) /\ CallOK(c, i)
    BY <1>7, <2>1 DEF CallsOK, CallOf
  <2>3. at # 0
    BY <1>5, <1>7, <2>1
  <2>4. /\ old.item = ItemId(i) /\ old.call \in {ItemId(i), CallId(i)} /\ old.index = index
        /\ old.status = c.status /\ old.added = c.added /\ old.done = c.done /\ old.tool = c.tool
        /\ DOMAIN old = CallFields
    BY <2>2 DEF CallOK, CallFields
  <2>12. old.name = c.name /\ old.body = c.body
    BY <2>2 DEF CallOK, CallFields
  <2>13. id = CallId(i) \/ c.call = CallId(i) => old.call = CallId(i)
    BY <2>2 DEF CallOK, CallFields, Distinct
  <2> HIDE DEF old, next, at, c
  <2>5. CallOK(old, i)
    BY <2>2, <2>4 DEF CallOK
  <2>6. /\ OnlyCall(a, set, tools, i) /\ CallOf(set, i) = old /\ set.items = a.items
        /\ set.toolCallByID = a.toolCallByID
    BY <1>7, <2>1, <2>5, SetCall
  <2>7. CallsOK(set, tools) /\ Known(set, i) /\ Place(set, i) = at
    BY <2>1, <2>6 DEF OnlyCall, Place
  <2> HIDE DEF set
  <2> DEFINE ids == {old.call, old.item, id, ItemId(i)}
  <2>8. ids \subseteq {ItemId(i), CallId(i)} /\ id \in ids
    BY <2>4
  <2>9. Registered(set, b, set.calls, Place(set, i), ids)
    BY <1>4, <2>3, <2>7
  <2> HIDE DEF ids
  <2>10. /\ OnlyCall(set, b, tools, i) /\ CallOf(b, i) = CallOf(set, i) /\ b.items = set.items
         /\ \A jd \in ids : jd \in DOMAIN b.toolCallByID /\ b.toolCallByID[jd] = Place(b, i)
    BY <2>7, <2>8, <2>9, MoreIds
  <2>11. OnlyCall(a, b, tools, i)
    BY <2>6, <2>10, OnlyCallTwice
  <2>14. Kept(a, b, i, id)
    BY <1>7, <2>2, <2>6, <2>10, <2>12, <2>13 DEF Kept
  <2>15. SameFlags(a, b, i)
    BY <1>7, <2>2, <2>4, <2>6, <2>10 DEF SameFlags
  <2>16. id \in DOMAIN b.toolCallByID /\ b.toolCallByID[id] = Place(b, i)
    BY <2>8, <2>10
  <2>17. b.items = a.items /\ CallOf(b, i).index = index /\ CallOf(b, i).status = CallOf(a, i).status
    BY <2>2, <2>4, <2>6, <2>10
  <2> QED
    BY <1>7, <2>11, <2>14, <2>15, <2>16, <2>17
<1> QED
  BY <1>6, <1>7

-----------------------------------------------------------------------------
(* What an event does to the call it is about *)

\* The call of tool i was told more, and where its item is; the items stay.
Amended(a, d, tools, i, index) ==
  /\ OnlyCall(a, d, tools, i) /\ SameFlags(a, d, i) /\ CallOf(d, i).index = index
  /\ d.items = a.items

\* It is found by a call and an item id.
FoundBy(a, i, call, item) == CallKnownBy(a, call, item) = Place(a, i)
HasStatus(a, i, status) == CallOf(a, i).status = status

\* A change after another, which leaves the flags alone.
LEMMA ThenSetCall ==
  ASSUME NEW a, NEW b, NEW d, NEW tools, NEW i \in tools,
         OnlyCall(a, b, tools, i), SameFlags(a, b, i), OnlyCall(b, d, tools, i),
         CallOf(d, i).added = CallOf(b, i).added, CallOf(d, i).done = CallOf(b, i).done
  PROVE  OnlyCall(a, d, tools, i) /\ SameFlags(a, d, i)
<1>1. OnlyCall(a, d, tools, i)
  BY OnlyCallTwice
<1> QED
  BY <1>1 DEF SameFlags

\* applyToolArgumentEvent tells the call of its tool more, at the index of the event.
LEMMA ArgumentOK ==
  ASSUME NEW a, NEW tools, CallsOK(a, tools), Distinct(tools), NEW i \in tools,
         NEW event, NEW kind \in ToolKinds, OfFragment(event, kind, i), event.index \in Nat,
         NEW d, d = ApplyToolArgumentEvent(a, event)
  PROVE  /\ Amended(a, d, tools, i, event.index)
         /\ FoundBy(d, i, FirstNonEmpty(event.call, event.id), event.id)
         /\ ToldOf(a, d, i, event.call, event.name, IF event.type = "arguments.done" THEN event.body ELSE <<>>)
         /\ HasKind(d, i, kind)
<1> DEFINE id == FirstNonEmpty(event.call, event.id)
           b == EnsureToolCallState(a, ItemId(i), id, event.index)
           old == b.calls[b.toolCallByID[id]]
           c == [old EXCEPT !.name = FirstNonEmpty(event.name, @), !.tool = event.kind,
                            !.body = IF event.type = "arguments.done" THEN FirstBody(event.body, @)
                                     ELSE @ \o event.body,
                            !.status = IF event.type = "arguments.done" THEN "completed" ELSE @]
<1>1. event.id = ItemId(i) /\ event.call \in {"", CallId(i)} /\ event.kind = kind
  BY DEF OfFragment
<1>2. id \in {ItemId(i), CallId(i)}
  BY <1>1 DEF FirstNonEmpty
<1>3. d = [b EXCEPT !.calls[b.toolCallByID[id]] = c]
  BY <1>1 DEF ApplyToolArgumentEvent
<1> HIDE DEF b, id
<1>4. /\ OnlyCall(a, b, tools, i) /\ SameFlags(a, b, i) /\ b.items = a.items /\ Kept(a, b, i, id)
      /\ CallOf(b, i).index = event.index
      /\ Known(a, i) => CallOf(b, i).status = CallOf(a, i).status
      /\ ~Known(a, i) => CallOf(b, i).status = "in_progress"
      /\ id \in DOMAIN b.toolCallByID /\ b.toolCallByID[id] = Place(b, i)
  BY <1>2, EnsureOK DEF b
<1>5. old = CallOf(b, i) /\ CallOK(old, i)
  BY <1>4 DEF OnlyCall, CallsOK, CallOf
<1> HIDE DEF old
<1>6. /\ DOMAIN c = CallFields /\ c.item = old.item /\ c.call = old.call /\ c.tool = kind
      /\ c.index = old.index /\ c.added = old.added /\ c.done = old.done
      /\ c.status = IF event.type = "arguments.done" THEN "completed" ELSE old.status
      /\ c.name = FirstNonEmpty(event.name, old.name)
      /\ event.type = "arguments.done" => c.body = FirstBody(event.body, old.body)
  BY <1>1, <1>5 DEF CallOK, CallFields
<1> HIDE DEF c
<1>7. CallOK(c, i)
  BY <1>5, <1>6 DEF CallOK
<1>8. d = [b EXCEPT !.calls[Place(b, i)] = c]
  BY <1>3, <1>4
<1>9. /\ OnlyCall(a, d, tools, i) /\ SameFlags(a, d, i) /\ CallOf(d, i) = c /\ d.items = b.items
      /\ d.toolCallByID = b.toolCallByID /\ Place(d, i) = Place(b, i)
  <2> DEFINE e == [b EXCEPT !.calls[Place(b, i)] = c]
  <2>1. CallsOK(b, tools) /\ Known(b, i)
    BY <1>4 DEF OnlyCall
  <2>2. OnlyCall(b, e, tools, i) /\ CallOf(e, i) = c /\ e.items = b.items /\ e.toolCallByID = b.toolCallByID
    BY <1>7, <2>1, SetCall
  <2>3. d = e
    BY <1>8
  <2> HIDE DEF e
  <2>4. OnlyCall(a, d, tools, i) /\ SameFlags(a, d, i)
    BY <1>4, <1>5, <1>6, <2>2, <2>3, ThenSetCall
  <2> QED
    BY <2>2, <2>3, <2>4 DEF Place
<1>10. CallKnownBy(d, id, event.id) = Place(d, i)
  BY <1>4, <1>9 DEF CallKnownBy
<1>11. ToldOf(a, d, i, event.call, event.name, IF event.type = "arguments.done" THEN event.body ELSE <<>>)
  <2>1. event.call = CallId(i) => id = CallId(i)
    BY DEF id, FirstNonEmpty, Distinct
  <2>2. ToolName(i) # ""
    BY DEF ToolName
  <2> QED
    BY <1>4, <1>5, <1>6, <1>9, <2>1, <2>2 DEF ToldOf, Kept, IsNamed, OnlyCall, FirstNonEmpty, FirstBody
<1> QED
  BY <1>4, <1>5, <1>6, <1>9, <1>10, <1>11 DEF id, Amended, FoundBy, HasKind

\* captureToolCall tells the call of its tool more, at the index of the item.
LEMMA CaptureOK ==
  ASSUME NEW a, NEW tools, CallsOK(a, tools), Distinct(tools), NEW i \in tools,
         NEW item, item.kind \in ToolKinds, item.id = ItemId(i), item.call = CallId(i),
         NEW index \in Nat, NEW d, d = CaptureToolCall(a, item, index)
  PROVE  /\ Amended(a, d, tools, i, index)
         /\ item.status # "" => HasStatus(d, i, item.status)
         /\ FoundBy(d, i, CallId(i), ItemId(i))
         /\ ToldOf(a, d, i, CallId(i), item.name, item.body)
         /\ HasKind(d, i, item.kind)
<1> DEFINE id == CallId(i)
           b == EnsureToolCallState(a, ItemId(i), id, index)
           old == b.calls[b.toolCallByID[id]]
           c == [old EXCEPT !.name = FirstNonEmpty(item.name, @), !.tool = item.kind,
                            !.body = FirstBody(item.body, @),
                            !.status = FirstNonEmpty(item.status, @)]
<1>1. FirstNonEmpty(item.call, item.id) = id /\ FirstNonEmpty(item.id, id) = ItemId(i)
  BY DEF FirstNonEmpty, Distinct
<1>2. d = [b EXCEPT !.calls[b.toolCallByID[id]] = c]
  BY <1>1 DEF CaptureToolCall
<1> HIDE DEF b
<1>3. /\ OnlyCall(a, b, tools, i) /\ SameFlags(a, b, i) /\ b.items = a.items /\ Kept(a, b, i, id)
      /\ CallOf(b, i).index = index
      /\ Known(a, i) => CallOf(b, i).status = CallOf(a, i).status
      /\ ~Known(a, i) => CallOf(b, i).status = "in_progress"
      /\ id \in DOMAIN b.toolCallByID /\ b.toolCallByID[id] = Place(b, i)
  BY EnsureOK DEF b
<1> HIDE DEF id
<1>4. old = CallOf(b, i) /\ CallOK(old, i)
  BY <1>3 DEF OnlyCall, CallsOK, CallOf
<1> HIDE DEF old
<1>5. /\ DOMAIN c = CallFields /\ c.item = old.item /\ c.call = old.call /\ c.tool = item.kind
      /\ c.index = old.index /\ c.added = old.added /\ c.done = old.done
      /\ c.status = FirstNonEmpty(item.status, old.status)
      /\ c.name = FirstNonEmpty(item.name, old.name) /\ c.body = FirstBody(item.body, old.body)
  BY <1>4 DEF CallOK, CallFields
<1> HIDE DEF c
<1>6. CallOK(c, i)
  BY <1>4, <1>5 DEF CallOK
<1>7. d = [b EXCEPT !.calls[Place(b, i)] = c]
  BY <1>2, <1>3
<1>8. /\ OnlyCall(a, d, tools, i) /\ SameFlags(a, d, i) /\ CallOf(d, i) = c /\ d.items = b.items
      /\ d.toolCallByID = b.toolCallByID /\ Place(d, i) = Place(b, i)
  <2> DEFINE e == [b EXCEPT !.calls[Place(b, i)] = c]
  <2>1. CallsOK(b, tools) /\ Known(b, i)
    BY <1>3 DEF OnlyCall
  <2>2. OnlyCall(b, e, tools, i) /\ CallOf(e, i) = c /\ e.items = b.items /\ e.toolCallByID = b.toolCallByID
    BY <1>6, <2>1, SetCall
  <2>3. d = e
    BY <1>7
  <2> HIDE DEF e
  <2>4. OnlyCall(a, d, tools, i) /\ SameFlags(a, d, i)
    BY <1>3, <1>4, <1>5, <2>2, <2>3, ThenSetCall
  <2> QED
    BY <2>2, <2>3, <2>4 DEF Place
<1>9. CallKnownBy(d, id, ItemId(i)) = Place(d, i)
  BY <1>3, <1>8 DEF CallKnownBy
<1>10. ToldOf(a, d, i, CallId(i), item.name, item.body)
  <2>1. ToolName(i) # ""
    BY DEF ToolName
  <2> QED
    BY <1>3, <1>4, <1>5, <1>8, <2>1 DEF id, ToldOf, Kept, IsNamed, OnlyCall, FirstNonEmpty, FirstBody
<1> QED
  BY <1>3, <1>4, <1>5, <1>8, <1>9, <1>10 DEF FirstNonEmpty, id, Amended, HasStatus, FoundBy, HasKind
-----------------------------------------------------------------------------
(* The tool events of the stream and the flags of the calls *)

\* What the client was told of a tool call is what its flags say.
Linked(a, out, tools) ==
  \A i \in tools :
    /\ i - 1 \in Placed(out, "output_item.added") <=> Known(a, i) /\ CallOf(a, i).added
    /\ i - 1 \in Placed(out, "output_item.done") <=> Known(a, i) /\ CallOf(a, i).done

Told(a, out, tools) == CallsOK(a, tools) /\ GoesOn(out) /\ Linked(a, out, tools)

\* A call that was told more, with its flags as they were, needs no event.
LEMMA StillTold ==
  ASSUME NEW a, NEW out, NEW tools, Told(a, out, tools), NEW i \in tools, NEW b,
         OnlyCall(a, b, tools, i), SameFlags(a, b, i)
  PROVE  Told(b, out, tools)
<1>1. ASSUME NEW j \in tools
      PROVE  /\ Known(b, j) /\ CallOf(b, j).added <=> Known(a, j) /\ CallOf(a, j).added
             /\ Known(b, j) /\ CallOf(b, j).done <=> Known(a, j) /\ CallOf(a, j).done
  <2>1. CASE j = i
    BY <2>1 DEF OnlyCall, SameFlags
  <2>2. CASE j # i
    BY <2>2 DEF OnlyCall
  <2> QED
    BY <2>1, <2>2
<1>2. Linked(b, out, tools)
  BY <1>1 DEF Linked, Told
<1> QED
  BY <1>2 DEF Told, OnlyCall

\* An event that is about no tool.
LEMMA PlainTold ==
  ASSUME NEW a, NEW out, NEW tools, Told(a, out, tools), NEW e, e.type \notin EndTypes,
         e.type \in ToolTypes => e.item.kind \notin ToolKinds,
         e.type \in {"output_item.added", "output_item.done"} => \A i \in tools : e.index # i - 1
  PROVE  Told(a, Append(out, e), tools)
<1> DEFINE longer == Append(out, e)
<1>1. GoesOn(longer)
  BY GoesOnAppended DEF Told, Fits
<1>2. \A type \in {"output_item.added", "output_item.done"}, i \in tools :
        i - 1 \in Placed(longer, type) <=> i - 1 \in Placed(out, type)
  BY PlacedAppended DEF Told, GoesOn
<1> HIDE DEF longer
<1>3. Linked(a, longer, tools)
  BY <1>2 DEF Linked, Told
<1> QED
  BY <1>1, <1>3 DEF Told, longer

\* Two tools have two places.
LEMMA OtherPlaces ==
  ASSUME NEW tools, Distinct(tools), NEW i \in tools, NEW j \in tools, i - 1 = j - 1
  PROVE  i = j
<1>1. i \in Nat /\ j \in Nat
  BY DEF Distinct
<1> QED
  BY <1>1

\* The call of tool i has the output index of its item.
AtIndex(a, i) == CallOf(a, i).index = i - 1

\* What a step returns: the accumulator and the events it adds.
StepTold(r, out, tools) ==
  /\ DOMAIN r = {"acc", "events"} /\ IsSeq(r.events)
  /\ Told(r.acc, out \o r.events, tools)

\* ... about tool i, of which it changes the flags and the status alone.
StepOf(a, r, tools, i) ==
  /\ OnlyCall(a, r.acc, tools, i) /\ DOMAIN r.acc.calls = DOMAIN a.calls
  /\ Place(r.acc, i) = Place(a, i) /\ r.acc.items = a.items
  /\ CallOf(r.acc, i).index = CallOf(a, i).index

IsAdded(a, i) == CallOf(a, i).added = TRUE
IsDone(a, i) == CallOf(a, i).done = TRUE
SameDone(a, b, i) == CallOf(b, i).done = CallOf(a, i).done /\ CallOf(b, i).status = CallOf(a, i).status

\* The call of tool i is announced, at its place.
LEMMA AddedTold ==
  ASSUME NEW a, NEW out, NEW tools, Told(a, out, tools), Distinct(tools), NEW i \in tools,
         Known(a, i), AtIndex(a, i),
         NEW r, r = EnsureOutputItemAdded(a, Place(a, i))
  PROVE  StepOf(a, r, tools, i) /\ StepTold(r, out, tools) /\ IsAdded(r.acc, i) /\ SameDone(a, r.acc, i)
<1> DEFINE call == CallOf(a, i)
           c == [call EXCEPT !.added = TRUE]
           b == [a EXCEPT !.calls[Place(a, i)] = c]
           e == Frame("output_item.added", call.index, ResponseOutputItem(call, "in_progress"), <<>>)
<1>1. CallOK(call, i) /\ CallsOK(a, tools)
  BY DEF Told, CallsOK
<1>2. /\ call.added => r = [acc |-> a, events |-> <<>>]
      /\ ~call.added => r.acc = b /\ r.events = <<e>> /\ DOMAIN r = {"acc", "events"}
  BY DEF EnsureOutputItemAdded, CallOf
<1>3. CASE call.added
  <2>1. call.added = TRUE
    BY <1>1, <1>3 DEF CallOK
  <2>2. out \o <<>> = out
    BY NothingAdded DEF Told, GoesOn
  <2>3. r.acc = a /\ r.events = <<>> /\ DOMAIN r = {"acc", "events"}
    BY <1>2, <1>3
  <2>4. OnlyCall(a, a, tools, i)
    BY <1>1 DEF OnlyCall
  <2>5. Told(r.acc, out \o r.events, tools)
    BY <2>2, <2>3
  <2> QED
    BY <2>1, <2>3, <2>4, <2>5, EmptyIsSeq DEF StepTold, StepOf, IsAdded, SameDone
<1>4. CASE ~call.added
  <2>1. /\ e.type = "output_item.added" /\ e.index = i - 1 /\ e.item.kind \in ToolKinds
    BY <1>1 DEF Frame, ResponseOutputItem, NoItem, CallOK, AtIndex
  <2>2. /\ CallOK(c, i) /\ c.added = TRUE /\ c.done = call.done
        /\ c.index = call.index /\ c.status = call.status
    BY <1>1 DEF CallOK, CallFields
  <2> HIDE DEF c, e, call
  <2>3. /\ OnlyCall(a, b, tools, i) /\ CallOf(b, i) = c /\ b.toolCallByID = a.toolCallByID
        /\ b.items = a.items /\ DOMAIN b.calls = DOMAIN a.calls
    BY <1>1, <2>2, SetCall
  <2> HIDE DEF b
  <2>4. IsSeq(<<e>>) /\ out \o <<e>> = Append(out, e) /\ IsSeq(out)
    BY TuplesOf, OneAdded DEF Tuples, Told, GoesOn
  <2>5. ~call.done
    BY <1>1, <1>4 DEF CallOK
  <2>6. Fits(out, e)
    BY <1>4, <2>1, <2>5 DEF Fits, Told, Linked, call
  <2>7. GoesOn(Append(out, e))
    BY <2>1, <2>6, GoesOnAppended DEF Told, EndTypes
  <2>8. /\ Placed(Append(out, e), "output_item.added") = Placed(out, "output_item.added") \union {i - 1}
        /\ Placed(Append(out, e), "output_item.done") = Placed(out, "output_item.done")
    <3>1. Placed(Append(out, e), "output_item.added") = Placed(out, "output_item.added") \union {e.index}
      BY <2>1, <2>4, PlacedAppended
    <3>2. Placed(Append(out, e), "output_item.done") = Placed(out, "output_item.done")
      <4>1. e.type # "output_item.done"
        BY <2>1
      <4> QED
        BY <2>4, <4>1, PlacedAppended
    <3> QED
      BY <2>1, <3>1, <3>2
  <2>9. ASSUME NEW j \in tools
        PROVE  /\ j - 1 \in Placed(Append(out, e), "output_item.added") <=> Known(b, j) /\ CallOf(b, j).added
               /\ j - 1 \in Placed(Append(out, e), "output_item.done") <=> Known(b, j) /\ CallOf(b, j).done
    <3>1. CASE j = i
      <4>1. j - 1 \in Placed(out, "output_item.done") <=> CallOf(a, i).done
        BY <3>1 DEF Told, Linked
      <4> QED
        BY <2>2, <2>3, <2>8, <3>1, <4>1 DEF OnlyCall, call
    <3>2. CASE j # i
      <4>1. j - 1 # i - 1
        BY <3>2, OtherPlaces
      <4> QED
        BY <2>3, <2>8, <3>2, <4>1 DEF Told, Linked, OnlyCall
    <3> QED
      BY <3>1, <3>2
  <2>10. Told(b, Append(out, e), tools)
    BY <2>3, <2>7, <2>9 DEF Told, Linked, OnlyCall
  <2> QED
    BY <1>2, <1>4, <2>2, <2>3, <2>4, <2>10 DEF Place, call, StepTold, StepOf, IsAdded, SameDone
<1> QED
  BY <1>3, <1>4

\* The call of tool i is completed, once.
LEMMA CompletedTold ==
  ASSUME NEW a, NEW out, NEW tools, Told(a, out, tools), Distinct(tools), NEW i \in tools,
         Known(a, i), AtIndex(a, i),
         NEW r, r = EnsureToolCallCompleted(a, Place(a, i))
  PROVE  StepOf(a, r, tools, i) /\ StepTold(r, out, tools) /\ IsAdded(r.acc, i) /\ IsDone(r.acc, i)
<1> DEFINE at == Place(a, i)
           call == CallOf(a, i)
           opened == EnsureOutputItemAdded(a, at)
           o == opened.acc
           item == ResponseOutputItem(call, "completed")
           f == Frame("arguments.done", call.index, item, call.body)
           g == Frame("output_item.done", call.index, item, <<>>)
           x == [o EXCEPT !.calls[at] = [@ EXCEPT !.status = "completed"]]
           y == [x EXCEPT !.calls[at] = [@ EXCEPT !.done = TRUE]]
           more == opened.events
<1>1. CallOK(call, i) /\ CallsOK(a, tools) /\ IsSeq(out)
  BY DEF Told, CallsOK, GoesOn
<1>2. /\ call.done => r = [acc |-> a, events |-> <<>>]
      /\ ~call.done => r.acc = y /\ r.events = more \o <<f, g>> /\ DOMAIN r = {"acc", "events"}
  BY DEF EnsureToolCallCompleted, CallOf
<1>3. CASE call.done
  <2>1. out \o <<>> = out
    BY <1>1, NothingAdded
  <2>2. r.acc = a /\ r.events = <<>> /\ DOMAIN r = {"acc", "events"}
    BY <1>2, <1>3
  <2>3. OnlyCall(a, a, tools, i)
    BY <1>1 DEF OnlyCall
  <2>4. call.done = TRUE /\ call.added = TRUE
    BY <1>1, <1>3 DEF CallOK
  <2>5. Told(r.acc, out \o r.events, tools)
    BY <2>1, <2>2
  <2> QED
    BY <2>2, <2>3, <2>4, <2>5, EmptyIsSeq DEF StepTold, StepOf, IsAdded, IsDone
<1>4. CASE ~call.done
  <2>1. /\ f.type = "arguments.done"
        /\ g.type = "output_item.done" /\ g.index = i - 1 /\ g.item.kind \in ToolKinds
    BY <1>1 DEF Frame, ResponseOutputItem, NoItem, CallOK, AtIndex
  <2> HIDE DEF f, g, opened, item
  <2>2. /\ OnlyCall(a, o, tools, i) /\ IsSeq(more) /\ Told(o, out \o more, tools)
        /\ Place(o, i) = at /\ o.items = a.items /\ DOMAIN o.calls = DOMAIN a.calls
        /\ CallOf(o, i).added = TRUE /\ CallOf(o, i).done = call.done
        /\ CallOf(o, i).index = call.index
    <3>1. opened = EnsureOutputItemAdded(a, Place(a, i))
      BY DEF opened
    <3>2. /\ StepOf(a, opened, tools, i) /\ StepTold(opened, out, tools)
          /\ IsAdded(opened.acc, i) /\ SameDone(a, opened.acc, i)
      BY <3>1, AddedTold
    <3> QED
      BY <3>2 DEF StepOf, StepTold, IsAdded, SameDone
  <2>3. CallsOK(o, tools) /\ Known(o, i) /\ CallOK(CallOf(o, i), i)
    BY <2>2 DEF OnlyCall, CallsOK
  <2> DEFINE c == [CallOf(o, i) EXCEPT !.status = "completed"]
             d == [c EXCEPT !.done = TRUE]
  <2>4. CallOK(c, i) /\ c.added = TRUE /\ c.index = call.index /\ CallOK(d, i)
        /\ d.added = TRUE /\ d.done = TRUE /\ d.index = call.index
    BY <2>2, <2>3 DEF CallOK, CallFields
  <2>5. x = [o EXCEPT !.calls[Place(o, i)] = c]
    BY <2>2 DEF CallOf
  <2> HIDE DEF o, more, call, c, x
  <2>6. /\ OnlyCall(o, x, tools, i) /\ CallOf(x, i) = c /\ x.toolCallByID = o.toolCallByID
        /\ DOMAIN x.calls = DOMAIN o.calls /\ x.items = o.items
    BY <2>3, <2>4, <2>5, SetCall
  <2>7. CallsOK(x, tools) /\ Known(x, i) /\ Place(x, i) = at
    BY <2>2, <2>6 DEF OnlyCall, Place
  <2>8. y = [x EXCEPT !.calls[Place(x, i)] = d]
    BY <2>6, <2>7 DEF CallOf
  <2> HIDE DEF d, y
  <2>9. /\ OnlyCall(x, y, tools, i) /\ CallOf(y, i) = d /\ y.toolCallByID = x.toolCallByID
        /\ DOMAIN y.calls = DOMAIN x.calls /\ y.items = x.items
    BY <2>4, <2>7, <2>8, SetCall
  <2>10. OnlyCall(o, y, tools, i) /\ OnlyCall(a, y, tools, i) /\ Place(y, i) = at
    <3>1. OnlyCall(o, y, tools, i)
      BY <2>6, <2>9, OnlyCallTwice
    <3>2. OnlyCall(a, y, tools, i)
      BY <2>2, <3>1, OnlyCallTwice
    <3> QED
      BY <2>7, <2>9, <3>1, <3>2 DEF Place
  <2> DEFINE out1 == out \o more
             out2 == Append(out1, f)
             out3 == Append(out2, g)
  <2>11. out \o (more \o <<f, g>>) = out3 /\ IsSeq(more \o <<f, g>>)
    <3>1. IsSeq(<<f, g>>)
      BY TuplesOf DEF Tuples
    <3>2. out \o (more \o <<f, g>>) = out1 \o <<f, g>>
      BY <1>1, <2>2, <3>1, AppendInParts
    <3>3. IsSeq(out1)
      BY <1>1, <2>2, Concatenated
    <3> HIDE DEF out1
    <3>4. out1 \o <<f, g>> = Append(Append(out1, f), g)
      BY <3>3, TwoAdded
    <3>5. IsSeq(more \o <<f, g>>)
      BY <2>2, <3>1, Concatenated
    <3> QED
      BY <3>2, <3>4, <3>5
  <2> HIDE DEF out1
  <2>12. Told(o, out2, tools)
    <3>1. Told(o, out1, tools)
      BY <2>2 DEF out1
    <3>2. f.type \notin EndTypes /\ f.type \notin ToolTypes
          /\ f.type \notin {"output_item.added", "output_item.done"}
      BY <2>1 DEF EndTypes, ToolTypes
    <3> QED
      BY <3>1, <3>2, PlainTold
  <2> HIDE DEF out2
  <2>13. /\ i - 1 \in Placed(out2, "output_item.added") /\ i - 1 \notin Placed(out2, "output_item.done")
         /\ IsSeq(out2)
    BY <1>4, <2>2, <2>3, <2>12 DEF Told, Linked, GoesOn
  <2>14. GoesOn(out3)
    <3>1. Fits(out2, g)
      BY <2>1, <2>13 DEF Fits
    <3>2. g.type \notin EndTypes
      BY <2>1 DEF EndTypes
    <3> QED
      BY <2>12, <3>1, <3>2, GoesOnAppended DEF Told
  <2>15. Placed(out3, "output_item.done") = Placed(out2, "output_item.done") \union {i - 1}
    <3>1. Placed(out3, "output_item.done") = Placed(out2, "output_item.done") \union {g.index}
      BY <2>1, <2>13, PlacedAppended
    <3> QED
      BY <2>1, <3>1
  <2>16. Placed(out3, "output_item.added") = Placed(out2, "output_item.added")
    <3>1. g.type # "output_item.added"
      BY <2>1
    <3> QED
      BY <2>13, <3>1, PlacedAppended
  <2> HIDE DEF out3
  <2>17. ASSUME NEW j \in tools
         PROVE  /\ j - 1 \in Placed(out3, "output_item.added") <=> Known(y, j) /\ CallOf(y, j).added
                /\ j - 1 \in Placed(out3, "output_item.done") <=> Known(y, j) /\ CallOf(y, j).done
    <3>1. CASE j = i
      <4>1. Known(y, i) /\ CallOf(y, i).added = TRUE /\ CallOf(y, i).done = TRUE
        BY <2>4, <2>9, <2>10 DEF OnlyCall
      <4> QED
        BY <2>13, <2>15, <2>16, <3>1, <4>1
    <3>2. CASE j # i
      <4>1. j - 1 # i - 1
        BY <3>2, OtherPlaces
      <4>2. /\ j - 1 \in Placed(out2, "output_item.added") <=> Known(o, j) /\ CallOf(o, j).added
            /\ j - 1 \in Placed(out2, "output_item.done") <=> Known(o, j) /\ CallOf(o, j).done
        BY <2>12 DEF Told, Linked
      <4>3. (Known(y, j) <=> Known(o, j)) /\ (Known(o, j) => CallOf(y, j) = CallOf(o, j))
        BY <2>10, <3>2 DEF OnlyCall
      <4> QED
        BY <2>15, <2>16, <4>1, <4>2, <4>3
    <3> QED
      BY <3>1, <3>2
  <2>18. Told(y, out3, tools)
    BY <2>10, <2>14, <2>17 DEF Told, Linked, OnlyCall
  <2>19. r.acc = y /\ r.events = more \o <<f, g>> /\ DOMAIN r = {"acc", "events"}
    BY <1>2, <1>4
  <2>20. Told(r.acc, out \o r.events, tools) /\ IsSeq(r.events)
    BY <2>11, <2>18, <2>19
  <2>21. y.items = a.items /\ DOMAIN y.calls = DOMAIN a.calls
    BY <2>2, <2>6, <2>9
  <2>22. CallOf(y, i).added = TRUE /\ CallOf(y, i).done = TRUE /\ CallOf(y, i).index = call.index
    BY <2>4, <2>9
  <2> QED
    BY <2>10, <2>19, <2>20, <2>21, <2>22 DEF call, StepTold, StepOf, IsAdded, IsDone
<1> QED
  BY <1>3, <1>4

-----------------------------------------------------------------------------
(* One event of the stream, about a tool call or not *)

\* A step about the call of tool i, which is completed by it if "closes".
ToolStep(a, r, out, tools, i, closes) ==
  /\ StepOf(a, r, tools, i) /\ StepTold(r, out, tools)
  /\ CallOf(r.acc, i).done <=> CallOf(a, i).done \/ closes

\* A fragment of the arguments: announced first, where it was not, and then passed on.
LEMMA DeltaTold ==
  ASSUME NEW a, NEW out, NEW tools, Told(a, out, tools), Distinct(tools), NEW i \in tools,
         Known(a, i), AtIndex(a, i), ~CallOf(a, i).done, NEW event, event.type = "arguments.delta",
         NEW r, r = ResponsesStreamEventsForEvent(a, event, Place(a, i))
  PROVE  ToolStep(a, r, out, tools, i, FALSE)
<1> DEFINE opened == EnsureOutputItemAdded(a, Place(a, i))
           call == a.calls[Place(a, i)]
           e == Frame("arguments.delta", call.index, ResponseOutputItem(call, "in_progress"), event.body)
           more == opened.events
           out1 == out \o more
<1>1. /\ StepOf(a, opened, tools, i) /\ StepTold(opened, out, tools)
      /\ IsAdded(opened.acc, i) /\ SameDone(a, opened.acc, i)
  BY AddedTold
<1>2. CallOK(call, i) /\ call.index = i - 1
  BY DEF Told, CallsOK, CallOf, AtIndex
<1>3. e.type = "arguments.delta" /\ e.index = i - 1 /\ e.item.kind \in ToolKinds
  BY <1>2 DEF Frame, ResponseOutputItem, NoItem, CallOK
<1>4. r = [opened EXCEPT !.events = IF event.body = <<>> THEN more ELSE Append(more, e)]
  BY DEF ResponsesStreamEventsForEvent
<1> HIDE DEF opened, e, call
<1>5. DOMAIN r = {"acc", "events"} /\ r.acc = opened.acc /\ r.events \in {more, Append(more, e)}
  BY <1>1, <1>4 DEF StepTold
<1>6. IsSeq(out) /\ IsSeq(more) /\ Told(opened.acc, out1, tools)
  BY <1>1 DEF StepTold, Told, GoesOn
<1>7. out \o Append(more, e) = Append(out1, e) /\ IsSeq(Append(more, e))
  <2> HIDE DEF more
  <2>1. out \o Append(more, e) = Append(out \o more, e)
    BY <1>6, AppendedLast
  <2>2. IsSeq(Append(more, e))
    BY <1>6, Appended
  <2> QED
    BY <2>1, <2>2
<1> HIDE DEF more, out1
<1>8. IsSeq(out1)
  BY <1>6 DEF Told, GoesOn
<1>9. /\ Placed(Append(out1, e), "output_item.added") = Placed(out1, "output_item.added")
      /\ Placed(Append(out1, e), "output_item.done") = Placed(out1, "output_item.done")
  <2>1. e.type # "output_item.added" /\ e.type # "output_item.done"
    BY <1>3
  <2> QED
    BY <1>8, <2>1, PlacedAppended
<1>10. /\ i - 1 \in Placed(out1, "output_item.added") /\ i - 1 \notin Placed(out1, "output_item.done")
  <2>1. Known(opened.acc, i) /\ CallOf(opened.acc, i).added = TRUE /\ ~CallOf(opened.acc, i).done
    BY <1>1 DEF StepOf, OnlyCall, IsAdded, SameDone
  <2> QED
    BY <1>6, <2>1 DEF Told, Linked
<1>11. GoesOn(Append(out1, e))
  <2>1. Fits(out1, e)
    BY <1>3, <1>10 DEF Fits
  <2>2. e.type \notin EndTypes
    BY <1>3 DEF EndTypes
  <2> QED
    BY <1>6, <2>1, <2>2, GoesOnAppended DEF Told
<1>12. Told(opened.acc, Append(out1, e), tools)
  BY <1>6, <1>9, <1>11 DEF Told, Linked
<1>13. StepTold(r, out, tools)
  BY <1>5, <1>6, <1>7, <1>12 DEF StepTold, out1
<1>14. StepOf(a, r, tools, i) /\ CallOf(r.acc, i).done = CallOf(a, i).done
  BY <1>1, <1>5 DEF StepOf, SameDone
<1> QED
  BY <1>13, <1>14 DEF ToolStep

\* Any event about a tool call; a delta only before the call is completed.
LEMMA ToolEventTold ==
  ASSUME NEW a, NEW out, NEW tools, Told(a, out, tools), Distinct(tools), NEW i \in tools,
         Known(a, i), AtIndex(a, i), NEW event,
         event.type \in {"arguments.delta", "arguments.done", "output_item.added", "output_item.done"},
         CallOf(a, i).done => event.type # "arguments.delta",
         NEW r, r = ResponsesStreamEventsForEvent(a, event, Place(a, i))
  PROVE  ToolStep(a, r, out, tools, i, Closes(event))
<1>1. CASE event.type = "arguments.delta"
  <2>1. ToolStep(a, r, out, tools, i, FALSE)
    BY <1>1, DeltaTold
  <2> QED
    BY <1>1, <2>1 DEF Closes, ToolStep
<1>2. CASE event.type = "output_item.added"
  <2>1. r = EnsureOutputItemAdded(a, Place(a, i))
    BY <1>2 DEF ResponsesStreamEventsForEvent
  <2>2. StepOf(a, r, tools, i) /\ StepTold(r, out, tools) /\ SameDone(a, r.acc, i)
    BY <2>1, AddedTold
  <2> QED
    BY <1>2, <2>2 DEF Closes, ToolStep, SameDone
<1>3. CASE Closes(event)
  <2>1. r = EnsureToolCallCompleted(a, Place(a, i))
    BY <1>3 DEF ResponsesStreamEventsForEvent, Closes
  <2>2. StepOf(a, r, tools, i) /\ StepTold(r, out, tools) /\ IsDone(r.acc, i)
    BY <2>1, CompletedTold
  <2> QED
    BY <1>3, <2>2 DEF ToolStep, IsDone
<1> QED
  BY <1>1, <1>2, <1>3 DEF Closes

-----------------------------------------------------------------------------
(* Accumulator.Apply and the calls *)

SameCalls(a, b) == AccShape(b) /\ b.calls = a.calls /\ b.toolCallByID = a.toolCallByID

SameTerminal(a, b) == b.terminal = a.terminal

\* What is no call may change.
LEMMA SameCallsOK ==
  ASSUME NEW a, NEW tools, CallsOK(a, tools), NEW b, SameCalls(a, b)
  PROVE  /\ CallsOK(b, tools)
         /\ \A i : (Known(b, i) <=> Known(a, i)) /\ CallOf(b, i) = CallOf(a, i)
<1>1. \A i : (Known(b, i) <=> Known(a, i)) /\ Place(b, i) = Place(a, i) /\ CallOf(b, i) = CallOf(a, i)
  BY DEF SameCalls, Known, Place, CallOf
<1> QED
  BY <1>1 DEF SameCalls, CallsOK

\* ... and the client is to be told nothing.
LEMMA SameCallsTold ==
  ASSUME NEW a, NEW out, NEW tools, Told(a, out, tools), NEW b, SameCalls(a, b)
  PROVE  Told(b, out, tools)
  BY SameCallsOK DEF Told, Linked

\* The ids, the text and the summary are none of the calls.
LEMMA TextSame ==
  ASSUME NEW a, AccShape(a), NEW event, event.output = <<>>
  PROVE  SameCalls(a, ApplyText(ApplyMetadata(a, event), event))
<1> DEFINE named == [a EXCEPT !.id = IF event.response
                                       THEN FirstNonEmpty(event.responseId, @)
                                       ELSE FirstNonEmpty(@, event.responseId),
                              !.status = FirstNonEmpty(event.respStatus, @),
                              !.usage = IF event.usage # NoUsage THEN event.usage ELSE @]
<1>1. ApplyMetadata(a, event) = named
  BY DEF ApplyMetadata, Replaced
<1>2. SameCalls(a, named)
  BY DEF SameCalls, AccShape, AccFields
<1> HIDE DEF named
<1>3. SameCalls(named, ApplyText(named, event))
  BY <1>2 DEF ApplyText, SameCalls, AccShape, AccFields
<1> QED
  BY <1>1, <1>2, <1>3 DEF SameCalls

\* Neither is an item that is no tool call.
LEMMA CapturePlain ==
  ASSUME NEW a, AccShape(a), NEW item, item.kind \notin ToolKinds, NEW explicitIndex
  PROVE  /\ SameCalls(a, CaptureOutputItem(a, item, explicitIndex))
         /\ SameTerminal(a, CaptureOutputItem(a, item, explicitIndex))
<1> DEFINE index == ResolvedIndex(a, explicitIndex)
           next == AfterIndex(a, explicitIndex)
           same == {i \in DOMAIN a.items : SameOutputItem(a.items[i], item, index)}
           entry == [key |-> item.id, keyIndex |-> index, index |-> index, item |-> item]
           kept == [i \in DOMAIN a.items |-> IF i \in same
                      THEN [a.items[i] EXCEPT !.index = index, !.item = item] ELSE a.items[i]]
           result == CaptureOutputItem(a, item, explicitIndex)
<1>1. result \in {a, [a EXCEPT !.items = kept, !.next = next],
                  [a EXCEPT !.items = Append(@, entry), !.next = next]}
  BY DEF CaptureOutputItem
<1>2. AccShape(result)
  BY CaptureOutputItemShape
<1> HIDE DEF kept, entry, next, result
<1>3. result.calls = a.calls /\ result.toolCallByID = a.toolCallByID /\ result.terminal = a.terminal
  BY <1>1 DEF AccShape, AccFields
<1>4. SameCalls(a, result) /\ SameTerminal(a, result)
  BY <1>2, <1>3 DEF SameCalls, SameTerminal
<1> QED
  BY <1>4 DEF result

\* An event without an item has no tool call.
LEMMA NoItemIsNoTool == NoItem.kind \notin ToolKinds
  BY DEF NoItem, ToolKinds

\* Nothing is captured from it.
LEMMA CaptureNothing ==
  ASSUME NEW a, NEW item, item = NoItem, NEW explicitIndex
  PROVE  CaptureOutputItem(a, item, explicitIndex) = a
  BY NoItemIsNoTool DEF CaptureOutputItem

\* A tool call is captured as one.
LEMMA CaptureTool ==
  ASSUME NEW a, NEW item, item.kind \in ToolKinds, NEW explicitIndex
  PROVE  CaptureOutputItem(a, item, explicitIndex) = CaptureToolCall(a, item, explicitIndex)
<1>1. item # NoItem
  BY NoItemIsNoTool
<1> QED
  BY <1>1 DEF CaptureOutputItem

\* An event that is about no tool call.
LEMMA ApplyPlain ==
  ASSUME NEW a, AccShape(a), NEW event, event.output = <<>>, ~IsTerminal(event),
         event.type \notin {"arguments.delta", "arguments.done"}, event.item.kind \notin ToolKinds
  PROVE  SameCalls(a, Apply(a, event))
<1> DEFINE told == ApplyText(ApplyMetadata(a, event), event)
           captured == CaptureOutputItem(told, event.item, event.index)
<1>1. Apply(a, event) = captured
  BY DEF Apply, ApplyTerminal
<1>2. SameCalls(a, told)
  BY TextSame
<1> HIDE DEF told
<1>3. SameCalls(told, captured)
  BY <1>2, CapturePlain DEF SameCalls
<1> QED
  BY <1>1, <1>2, <1>3 DEF SameCalls

\* From a to b, the call of tool i was told more; the flags of all are the same.
Changed(a, b, tools, i) ==
  /\ CallsOK(b, tools) /\ Known(b, i) /\ AtIndex(b, i) /\ SameFlags(a, b, i)
  /\ \A j \in tools \ {i} : (Known(b, j) <=> Known(a, j)) /\ (Known(a, j) => CallOf(b, j) = CallOf(a, j))

\* Apply, of an event about tool i: its call is told more, and the event is known to be of it.
LEMMA ApplyTool ==
  ASSUME NEW a, NEW tools, CallsOK(a, tools), Distinct(tools), NEW i \in tools, i - 1 \in Nat,
         NEW kind \in ToolKinds, NEW event, OfScript(event, kind, i),
         NEW b, b = Apply(a, event)
  PROVE  Changed(a, b, tools, i) /\ ToolCallStateForEvent(b, event) = Place(b, i)
<1> DEFINE told == ApplyText(ApplyMetadata(a, event), event)
           argued == IF event.type \in {"arguments.delta", "arguments.done"}
                       THEN ApplyToolArgumentEvent(told, event) ELSE told
           captured == CaptureOutputItem(argued, event.item, event.index)
<1>0. ~IsTerminal(event) => b = captured
  BY DEF Apply, ApplyTerminal
<1>1. SameCalls(a, told)
  BY TextSame DEF CallsOK, OfScript
<1> HIDE DEF told
<1>2. CallsOK(told, tools) /\ \A j : (Known(told, j) <=> Known(a, j)) /\ CallOf(told, j) = CallOf(a, j)
  BY <1>1, SameCallsOK
<1>3. event.index \in Nat /\ event.index = i - 1
  BY DEF OfScript
<1>4. CASE OfFragment(event, kind, i)
  <2>1. event.type \in {"arguments.delta", "arguments.done"} /\ event.item = NoItem /\ ~IsTerminal(event)
    BY <1>4 DEF OfFragment, IsTerminal
  <2>2. b = ApplyToolArgumentEvent(told, event)
    BY <1>0, <2>1, CaptureNothing
  <2>3. /\ Amended(told, b, tools, i, event.index)
        /\ FoundBy(b, i, FirstNonEmpty(event.call, event.id), event.id)
    <3>1. Amended(told, b, tools, i, event.index)
      BY <1>2, <1>3, <1>4, <2>2, ArgumentOK
    <3>2. FoundBy(b, i, FirstNonEmpty(event.call, event.id), event.id)
      BY <1>2, <1>3, <1>4, <2>2, ArgumentOK
    <3> QED
      BY <3>1, <3>2
  <2>4. ToolCallStateForEvent(b, event) = Place(b, i)
    BY <2>1, <2>3 DEF ToolCallStateForEvent, FoundBy
  <2> QED
    BY <1>2, <1>3, <2>3, <2>4 DEF Changed, Amended, OnlyCall, SameFlags, AtIndex
<1>5. CASE OfItem(event, kind, i)
  <2>1. /\ event.type \in {"output_item.added", "output_item.done"} /\ ~IsTerminal(event)
        /\ event.item.kind \in ToolKinds /\ event.item.id = ItemId(i) /\ event.item.call = CallId(i)
    BY <1>5 DEF OfItem, IsTerminal
  <2>2. b = CaptureToolCall(told, event.item, event.index)
    BY <1>0, <2>1, CaptureTool
  <2>3. /\ Amended(told, b, tools, i, event.index)
        /\ FoundBy(b, i, CallId(i), ItemId(i))
    <3>1. Amended(told, b, tools, i, event.index)
      BY <1>2, <1>3, <2>1, <2>2, CaptureOK
    <3>2. FoundBy(b, i, CallId(i), ItemId(i))
      BY <1>2, <1>3, <2>1, <2>2, CaptureOK
    <3> QED
      BY <3>1, <3>2
  <2>4. ToolCallStateForEvent(b, event) = Place(b, i)
    <3>1. FirstNonEmpty(event.item.id, event.id) = ItemId(i) /\ FirstNonEmpty(event.item.call, ItemId(i)) = CallId(i)
      BY <2>1 DEF FirstNonEmpty, Distinct
    <3> QED
      BY <2>1, <2>3, <3>1 DEF ToolCallStateForEvent, FoundBy
  <2> QED
    BY <1>2, <1>3, <2>3, <2>4 DEF Changed, Amended, OnlyCall, SameFlags, AtIndex
<1> QED
  BY <1>4, <1>5 DEF OfScript

\* What the client was told stands.
LEMMA ChangedTold ==
  ASSUME NEW a, NEW out, NEW tools, Told(a, out, tools), NEW i \in tools, NEW b, Changed(a, b, tools, i)
  PROVE  Told(b, out, tools)
<1>1. ASSUME NEW j \in tools
      PROVE  /\ Known(b, j) /\ CallOf(b, j).added <=> Known(a, j) /\ CallOf(a, j).added
             /\ Known(b, j) /\ CallOf(b, j).done <=> Known(a, j) /\ CallOf(a, j).done
  <2>1. CASE j = i
    BY <2>1 DEF Changed, SameFlags
  <2>2. CASE j # i
    BY <2>2 DEF Changed
  <2> QED
    BY <2>1, <2>2
<1> QED
  BY <1>1 DEF Linked, Told, Changed

-----------------------------------------------------------------------------
(* responsesStreamEvents, but for the terminal event *)

StreamFields == {"tupleText", "out"}

\* The stream after an event: it goes on from the accumulator that is returned.
StreamTold(r, tools) == DOMAIN r.stream = StreamFields /\ Told(r.acc, r.stream.out, tools)

\* The call of tool i alone was told more; it is done if the event closes it.
CallTold(a, r, tools, i, closes) ==
  /\ StreamTold(r, tools)
  /\ OnlyCall(a, r.acc, tools, i)
  /\ CallOf(r.acc, i).index = CallOf(a, i).index
  /\ CallOf(r.acc, i).done <=> CallOf(a, i).done \/ closes

SameAcc(r, a) == r.acc = a

\* An event about a call that the accumulator knows.
LEMMA ResponsesTool ==
  ASSUME NEW stream, DOMAIN stream = StreamFields, NEW a, NEW tools, Told(a, stream.out, tools),
         Distinct(tools), NEW i \in tools, Known(a, i), AtIndex(a, i), NEW event,
         event.type \in {"arguments.delta", "arguments.done", "output_item.added", "output_item.done"},
         CallOf(a, i).done => event.type # "arguments.delta",
         ToolCallStateForEvent(a, event) = Place(a, i), NEW tuple \in BOOLEAN,
         NEW r, r = ResponsesEvents(stream, event, a, tuple)
  PROVE  CallTold(a, r, tools, i, Closes(event))
<1> DEFINE tool == ResponsesStreamEventsForEvent(a, event, Place(a, i))
           longer == [stream EXCEPT !.out = @ \o tool.events]
<1>1. ToolStep(a, tool, stream.out, tools, i, Closes(event))
  BY ToolEventTold
<1>2. Place(a, i) # 0
  BY SeqOfElements DEF Told, CallsOK, AccShape
<1>3. r = [acc |-> tool.acc, stream |-> longer]
  <2> DEFINE at == ToolCallStateForEvent(a, event)
             told == ResponsesStreamEventsForEvent(a, event, at)
  <2>1. /\ at # 0 /\ event.type # "output_text.delta" /\ event.type # "output_text.done"
        /\ ~IsTerminal(event)
    BY <1>2 DEF IsTerminal
  <2>2. told = tool
    OBVIOUS
  <2>3. r = [acc |-> told.acc, stream |-> [stream EXCEPT !.out = @ \o told.events]]
    <3> HIDE DEF tool
    <3> QED
      BY <2>1 DEF ResponsesEvents
  <2> HIDE DEF told, tool
  <2> QED
    BY <2>2, <2>3
<1> HIDE DEF tool
<1>4. DOMAIN longer = StreamFields /\ longer.out = stream.out \o tool.events
  BY DEF StreamFields
<1> HIDE DEF longer
<1>5. r.acc = tool.acc /\ r.stream = longer
  BY <1>3
<1>6. StreamTold(r, tools)
  <2>1. Told(tool.acc, stream.out \o tool.events, tools)
    BY <1>1 DEF ToolStep, StepTold
  <2>2. Told(tool.acc, longer.out, tools)
    BY <1>4, <2>1
  <2>3. DOMAIN r.stream = StreamFields /\ r.stream.out = longer.out
    BY <1>4, <1>5
  <2> QED
    BY <1>5, <2>2, <2>3 DEF StreamTold
<1>7. OnlyCall(a, r.acc, tools, i) /\ CallOf(r.acc, i).index = CallOf(a, i).index
  BY <1>1, <1>5 DEF ToolStep, StepOf
<1>8. CallOf(r.acc, i).done <=> CallOf(a, i).done \/ Closes(event)
  BY <1>1, <1>5 DEF ToolStep
<1> QED
  BY <1>6, <1>7, <1>8 DEF CallTold

\* An event about anything else is passed on or held back.
LEMMA ResponsesPlain ==
  ASSUME NEW stream, DOMAIN stream = StreamFields, NEW a, NEW tools, Told(a, stream.out, tools),
         NEW event, event.item.kind \notin ToolKinds, event.type # "arguments.delta",
         event.type # "arguments.done", event.type \notin EndTypes,
         event.type \in {"output_item.added", "output_item.done"} => \A i \in tools : event.index # i - 1,
         NEW tuple \in BOOLEAN, NEW r, r = ResponsesEvents(stream, event, a, tuple)
  PROVE  StreamTold(r, tools) /\ SameAcc(r, a)
<1> DEFINE e == PassedOn(event)
           passed == [stream EXCEPT !.out = Append(@, e)]
           held == [stream EXCEPT !.tupleText = @ \o event.body]
           whole == [stream EXCEPT !.tupleText = FirstBody(event.body, @)]
<1>1. ToolCallStateForEvent(a, event) = 0 /\ ~IsTerminal(event)
  BY DEF ToolCallStateForEvent, IsTerminal, EndTypes
<1>2. r.acc = a /\ r.stream \in {passed, held, whole}
  BY <1>1 DEF ResponsesEvents
<1>3. e.type = event.type /\ e.index = event.index /\ e.item.kind = event.item.kind
  <2> DEFINE f == Frame(event.type, event.index, event.item, event.body)
             item == [f.item EXCEPT !.id = FirstNonEmpty(@, event.id)]
  <2>1. f.item = event.item /\ f.type = event.type /\ f.index = event.index
        /\ DOMAIN f = {"type", "index", "item", "body"}
    BY DEF Frame
  <2>2. e = [f EXCEPT !.item = item]
    BY DEF PassedOn
  <2> HIDE DEF f
  <2>3. item.kind = event.item.kind
    BY <2>1
  <2> HIDE DEF e, item
  <2> QED
    BY <2>1, <2>2, <2>3
<1> HIDE DEF e
<1>4. /\ DOMAIN passed = StreamFields /\ passed.out = Append(stream.out, e)
      /\ DOMAIN held = StreamFields /\ held.out = stream.out
      /\ DOMAIN whole = StreamFields /\ whole.out = stream.out
  BY DEF StreamFields
<1> HIDE DEF passed, held, whole
<1>5. Told(a, Append(stream.out, e), tools)
  <2>1. e.type \notin EndTypes /\ e.item.kind \notin ToolKinds
    BY <1>3
  <2>2. e.type \in {"output_item.added", "output_item.done"} => \A i \in tools : e.index # i - 1
    BY <1>3
  <2> QED
    BY <2>1, <2>2, PlainTold
<1> QED
  BY <1>2, <1>4, <1>5 DEF StreamTold, SameAcc

-----------------------------------------------------------------------------
(* Responses: the invariant, and the events before the terminal one *)

Tools == {i \in DOMAIN scripts : scripts[i].kind \in ToolKinds}

\* The upstream told the end of tool call i.
Closed(i) == \E k \in 1..delivered[i] : Closes(scripts[i].events[k])

\* Every call that is known stands at the place of its item, and is done when its end came.
AsTold(a, i) ==
  /\ Known(a, i) => AtIndex(a, i)
  /\ Closed(i) <=> Known(a, i) /\ CallOf(a, i).done

IdsInv == DOMAIN scripts \subseteq Nat \ {0} /\ Distinct(Tools)

PairInv ==
  endpoint = "responses" =>
    /\ PairsOf(writer.out)
    /\ phase = "streaming" =>
         /\ DOMAIN writer = StreamFields
         /\ Told(acc, writer.out, Tools)
         /\ \A i \in Tools : AsTold(acc, i)

\* The ids of a plan are distinct.
LEMMA IdsInit ==
  ASSUME Init
  PROVE  IdsInv
<1>1. PICK plan \in Plans :
        scripts \in {s \in [DOMAIN plan -> UNION {ScriptsOf(plan[i], i) : i \in DOMAIN plan}] :
                       \A i \in DOMAIN plan : s[i] \in ScriptsOf(plan[i], i)}
  BY DEF Init
<1>2. plan \in Seq(ItemKinds)
  BY PlansAssumption
<1>3. DOMAIN plan = 1..Len(plan) /\ Len(plan) \in Nat /\ DOMAIN scripts = DOMAIN plan
  BY <1>1, <1>2, LenProperties
<1>4. \A i, j \in DOMAIN plan :
        /\ ItemId(i) # "" /\ CallId(i) # "" /\ ItemId(i) # CallId(j)
        /\ i # j => ItemId(i) # ItemId(j) /\ CallId(i) # CallId(j)
  BY IdsAssumption DEF ItemId, CallId
<1>5. Tools \subseteq DOMAIN plan
  BY <1>3 DEF Tools
<1>6. DOMAIN plan \subseteq Nat \ {0}
  BY <1>3
<1>7. Distinct(Tools)
  BY <1>4, <1>5, <1>6 DEF Distinct
<1> QED
  BY <1>3, <1>6, <1>7 DEF IdsInv

\* ... and stay so.
LEMMA IdsNext ==
  ASSUME IdsInv, [Next]_vars
  PROVE  IdsInv'
<1>1. scripts' = scripts
  BY DEF Next, vars, Begin, Receive, Complete, Cut, Fail, Cancel, Handle
<1> QED
  BY <1>1 DEF IdsInv, Tools, Distinct, ItemId, CallId

\* A Responses stream starts with nothing written and no call.
LEMMA PairInit ==
  ASSUME Init
  PROVE  PairInv
<1> SUFFICES ASSUME endpoint = "responses"
             PROVE  /\ PairsOf(writer.out) /\ DOMAIN writer = StreamFields
                    /\ Told(acc, writer.out, Tools) /\ \A i \in Tools : AsTold(acc, i)
  BY DEF PairInv
<1>1. writer.out = <<>> /\ DOMAIN writer = StreamFields
  BY DEF Init, NewResponsesStream, StreamFields
<1>2. GoesOn(writer.out)
  BY <1>1, EmptyIsSeq DEF GoesOn
<1>3. AccShape(acc) /\ acc.calls = <<>> /\ DOMAIN acc.toolCallByID = {}
  BY EmptyAccumulatorShape, EmptyIsSeq DEF Init, EmptyAccumulator
<1>4. \A i : ~Known(acc, i)
  BY <1>3 DEF Known
<1>5. CallsOK(acc, Tools)
  BY <1>3, <1>4, EmptyIsSeq DEF CallsOK
<1>6. \A type : Placed(writer.out, type) = {}
  BY <1>1, EmptyIsSeq DEF Placed, Indices
<1>7. Told(acc, writer.out, Tools)
  BY <1>2, <1>4, <1>5, <1>6 DEF Told, Linked
<1>8. \A i \in Tools : ~Closed(i)
  <2>1. \A i \in Tools : delivered[i] = 0
    BY DEF Init, Tools
  <2> QED
    BY <2>1 DEF Closed
<1> QED
  BY <1>1, <1>2, <1>4, <1>7, <1>8, GoesOnIsPaired DEF AsTold

\* The first event is about no call.
LEMMA PairBegin ==
  ASSUME UpstreamInv, IdsInv, PairInv, endpoint = "responses", Begin
  PROVE  PairInv'
<1> DEFINE b == Apply(acc, Created)
           r == ResponsesEvents(writer, Created, b, structured)
<1>1. /\ acc' = r.acc /\ writer' = r.stream /\ scripts' = scripts /\ delivered' = delivered
      /\ endpoint' = endpoint /\ phase' = "streaming" /\ phase = "streaming"
  BY DEF Begin, Handle, WriteEvent
<1>2. DOMAIN writer = StreamFields /\ Told(acc, writer.out, Tools) /\ \A i \in Tools : AsTold(acc, i)
  BY <1>1 DEF PairInv
<1>3. /\ Created.output = <<>> /\ ~IsTerminal(Created) /\ Created.type = "created"
      /\ Created.item = NoItem
  BY CreatedIsPlain DEF Created, NoEvent
<1>4. Created.item.kind \notin ToolKinds
  BY <1>3, NoItemIsNoTool
<1>5. SameCalls(acc, b)
  BY <1>2, <1>3, <1>4, ApplyPlain DEF Told, CallsOK
<1> HIDE DEF b
<1>6. Told(b, writer.out, Tools)
  BY <1>2, <1>5, SameCallsTold
<1>7. StreamTold(r, Tools) /\ SameAcc(r, b)
  BY <1>2, <1>3, <1>4, <1>6, ResponsesPlain DEF EndTypes, UpstreamInv
<1> HIDE DEF r
<1>8. \A i \in Tools : (Known(b, i) <=> Known(acc, i)) /\ CallOf(b, i) = CallOf(acc, i)
  BY <1>2, <1>5, SameCallsOK DEF Told
<1>9. Tools' = Tools /\ \A i : Closed(i)' <=> Closed(i)
  BY <1>1 DEF Tools, Closed
<1>10. \A i \in Tools : AsTold(b, i)
  BY <1>2, <1>8 DEF AsTold, AtIndex
<1>11. DOMAIN writer' = StreamFields /\ Told(acc', writer'.out, Tools) /\ acc' = b
  BY <1>1, <1>7 DEF StreamTold, SameAcc
<1>12. \A i \in Tools : AsTold(acc, i)'
  BY <1>9, <1>10, <1>11 DEF AsTold
<1>13. PairsOf(writer'.out)
  BY <1>11, GoesOnIsPaired DEF Told
<1> QED
  BY <1>1, <1>9, <1>11, <1>12, <1>13 DEF PairInv

\* A delta of a tool call comes only before the end of the call.
LEMMA DeltaBeforeEnd ==
  ASSUME UpstreamInv, NEW i \in Tools, Receive(i), Closed(i)
  PROVE  Closes(scripts[i].events[delivered[i] + 1])
<1> DEFINE events == scripts[i].events
<1>1. i \in DOMAIN scripts /\ ScriptOK(scripts[i], i) /\ scripts[i].kind \in ToolKinds
  BY DEF Tools, UpstreamInv
<1>2. /\ delivered[i] + 1 \in 1..Len(events) /\ delivered[i] \in 0..Len(events)
      /\ DOMAIN events = 1..Len(events) /\ Len(events) \in Nat
  BY <1>1, ReceivedEvent, SeqOfElements DEF UpstreamInv, ScriptOK
<1> HIDE DEF events
<1>3. PICK k \in 1..delivered[i] : Closes(events[k])
  BY DEF Closed, events
<1>4. events # <<>>
  BY <1>2, EmptyIsSeq
<1>5. PICK m \in Nat : ClosesAfter(events, m)
  BY <1>1, <1>4 DEF ScriptOK, events
<1>6. k \in 1..Len(events) /\ k <= delivered[i]
  BY <1>2
<1>7. k > m
  BY <1>2, <1>3, <1>5, <1>6 DEF ClosesAfter
<1>8. delivered[i] + 1 > m
  BY <1>2, <1>6, <1>7
<1>9. Closes(events[delivered[i] + 1])
  BY <1>2, <1>5, <1>8 DEF ClosesAfter
<1> QED
  BY <1>9 DEF events

\* The effect of an event on the ends that were told.
LEMMA ClosedNext ==
  ASSUME UpstreamInv, NEW i \in DOMAIN scripts, Receive(i)
  PROVE  /\ Closed(i)' <=> Closed(i) \/ Closes(scripts[i].events[delivered[i] + 1])
         /\ \A j \in DOMAIN scripts \ {i} : Closed(j)' <=> Closed(j)
<1>1. scripts' = scripts /\ delivered' = [delivered EXCEPT ![i] = @ + 1]
  BY DEF Receive, Handle
<1>2. delivered[i] \in Nat
  BY SeqOfElements DEF UpstreamInv, ScriptOK
<1>3. delivered'[i] = delivered[i] + 1 /\ \A j \in DOMAIN scripts \ {i} : delivered'[j] = delivered[j]
  BY <1>1 DEF UpstreamInv
<1>4. 1..(delivered[i] + 1) = (1..delivered[i]) \union {delivered[i] + 1}
  BY <1>2
<1>5. Closed(i)' <=> Closed(i) \/ Closes(scripts[i].events[delivered[i] + 1])
  BY <1>1, <1>3, <1>4 DEF Closed, Closes
<1>6. \A j \in DOMAIN scripts \ {i} : Closed(j)' <=> Closed(j)
  BY <1>1, <1>3 DEF Closed, Closes
<1> QED
  BY <1>5, <1>6

\* An event about an item, a tool call or not.
LEMMA PairReceive ==
  ASSUME UpstreamInv, IdsInv, PairInv, endpoint = "responses", NEW i \in DOMAIN scripts, Receive(i)
  PROVE  PairInv'
<1> DEFINE event == scripts[i].events[delivered[i] + 1]
           kind == scripts[i].kind
           b == Apply(acc, event)
           r == ResponsesEvents(writer, event, b, structured)
<1>1. /\ acc' = r.acc /\ writer' = r.stream /\ scripts' = scripts
      /\ endpoint' = endpoint /\ phase' = "streaming" /\ phase = "streaming"
  BY DEF Receive, Handle, WriteEvent
<1>2. DOMAIN writer = StreamFields /\ Told(acc, writer.out, Tools) /\ \A j \in Tools : AsTold(acc, j)
  BY <1>1 DEF PairInv
<1>3. OfScript(event, kind, i) /\ ~IsTerminal(event)
  BY ReceivedEvent, NotTerminal
<1>4. structured \in BOOLEAN /\ Distinct(Tools) /\ i - 1 \in Nat
  BY DEF UpstreamInv, IdsInv
<1>5. \A j \in DOMAIN scripts \ {i} : Closed(j)' <=> Closed(j)
  BY ClosedNext
<1>6. Closed(i)' <=> Closed(i) \/ Closes(event)
  BY ClosedNext
<1>7. i \in Tools /\ Closed(i) => Closes(event)
  BY DeltaBeforeEnd
<1> HIDE DEF event
<1>8. Tools' = Tools
  BY <1>1 DEF Tools
<1>9. CASE i \in Tools
  <2>1. kind \in ToolKinds
    BY <1>9 DEF Tools
  <2> HIDE DEF kind
  <2>2. Changed(acc, b, Tools, i) /\ ToolCallStateForEvent(b, event) = Place(b, i)
    BY <1>2, <1>3, <1>4, <1>9, <2>1, ApplyTool DEF Told
  <2> HIDE DEF b
  <2>3. Told(b, writer.out, Tools)
    BY <1>2, <1>9, <2>2, ChangedTold
  <2>4. Known(b, i) /\ AtIndex(b, i)
    BY <2>2 DEF Changed
  <2>5. CallOf(b, i).done <=> Closed(i)
    BY <1>2, <1>9, <2>2 DEF Changed, SameFlags, AsTold
  <2>6. event.type \in {"arguments.delta", "arguments.done", "output_item.added", "output_item.done"}
    BY <1>3, <2>1 DEF OfScript, OfItem, OfFragment
  <2>7. CallOf(b, i).done => event.type # "arguments.delta"
    BY <1>7, <1>9, <2>5 DEF Closes
  <2>8. CallTold(b, r, Tools, i, Closes(event))
    BY <1>2, <1>4, <1>9, <2>2, <2>3, <2>4, <2>6, <2>7, ResponsesTool
  <2> HIDE DEF r
  <2>9. StreamTold(r, Tools)
    BY <2>8 DEF CallTold
  <2>10. /\ OnlyCall(b, r.acc, Tools, i) /\ CallOf(r.acc, i).index = CallOf(b, i).index
         /\ CallOf(r.acc, i).done <=> CallOf(b, i).done \/ Closes(event)
    BY <2>8 DEF CallTold
  <2>11. AsTold(acc, i)'
    <3>1. Known(r.acc, i) /\ AtIndex(r.acc, i)
      BY <2>4, <2>10 DEF OnlyCall, AtIndex
    <3>2. CallOf(r.acc, i).done <=> Closed(i)'
      BY <1>6, <2>5, <2>10
    <3> QED
      BY <1>1, <3>1, <3>2 DEF AsTold
  <2>12. ASSUME NEW j \in Tools, j # i PROVE AsTold(acc, j)'
    <3>1. (Known(b, j) <=> Known(acc, j)) /\ (Known(acc, j) => CallOf(b, j) = CallOf(acc, j))
      BY <2>2, <2>12 DEF Changed
    <3>2. (Known(r.acc, j) <=> Known(b, j)) /\ (Known(b, j) => CallOf(r.acc, j) = CallOf(b, j))
      BY <2>10, <2>12 DEF OnlyCall
    <3>3. j \in DOMAIN scripts \ {i}
      BY <2>12 DEF Tools
    <3>4. Closed(j)' <=> Closed(j)
      BY <1>5, <3>3
    <3>5. AsTold(acc, j)
      BY <1>2
    <3> QED
      BY <1>1, <3>1, <3>2, <3>4, <3>5 DEF AsTold, AtIndex
  <2>13. DOMAIN writer' = StreamFields /\ Told(acc', writer'.out, Tools)
    BY <1>1, <2>9 DEF StreamTold
  <2>14. PairsOf(writer'.out)
    BY <2>13, GoesOnIsPaired DEF Told
  <2>15. \A j \in Tools : AsTold(acc, j)'
    BY <2>11, <2>12
  <2> QED
    BY <1>1, <1>8, <2>13, <2>14, <2>15 DEF PairInv
<1>10. CASE i \notin Tools
  <2>1. kind \notin ToolKinds
    BY <1>10 DEF Tools
  <2> HIDE DEF kind
  <2>2. /\ event.item.kind \notin ToolKinds /\ event.output = <<>>
        /\ event.type # "arguments.delta" /\ event.type # "arguments.done" /\ event.type \notin EndTypes
        /\ event.index = i - 1
    BY <1>3, <2>1, NoItemIsNoTool DEF OfScript, OfItem, OfFragment, EndTypes
  <2>3. SameCalls(acc, b)
    BY <1>2, <1>3, <2>2, ApplyPlain DEF Told, CallsOK
  <2> HIDE DEF b
  <2>4. Told(b, writer.out, Tools)
    BY <1>2, <2>3, SameCallsTold
  <2>5. \A j \in Tools : event.index # j - 1
    <3> TAKE j \in Tools
    <3>1. j # i /\ j \in Nat /\ i \in Nat
      BY <1>10 DEF IdsInv, Tools
    <3> QED
      BY <2>2, <3>1
  <2>6. StreamTold(r, Tools)
    BY <1>2, <1>4, <2>2, <2>4, <2>5, ResponsesPlain
  <2>7. SameAcc(r, b)
    BY <1>2, <1>4, <2>2, <2>4, <2>5, ResponsesPlain
  <2> HIDE DEF r
  <2>8. ASSUME NEW j \in Tools PROVE AsTold(acc, j)'
    <3>1. (Known(b, j) <=> Known(acc, j)) /\ CallOf(b, j) = CallOf(acc, j)
      BY <1>2, <2>3, SameCallsOK DEF Told
    <3>2. Closed(j)' <=> Closed(j)
      BY <1>5, <1>10 DEF Tools
    <3>3. AsTold(acc, j)
      BY <1>2
    <3> QED
      BY <1>1, <2>7, <3>1, <3>2, <3>3 DEF SameAcc, AsTold, AtIndex
  <2>9. DOMAIN writer' = StreamFields /\ Told(acc', writer'.out, Tools)
    BY <1>1, <2>6 DEF StreamTold
  <2>10. PairsOf(writer'.out)
    BY <2>9, GoesOnIsPaired DEF Told
  <2> QED
    BY <1>1, <1>8, <2>8, <2>9, <2>10 DEF PairInv
<1> QED
  BY <1>9, <1>10

-----------------------------------------------------------------------------
(* The output of the terminal event: NthBegun and FullOutput *)

Below(B, i) == {j \in B : j < i}

\* Every finite set of numbers has an n-th element.
LEMMA NthExists ==
  ASSUME NEW N \in Nat, NEW B \in SUBSET (1..N), NEW n \in 1..Cardinality(B)
  PROVE  \E i \in B : Cardinality(Below(B, i)) = n - 1
<1> DEFINE Part(m) == B \intersect (1..m)
           Good(m) == \A k \in 1..Cardinality(Part(m)) : \E i \in Part(m) : Cardinality(Below(B, i)) = k - 1
           P == {m \in Nat : Good(m)}
<1>1. \A m \in Nat : IsFiniteSet(Part(m)) /\ Cardinality(Part(m)) \in Nat
  <2> TAKE m \in Nat
  <2>1. IsFiniteSet(1..m)
    BY FS_Interval
  <2>2. IsFiniteSet(Part(m))
    BY <2>1, FS_Subset
  <2> QED
    BY <2>2, FS_CardinalityType
<1>2. 0 \in P
  <2>1. Part(0) = {}
    OBVIOUS
  <2>2. Cardinality(Part(0)) = 0
    BY <2>1, FS_EmptySet
  <2> HIDE DEF Part
  <2>3. Good(0)
    BY <2>2
  <2> HIDE DEF Good
  <2> QED
    BY <2>3
<1>3. ASSUME NEW m \in 1..N, m - 1 \in P PROVE m \in P
  <2>0. m \in Nat /\ m - 1 \in Nat /\ Good(m - 1)
    BY <1>3
  <2>1. CASE m \notin B
    <3>1. Part(m) = Part(m - 1)
      BY <2>0, <2>1
    <3> HIDE DEF Part
    <3>2. Good(m)
      BY <2>0, <3>1
    <3> HIDE DEF Good
    <3> QED
      BY <2>0, <3>2
  <2>2. CASE m \in B
    <3>1. /\ Part(m) = Part(m - 1) \union {m} /\ m \notin Part(m - 1)
          /\ m \in Part(m)
      BY <2>0, <2>2
    <3>2. \A j \in B : j < m <=> j \in 1..(m - 1)
      BY <2>0
    <3>3. Below(B, m) = Part(m - 1)
      BY <3>2 DEF Below
    <3>4. IsFiniteSet(Part(m - 1)) /\ Cardinality(Part(m - 1)) \in Nat
      BY <1>1, <2>0
    <3> HIDE DEF Part
    <3>5. /\ Cardinality(Part(m)) = Cardinality(Part(m - 1)) + 1 /\ Cardinality(Part(m - 1)) \in Nat
      BY <3>1, <3>4, FS_AddElement
    <3>6. ASSUME NEW k \in 1..Cardinality(Part(m)) PROVE \E i \in Part(m) : Cardinality(Below(B, i)) = k - 1
      <4>1. CASE k = Cardinality(Part(m))
        BY <3>1, <3>5, <3>3, <4>1
      <4>2. CASE k # Cardinality(Part(m))
        <5>1. k \in 1..Cardinality(Part(m - 1))
          BY <3>5, <4>2
        <5> QED
          BY <2>0, <3>1, <5>1
      <4> QED
        BY <4>1, <4>2
    <3>7. Good(m)
      BY <3>6
    <3> HIDE DEF Good
    <3> QED
      BY <2>0, <3>7
  <2> QED
    BY <2>1, <2>2
<1>4. Part(N) = B
  OBVIOUS
<1> HIDE DEF P
<1>5. N \in P
  BY <1>2, <1>3, Steps
<1> HIDE DEF Part
<1> QED
  BY <1>4, <1>5 DEF P

\* NthBegun is the n-th item that was begun.
LEMMA NthBegunOK ==
  ASSUME UpstreamInv, NEW n \in 1..Cardinality(Begun)
  PROVE  NthBegun(n) \in Begun /\ Cardinality(Below(Begun, NthBegun(n))) = n - 1
<1>1. Len(scripts) \in Nat /\ Begun \in SUBSET (1..Len(scripts))
  BY SeqOfElements DEF UpstreamInv, Begun
<1>2. \E i \in Begun : Cardinality(Below(Begun, i)) = n - 1
  BY <1>1, NthExists
<1> QED
  BY <1>2 DEF NthBegun, Below

\* An item that only the end tells of follows others that are all told.
LEMMA OnlyAtEndInPlace ==
  ASSUME UpstreamInv, NEW n \in 1..Cardinality(Begun), NEW i, i = NthBegun(n), scripts[i].events = <<>>
  PROVE  n = i
<1>1. DOMAIN scripts = 1..Len(scripts) /\ Len(scripts) \in Nat
  BY SeqOfElements DEF UpstreamInv
<1>2. i \in Begun /\ i \in 1..Len(scripts) /\ Cardinality(Below(Begun, i)) = n - 1
  BY <1>1, NthBegunOK DEF Begun
<1>3. delivered[i] = 0
  BY <1>1, <1>2, EmptyIsSeq DEF UpstreamInv
<1>4. \A j \in 1..(i - 1) : Finished(j)
  BY <1>2, <1>3 DEF Begun
<1>5. ASSUME NEW j \in 1..(i - 1) PROVE j \in Begun
  <2>1. j \in DOMAIN scripts /\ Finished(j) /\ IsSeq(scripts[j].events)
    BY <1>1, <1>2, <1>4 DEF UpstreamInv, ScriptOK
  <2>2. \A k \in 1..(j - 1) : Finished(k)
    BY <1>2, <1>4
  <2>3. Len(scripts[j].events) \in Nat /\ (Len(scripts[j].events) = 0 => scripts[j].events = <<>>)
    BY <2>1, SeqOfElements, SameSeq, EmptyIsSeq
  <2> QED
    BY <2>1, <2>2, <2>3 DEF Begun, Finished
<1>6. Below(Begun, i) = 1..(i - 1)
  BY <1>1, <1>2, <1>5 DEF Below, Begun
<1>7. Cardinality(1..(i - 1)) = i - 1
  BY <1>2, FS_Interval
<1> QED
  BY <1>2, <1>6, <1>7

(* A tool call of the output is one whose end was told, or stands at the place
   of its item, or was cut off. *)
OutputOK(output, type) ==
  \A n \in DOMAIN output : output[n].kind \in ToolKinds => \E i \in Tools :
    /\ output[n].id = ItemId(i) /\ output[n].call = CallId(i)
    /\ \/ Closed(i) \/ n = i
       \/ output[n].status = "incomplete" /\ type = "incomplete"

\* The item of a tool call, however it was told.
LEMMA ItemAfterOK ==
  ASSUME UpstreamInv, NEW i \in Begun, NEW item, item = ItemAfter(scripts[i], i, delivered[i]),
         item.kind \in ToolKinds
  PROVE  /\ i \in Tools /\ item.id = ItemId(i) /\ item.call = CallId(i)
         /\ Closed(i) \/ scripts[i].events = <<>> \/ (item.status = "incomplete" /\ ~Finished(i))
<1> DEFINE script == scripts[i]
           events == script.events
           m == delivered[i]
           said == {k \in 1..m : events[k].type = "output_item.done"}
           whole == m = Len(events) \/ \E k \in 1..m : events[k].body = Whole \/ events[k].sig # ""
           told == SelectSeq(SubSeq(events, 1, m), LAMBDA e : e.type # "output_item.added")
           parts == FlattenSeq([k \in DOMAIN told |-> told[k].body])
           complete == Item(script.kind, i, Whole, "completed")
           cut == Item(script.kind, i, parts, "incomplete")
<1>1. i \in DOMAIN scripts /\ ScriptOK(script, i) /\ m \in 0..Len(events)
  BY DEF Begun, UpstreamInv
<1>2. DOMAIN events = 1..Len(events) /\ Len(events) \in Nat
  BY <1>1, SeqOfElements DEF ScriptOK
<1>3. \A k \in 1..m : OfScript(events[k], script.kind, i)
  BY <1>1, <1>2 DEF ScriptOK
<1>4. /\ said # {} => item = events[CHOOSE k \in said : TRUE].item
      /\ said = {} /\ whole => item = complete
      /\ said = {} /\ ~whole => item = cut
  <2> HIDE DEF said, whole, parts
  <2> QED
    BY DEF ItemAfter, said, whole, parts
<1>5. ASSUME NEW body, NEW status
      PROVE  /\ Item(script.kind, i, body, status).kind = script.kind
             /\ Item(script.kind, i, body, status).id = ItemId(i)
             /\ script.kind \in ToolKinds => Item(script.kind, i, body, status).call = CallId(i)
             /\ Item(script.kind, i, body, status).status = status
  BY DEF Item, NoItem
<1> HIDE DEF script, events, m, parts
<1>6. CASE said # {}
  <2>1. PICK k \in said : item = events[k].item
    BY <1>4, <1>6
  <2>2. k \in 1..m /\ events[k].type = "output_item.done"
    BY <2>1
  <2>3. OfItem(events[k], script.kind, i)
    BY <1>3, <2>2 DEF OfScript, OfFragment
  <2>4. item.kind = script.kind /\ item.id = ItemId(i)
    BY <2>1, <2>3 DEF OfItem
  <2>5. item.call = CallId(i)
    BY <2>1, <2>3, <2>4 DEF OfItem
  <2>6. Closed(i)
    BY <2>2 DEF Closed, Closes, script, events, m
  <2> QED
    BY <1>1, <2>4, <2>5, <2>6 DEF Tools, script
<1>7. CASE said = {} /\ whole
  <2>1. item = complete
    BY <1>4, <1>7
  <2>2. item.kind = script.kind /\ item.id = ItemId(i) /\ script.kind \in ToolKinds
    BY <1>5, <2>1
  <2>3. item.call = CallId(i)
    BY <1>5, <2>1, <2>2
  <2>4. Closed(i) \/ events = <<>>
    <3>1. CASE m = Len(events) /\ events # <<>>
      <4>1. PICK n \in Nat : ClosesAfter(events, n)
        BY <1>1, <2>2, <3>1 DEF ScriptOK, events
      <4>2. m \in 1..m /\ m \in DOMAIN events /\ m > n
        BY <1>2, <3>1, <4>1 DEF ClosesAfter
      <4>3. Closes(events[m])
        BY <4>1, <4>2 DEF ClosesAfter
      <4> QED
        BY <4>2, <4>3 DEF Closed, script, events, m
    <3>2. CASE \E k \in 1..m : events[k].body = Whole \/ events[k].sig # ""
      <4>1. PICK k \in 1..m : events[k].body = Whole \/ events[k].sig # ""
        BY <3>2
      <4>2. <<>> # Whole
        BY DEF Whole
      <4>3. events[k].type = "arguments.done"
        BY <1>3, <2>2, <4>1, <4>2 DEF OfScript, OfItem, OfFragment
      <4> QED
        BY <4>3 DEF Closed, Closes, script, events, m
    <3> QED
      BY <1>7, <3>1, <3>2
  <2> QED
    BY <1>1, <2>2, <2>3, <2>4 DEF Tools, script, events
<1>8. CASE said = {} /\ ~whole
  <2>1. item = cut
    BY <1>4, <1>8
  <2>2. item.kind = script.kind /\ item.id = ItemId(i) /\ item.status = "incomplete" /\ script.kind \in ToolKinds
    BY <1>5, <2>1
  <2>3. item.call = CallId(i)
    BY <1>5, <2>1, <2>2
  <2>4. ~Finished(i)
    BY <1>8 DEF Finished, script, events, m
  <2> QED
    BY <1>1, <2>2, <2>3, <2>4 DEF Tools, script
<1> QED
  BY <1>6, <1>7, <1>8

\* Whatever output the upstream may send with its terminal response.
LEMMA OutputsOK ==
  ASSUME UpstreamInv, NEW output \in Outputs, NEW type \in {"completed", "incomplete"},
         type = "completed" => \A i \in DOMAIN scripts : Finished(i)
  PROVE  OutputOK(output, type)
<1>1. CASE output = <<>>
  BY <1>1, EmptyIsSeq DEF OutputOK
<1>2. CASE output = FullOutput
  <2>1. ASSUME NEW n \in DOMAIN output, output[n].kind \in ToolKinds
        PROVE  \E i \in Tools :
                 /\ output[n].id = ItemId(i) /\ output[n].call = CallId(i)
                 /\ \/ Closed(i) \/ n = i
                    \/ output[n].status = "incomplete" /\ type = "incomplete"
    <3> DEFINE i == NthBegun(n)
               item == output[n]
    <3>1. n \in 1..Cardinality(Begun) /\ item = ItemAfter(scripts[i], i, delivered[i])
      BY <1>2, <2>1 DEF FullOutput
    <3>2. i \in Begun
      BY <3>1, NthBegunOK
    <3>3. scripts[i].events = <<>> => n = i
      BY <3>1, OnlyAtEndInPlace
    <3> HIDE DEF i, item
    <3>4. /\ i \in Tools /\ item.id = ItemId(i) /\ item.call = CallId(i)
          /\ Closed(i) \/ scripts[i].events = <<>> \/ (item.status = "incomplete" /\ ~Finished(i))
      BY <2>1, <3>1, <3>2, ItemAfterOK DEF item
    <3>5. i \in DOMAIN scripts
      BY <3>4 DEF Tools
    <3> QED
      BY <3>3, <3>4, <3>5 DEF item
  <2> QED
    BY <2>1 DEF OutputOK
<1> QED
  BY <1>1, <1>2 DEF Outputs

-----------------------------------------------------------------------------
(* The terminal event: the output is captured, twice *)

(* A call that is not done stands at its place, or was cut off and stays so. *)
Ready(a, i, type) ==
  Known(a, i) =>
    \/ CallOf(a, i).done
    \/ AtIndex(a, i)
    \/ type = "incomplete" /\ ~HasStatus(a, i, "completed")

DoneIfClosed(a, i) == Closed(i) => Known(a, i) /\ CallOf(a, i).done

EndOK(a, out, type) ==
  Told(a, out, Tools) /\ \A i \in Tools : DoneIfClosed(a, i) /\ Ready(a, i, type)

\* What is no call may change.
LEMMA SameCallsEnd ==
  ASSUME NEW a, NEW out, NEW type, EndOK(a, out, type), NEW b, SameCalls(a, b)
  PROVE  EndOK(b, out, type)
<1>1. Told(b, out, Tools)
  BY SameCallsTold DEF EndOK
<1>2. \A i \in Tools : (Known(b, i) <=> Known(a, i)) /\ CallOf(b, i) = CallOf(a, i)
  BY SameCallsOK DEF EndOK, Told
<1>3. \A i \in Tools : DoneIfClosed(b, i) /\ Ready(b, i, type)
  BY <1>2 DEF EndOK, DoneIfClosed, Ready, AtIndex, HasStatus
<1> QED
  BY <1>1, <1>3 DEF EndOK

\* One item of the output, at place n.
ItemOK(item, n, type) ==
  item.kind \in ToolKinds => \E i \in Tools :
    /\ item.id = ItemId(i) /\ item.call = CallId(i)
    /\ Closed(i) \/ n = i \/ (item.status = "incomplete" /\ type = "incomplete")

\* One item of the output is captured.
LEMMA CaptureEnd ==
  ASSUME IdsInv, NEW a, NEW out, NEW type, EndOK(a, out, type),
         NEW n \in Nat, n > 0, NEW item, ItemOK(item, n, type),
         NEW b, b = CaptureOutputItem(a, item, n - 1)
  PROVE  EndOK(b, out, type) /\ SameTerminal(a, b)
<1>1. CASE item.kind \notin ToolKinds
  <2>1. AccShape(a)
    BY DEF EndOK, Told, CallsOK
  <2>2. SameCalls(a, b)
    BY <1>1, <2>1, CapturePlain
  <2>3. SameTerminal(a, b)
    BY <1>1, <2>1, CapturePlain
  <2> QED
    BY <2>2, <2>3, SameCallsEnd
<1>2. CASE item.kind \in ToolKinds
  <2>1. PICK i \in Tools :
          /\ item.id = ItemId(i) /\ item.call = CallId(i)
          /\ Closed(i) \/ n = i \/ (item.status = "incomplete" /\ type = "incomplete")
    BY <1>2 DEF ItemOK
  <2>2. b = CaptureToolCall(a, item, n - 1)
    BY <1>2, CaptureTool
  <2>3. n - 1 \in Nat /\ CallsOK(a, Tools) /\ Distinct(Tools)
    BY DEF EndOK, Told, IdsInv
  <2>4. Amended(a, b, Tools, i, n - 1)
    BY <1>2, <2>1, <2>2, <2>3, CaptureOK
  <2>5. item.status # "" => HasStatus(b, i, item.status)
    BY <1>2, <2>1, <2>2, <2>3, CaptureOK
  <2>6. OnlyCall(a, b, Tools, i) /\ SameFlags(a, b, i) /\ CallOf(b, i).index = n - 1
    BY <2>4 DEF Amended
  <2>7. Told(b, out, Tools)
    BY <2>6, StillTold DEF EndOK
  <2>8. ASSUME NEW j \in Tools, j # i PROVE DoneIfClosed(b, j) /\ Ready(b, j, type)
    <3>1. (Known(b, j) <=> Known(a, j)) /\ (Known(a, j) => CallOf(b, j) = CallOf(a, j))
      BY <2>6, <2>8 DEF OnlyCall
    <3>2. DoneIfClosed(a, j) /\ Ready(a, j, type)
      BY DEF EndOK
    <3> QED
      BY <3>1, <3>2 DEF DoneIfClosed, Ready, AtIndex, HasStatus
  <2>9. DoneIfClosed(b, i)
    BY <2>6 DEF EndOK, DoneIfClosed, OnlyCall, SameFlags
  <2>10. Ready(b, i, type)
    <3>1. CASE Closed(i)
      BY <2>9, <3>1 DEF Ready, DoneIfClosed
    <3>2. CASE n = i
      BY <2>6, <3>2 DEF Ready, AtIndex
    <3>3. CASE item.status = "incomplete" /\ type = "incomplete"
      BY <2>5, <3>3 DEF Ready, HasStatus
    <3> QED
      BY <2>1, <3>1, <3>2, <3>3
  <2>11. EndOK(b, out, type)
    BY <2>7, <2>8, <2>9, <2>10 DEF EndOK
  <2> QED
    BY <2>6, <2>11 DEF OnlyCall, SameTerminal
<1> QED
  BY <1>1, <1>2

\* The whole output is captured.
LEMMA ReplacedEnd ==
  ASSUME IdsInv, NEW a, NEW out, NEW type, EndOK(a, out, type),
         NEW output, IsSeq(output), OutputOK(output, type)
  PROVE  EndOK(Replaced(a, output), out, type) /\ SameTerminal(a, Replaced(a, output))
<1> DEFINE n == Len(output)
           none == [a EXCEPT !.items = <<>>]
<1>1. DOMAIN output = 1..n
  BY SeqOfElements
<1>2. n \in Nat
  BY SeqOfElements
<1> HIDE DEF n
<1>3. PICK g : CaptureRun(g, a, output, n) /\ ReplaceOutputItems(a, output) = g[n]
  BY <1>1, <1>2, CaptureUnrolled
<1> DEFINE P == {k \in 0..n : EndOK(g[k], out, type) /\ SameTerminal(a, g[k])}
<1>4. 0 \in P
  <2>1. SameCalls(a, none) /\ SameTerminal(a, none)
    BY EmptyIsSeq DEF EndOK, Told, CallsOK, SameCalls, SameTerminal, AccShape, AccFields
  <2>2. g[0] = none
    BY <1>3 DEF CaptureRun
  <2> HIDE DEF none
  <2>3. EndOK(g[0], out, type) /\ SameTerminal(a, g[0])
    BY <2>1, <2>2, SameCallsEnd
  <2> QED
    BY <1>2, <2>3
<1>5. ASSUME NEW k \in 1..n, k - 1 \in P PROVE k \in P
  <2>1. EndOK(g[k - 1], out, type) /\ SameTerminal(a, g[k - 1])
    BY <1>5
  <2>2. g[k] = CaptureOutputItem(g[k - 1], output[k], k - 1)
    BY <1>3 DEF CaptureRun
  <2>3. ItemOK(output[k], k, type)
    BY <1>1 DEF OutputOK, ItemOK
  <2>4. k \in Nat /\ k > 0
    BY <1>2
  <2>5. EndOK(g[k], out, type) /\ SameTerminal(g[k - 1], g[k])
    BY <2>1, <2>2, <2>3, <2>4, CaptureEnd
  <2>6. SameTerminal(a, g[k])
    BY <2>1, <2>5 DEF SameTerminal
  <2> QED
    BY <2>5, <2>6
<1> HIDE DEF P
<1>6. n \in P
  BY <1>2, <1>4, <1>5, Steps
<1> QED
  BY <1>3, <1>6 DEF P, Replaced, SameTerminal

-----------------------------------------------------------------------------
(* The calls that were not completed, at the end *)

PendingStep(step, at) ==
  LET call == step.acc.calls[at]
      more == EnsureToolCallCompleted(step.acc, at)
  IN  IF call.done \/ (Incomplete(step.acc) /\ call.status # "completed")
        THEN step
        ELSE [acc |-> more.acc, events |-> step.events \o more.events]

\* One call after the other.
PendingRun(g, a, n) ==
  g[0] = [acc |-> a, events |-> <<>>] /\ \A k \in 1..n : g[k] = PendingStep(g[k - 1], k)

\* The fold over the calls is such a run.
LEMMA PendingUnrolled ==
  ASSUME NEW a, NEW n \in Nat, DOMAIN a.calls = 1..n
  PROVE  \E g : PendingRun(g, a, n) /\ PendingToolCallCompletionEvents(a) = g[n]
<1> DEFINE s == [i \in DOMAIN a.calls |-> i]
           Fold(f, D) == f = [S \in SUBSET D |->
             IF S = {} THEN [acc |-> a, events |-> <<>>] ELSE PendingStep(f[S \ {Max(S)}], s[Max(S)])]
           f == CHOOSE f : Fold(f, DOMAIN s)
           P == {m \in Nat : \E h : Fold(h, 1..m)}
<1>1. PendingToolCallCompletionEvents(a) = f[DOMAIN s]
  BY DEF FoldLeft, MapThenFoldSet, PendingToolCallCompletionEvents, PendingStep, FoldLeftDomain
<1>2. DOMAIN s = 1..n /\ \A k \in 1..n : s[k] = k
  OBVIOUS
<1> HIDE DEF s
<1>3. 0 \in P
  <2>1. \A S \in SUBSET (1..0) : S = {}
    OBVIOUS
  <2>2. Fold([S \in SUBSET (1..0) |-> [acc |-> a, events |-> <<>>]], 1..0)
    BY <2>1
  <2> QED
    BY <2>2
<1>4. ASSUME NEW k \in 1..n, k - 1 \in P PROVE k \in P
  <2>1. PICK h : Fold(h, 1..(k - 1))
    BY <1>4
  <2> DEFINE longer == [S \in SUBSET (1..k) |->
               IF k \in S THEN PendingStep(h[S \ {k}], s[k]) ELSE h[S]]
  <2>2. longer = [S \in SUBSET (1..k) |-> longer[S]]
    OBVIOUS
  <2>3. \A S \in SUBSET (1..(k - 1)) : S \in SUBSET (1..k) /\ longer[S] = h[S]
    OBVIOUS
  <2>4. \A S \in SUBSET (1..k) : k \in S => longer[S] = PendingStep(h[S \ {k}], s[k])
    OBVIOUS
  <2> HIDE DEF longer
  <2>5. ASSUME NEW S \in SUBSET (1..k), S # {}
        PROVE  longer[S] = PendingStep(longer[S \ {Max(S)}], s[Max(S)])
    <3>1. CASE k \in S
      <4>1. Max(S) = k /\ S \ {k} \in SUBSET (1..(k - 1))
        BY <3>1, MaxOfSegment
      <4> QED
        BY <3>1, <4>1, <2>3, <2>4
    <3>2. CASE k \notin S
      <4>1. S \in SUBSET (1..(k - 1))
        BY <3>2, MaxOfSegment
      <4>2. S \ {Max(S)} \in SUBSET (1..(k - 1))
        BY <4>1
      <4>3. h[S] = PendingStep(h[S \ {Max(S)}], s[Max(S)])
        BY <2>1, <2>5, <4>1
      <4> QED
        BY <2>3, <4>1, <4>2, <4>3
    <3> QED
      BY <3>1, <3>2
  <2>6. longer[{}] = [acc |-> a, events |-> <<>>]
    BY <2>1, <2>3
  <2>7. Fold(longer, 1..k)
    BY <2>2, <2>5, <2>6
  <2>8. k \in Nat
    OBVIOUS
  <2> HIDE DEF Fold
  <2> QED
    BY <2>7, <2>8
<1>5. Fold(f, 1..n)
  <2> HIDE DEF P
  <2>1. n \in P
    BY <1>3, <1>4, Steps
  <2> QED
    BY <1>2, <2>1 DEF P
<1> HIDE DEF f
<1> DEFINE g == [k \in 0..n |-> f[1..k]]
<1>6. g[0] = [acc |-> a, events |-> <<>>] /\ g[n] = f[DOMAIN s]
  <2>1. 1..0 = {} /\ {} \in SUBSET (1..n) /\ 0 \in 0..n /\ n \in 0..n
    OBVIOUS
  <2>2. f[{}] = [acc |-> a, events |-> <<>>]
    BY <1>5, <2>1
  <2> QED
    BY <1>2, <2>1, <2>2
<1>7. ASSUME NEW k \in 1..n PROVE g[k] = PendingStep(g[k - 1], k)
  <2>1. Max(1..k) = k /\ (1..k) \ {k} = 1..(k - 1) /\ 1..k # {} /\ 1..k \in SUBSET (1..n)
    BY Segment
  <2>2. f[1..k] = PendingStep(f[1..(k - 1)], s[k])
    BY <1>5, <2>1
  <2>3. k \in 0..n /\ k - 1 \in 0..n
    OBVIOUS
  <2> QED
    BY <1>2, <2>2, <2>3
<1> HIDE DEF g
<1>8. PendingRun(g, a, n) /\ PendingToolCallCompletionEvents(a) = g[n]
  BY <1>1, <1>6, <1>7 DEF PendingRun
<1> QED
  BY <1>8

\* After some of the calls: what was written goes on, and the others are ready.
PendingOK(s, a, out, type) ==
  /\ StepTold(s, out, Tools)
  /\ SameTerminal(a, s.acc) /\ DOMAIN s.acc.calls = DOMAIN a.calls
  /\ \A i \in Tools : Ready(s.acc, i, type)

\* One call: done before, cut off, or completed here.
LEMMA PendingStepOK ==
  ASSUME IdsInv, NEW a, NEW out, IsSeq(out), NEW type, type = "incomplete" => a.terminal = "incomplete",
         NEW s, PendingOK(s, a, out, type), NEW at \in DOMAIN a.calls
  PROVE  PendingOK(PendingStep(s, at), a, out, type)
<1> DEFINE b == s.acc
           more == EnsureToolCallCompleted(b, at)
           t == PendingStep(s, at)
           out1 == out \o s.events
<1>1. CallsOK(b, Tools) /\ at \in DOMAIN b.calls /\ IsSeq(s.events) /\ Told(b, out1, Tools)
  BY DEF PendingOK, StepTold, Told
<1>2. PICK i \in Tools : Known(b, i) /\ Place(b, i) = at
  BY <1>1 DEF CallsOK
<1>3. b.calls[at] = CallOf(b, i)
  BY <1>2 DEF CallOf
<1>4. CASE CallOf(b, i).done \/ (Incomplete(b) /\ CallOf(b, i).status # "completed")
  <2>1. t = s
    BY <1>3, <1>4 DEF PendingStep
  <2> QED
    BY <2>1
<1>5. CASE ~(CallOf(b, i).done \/ (Incomplete(b) /\ CallOf(b, i).status # "completed"))
  <2>1. t = [acc |-> more.acc, events |-> s.events \o more.events]
    BY <1>3, <1>5 DEF PendingStep
  <2>2. Ready(b, i, type) /\ SameTerminal(a, b) /\ DOMAIN b.calls = DOMAIN a.calls
    BY DEF PendingOK
  <2>3. AtIndex(b, i)
    <3>1. ~CallOf(b, i).done
      BY <1>5
    <3>2. type = "incomplete" => HasStatus(b, i, "completed")
      BY <1>5, <2>2 DEF Incomplete, SameTerminal, HasStatus
    <3> QED
      BY <1>2, <2>2, <3>1, <3>2 DEF Ready
  <2>4. more = EnsureToolCallCompleted(b, Place(b, i))
    BY <1>2
  <2>5. Distinct(Tools)
    BY DEF IdsInv
  <2> HIDE DEF more, t, b, out1
  <2>6. StepOf(b, more, Tools, i)
    BY <1>1, <1>2, <2>3, <2>4, <2>5, CompletedTold
  <2>7. StepTold(more, out1, Tools)
    BY <1>1, <1>2, <2>3, <2>4, <2>5, CompletedTold
  <2>8. IsDone(more.acc, i)
    BY <1>1, <1>2, <2>3, <2>4, <2>5, CompletedTold
  <2>9. DOMAIN t = {"acc", "events"} /\ t.acc = more.acc /\ t.events = s.events \o more.events
    BY <2>1
  <2>10. IsSeq(more.events) /\ Told(more.acc, out1 \o more.events, Tools)
    BY <2>7 DEF StepTold
  <2>11. IsSeq(s.events \o more.events)
    BY <1>1, <2>10, Concatenated
  <2>12. out1 \o more.events = out \o (s.events \o more.events)
    <3> DEFINE told == s.events
               added == more.events
    <3>1. IsSeq(told) /\ IsSeq(added)
      BY <1>1, <2>10
    <3> HIDE DEF told, added
    <3>2. out \o (told \o added) = (out \o told) \o added
      BY <3>1, AppendInParts
    <3> QED
      BY <3>2 DEF out1, told, added
  <2>13. StepTold(t, out, Tools)
    BY <2>9, <2>10, <2>11, <2>12 DEF StepTold
  <2>14. OnlyCall(b, t.acc, Tools, i) /\ DOMAIN t.acc.calls = DOMAIN a.calls
    BY <2>2, <2>6, <2>9 DEF StepOf
  <2>15. SameTerminal(a, t.acc)
    BY <2>2, <2>14 DEF OnlyCall, SameTerminal
  <2>16. Ready(t.acc, i, type)
    BY <2>8, <2>9 DEF Ready, IsDone
  <2>17. ASSUME NEW j \in Tools, j # i PROVE Ready(t.acc, j, type)
    <3>1. (Known(t.acc, j) <=> Known(b, j)) /\ (Known(b, j) => CallOf(t.acc, j) = CallOf(b, j))
      BY <2>14, <2>17 DEF OnlyCall
    <3>2. Ready(b, j, type)
      BY DEF PendingOK, b
    <3> QED
      BY <3>1, <3>2 DEF Ready, AtIndex, HasStatus
  <2>18. PendingOK(t, a, out, type)
    BY <2>13, <2>14, <2>15, <2>16, <2>17 DEF PendingOK
  <2> QED
    BY <2>18 DEF t
<1> QED
  BY <1>4, <1>5

\* All calls: nothing is announced or completed twice.
LEMMA PendingTold ==
  ASSUME IdsInv, NEW a, NEW out, NEW type, EndOK(a, out, type),
         type = "incomplete" => a.terminal = "incomplete",
         NEW r, r = PendingToolCallCompletionEvents(a)
  PROVE  StepTold(r, out, Tools)
<1> DEFINE n == Len(a.calls)
           none == [acc |-> a, events |-> <<>>]
<1>1. IsSeq(a.calls) /\ IsSeq(out)
  BY DEF EndOK, Told, CallsOK, AccShape, GoesOn
<1>2. DOMAIN a.calls = 1..n
  BY <1>1, SeqOfElements
<1>3. n \in Nat
  BY <1>1, SeqOfElements
<1> HIDE DEF n
<1>4. PICK g : PendingRun(g, a, n) /\ r = g[n]
  BY <1>2, <1>3, PendingUnrolled
<1> DEFINE P == {k \in 0..n : PendingOK(g[k], a, out, type)}
<1>5. 0 \in P
  <2>1. g[0] = none
    BY <1>4 DEF PendingRun
  <2>2. out \o <<>> = out
    BY <1>1, NothingAdded
  <2>3. StepTold(none, out, Tools)
    BY <2>2, EmptyIsSeq DEF StepTold, EndOK
  <2>4. PendingOK(none, a, out, type)
    BY <2>3 DEF PendingOK, EndOK, SameTerminal
  <2> HIDE DEF none
  <2> QED
    BY <1>3, <2>1, <2>4
<1>6. ASSUME NEW k \in 1..n, k - 1 \in P PROVE k \in P
  <2>1. PendingOK(g[k - 1], a, out, type)
    BY <1>6
  <2>2. g[k] = PendingStep(g[k - 1], k)
    BY <1>4 DEF PendingRun
  <2>3. k \in DOMAIN a.calls
    BY <1>2
  <2>4. PendingOK(g[k], a, out, type)
    BY <1>1, <2>1, <2>2, <2>3, PendingStepOK
  <2> QED
    BY <2>4
<1> HIDE DEF P
<1>7. n \in P
  BY <1>3, <1>5, <1>6, Steps
<1> QED
  BY <1>4, <1>7 DEF P, PendingOK

-----------------------------------------------------------------------------
(* Responses: the terminal event, and the invariant *)

OfEnd(event, type, output) ==
  /\ IsTerminal(event) /\ event.type = type /\ type \in {"completed", "incomplete"}
  /\ event.output = output /\ event.item = NoItem

\* Apply, of the terminal event.
LEMMA TerminalApplied ==
  ASSUME IdsInv, NEW a, NEW out, NEW type, EndOK(a, out, type),
         NEW output, IsSeq(output), OutputOK(output, type), NEW event, OfEnd(event, type, output),
         NEW b, b = Apply(a, event)
  PROVE  EndOK(b, out, type) /\ b.terminal = type
<1> DEFINE named == [a EXCEPT !.id = IF event.response
                                       THEN FirstNonEmpty(event.responseId, @)
                                       ELSE FirstNonEmpty(@, event.responseId),
                              !.status = FirstNonEmpty(event.respStatus, @),
                              !.usage = IF event.usage # NoUsage THEN event.usage ELSE @]
           told == ApplyMetadata(a, event)
           ended == [told EXCEPT !.terminal = event.type, !.final = event]
<1>1. told = Replaced(named, output)
  BY DEF ApplyMetadata, OfEnd
<1>2. SameCalls(a, named)
  BY DEF SameCalls, AccShape, AccFields, EndOK, Told, CallsOK
<1> HIDE DEF named
<1>3. EndOK(named, out, type)
  BY <1>2, SameCallsEnd
<1>4. EndOK(told, out, type)
  BY <1>1, <1>3, ReplacedEnd
<1>5. b = Replaced(ended, output)
  <2>1. ApplyText(told, event) = told
    BY DEF ApplyText, OfEnd
  <2>2. CaptureOutputItem(told, event.item, event.index) = told
    BY CaptureNothing DEF OfEnd
  <2>3. event.type \notin {"arguments.delta", "arguments.done"}
    BY DEF OfEnd
  <2>4. b = ApplyTerminal(told, event)
    <3> HIDE DEF told
    <3> QED
      BY <2>1, <2>2, <2>3 DEF Apply, told
  <2> HIDE DEF told
  <2> QED
    BY <2>4 DEF ApplyTerminal, OfEnd
<1> HIDE DEF told
<1>6. SameCalls(told, ended)
  BY <1>4 DEF SameCalls, AccShape, AccFields, EndOK, Told, CallsOK
<1>7. ended.terminal = type
  BY <1>4 DEF AccShape, AccFields, EndOK, Told, CallsOK, OfEnd
<1> HIDE DEF ended
<1>8. EndOK(ended, out, type)
  BY <1>4, <1>6, SameCallsEnd
<1>9. EndOK(b, out, type)
  BY <1>5, <1>8, ReplacedEnd
<1>10. SameTerminal(ended, b)
  BY <1>5, <1>8, ReplacedEnd
<1> QED
  BY <1>7, <1>9, <1>10 DEF SameTerminal

\* The converted text of a schema comes before the end.
LEMMA ConvertedEnd ==
  ASSUME NEW a, NEW out, NEW type, EndOK(a, out, type), NEW body,
         NEW converted \in {<<>>, << Frame("output_text.delta", -1, NoItem, body) >>}
  PROVE  EndOK(a, out \o converted, type)
<1> DEFINE e == Frame("output_text.delta", -1, NoItem, body)
<1>1. IsSeq(out)
  BY DEF EndOK, Told, GoesOn
<1>2. CASE converted = <<>>
  BY <1>1, <1>2, NothingAdded
<1>3. CASE converted = <<e>>
  <2>1. out \o converted = Append(out, e)
    BY <1>1, <1>3, OneAdded
  <2>2. e.type = "output_text.delta" /\ e.index = -1 /\ e.item = NoItem
    BY DEF Frame
  <2> HIDE DEF e
  <2>3. e.type \notin EndTypes
    BY <2>2 DEF EndTypes
  <2>4. e.item.kind \notin ToolKinds
    BY <2>2, NoItemIsNoTool
  <2>5. e.type \notin {"output_item.added", "output_item.done"}
    BY <2>2
  <2>6. Told(a, Append(out, e), Tools)
    BY <2>3, <2>4, <2>5, PlainTold DEF EndOK
  <2> QED
    BY <2>1, <2>6 DEF EndOK
<1> QED
  BY <1>2, <1>3

\* responsesStreamEvents, of the terminal event.
LEMMA ResponsesTerminal ==
  ASSUME IdsInv, NEW stream, DOMAIN stream = StreamFields, NEW a, NEW type,
         EndOK(a, stream.out, type), a.terminal = type,
         NEW output, NEW event, OfEnd(event, type, output), NEW tuple \in BOOLEAN,
         NEW r, r = ResponsesEvents(stream, event, a, tuple)
  PROVE  PairsOf(r.stream.out)
<1> DEFINE pending == PendingToolCallCompletionEvents(a)
           body == ReconvertJSONText(stream.tupleText)
           converted == IF tuple /\ stream.tupleText # <<>>
                          THEN << Frame("output_text.delta", -1, NoItem, body) >> ELSE <<>>
           last == ResponseStreamPayload(event, pending.acc, tuple)
           more == stream.out \o converted
           longer == [stream EXCEPT !.out = @ \o converted \o pending.events \o <<last>>]
<1>1. /\ event.type # "output_text.delta" /\ event.type # "output_text.done"
      /\ IsTerminal(event) /\ ToolCallStateForEvent(a, event) = 0
  BY DEF OfEnd, ToolCallStateForEvent
<1>2. r.stream = longer
  BY <1>1 DEF ResponsesEvents
<1>3. longer.out = (more \o pending.events) \o <<last>>
  <2> HIDE DEF converted, pending, last
  <2> QED
    BY DEF StreamFields
<1>4. last.type = type
  <2> HIDE DEF pending
  <2> QED
    BY DEF ResponseStreamPayload, OfEnd
<1>5. converted \in {<<>>, << Frame("output_text.delta", -1, NoItem, body) >>}
  OBVIOUS
<1> HIDE DEF converted, last, longer, body
<1>6. EndOK(a, more, type)
  BY <1>5, ConvertedEnd
<1> HIDE DEF more
<1>7. StepTold(pending, more, Tools)
  BY <1>6, PendingTold
<1> HIDE DEF pending
<1> DEFINE all == more \o pending.events
<1>8. GoesOn(all)
  BY <1>7 DEF StepTold, Told
<1> HIDE DEF all
<1>9. PairsOf(Append(all, last))
  BY <1>4, <1>8, PairsEnded DEF EndTypes, OfEnd
<1>10. all \o <<last>> = Append(all, last)
  BY <1>8, OneAdded DEF GoesOn
<1> QED
  BY <1>2, <1>3, <1>9, <1>10 DEF all

\* The terminal event comes to a Responses stream.
LEMMA PairEnds ==
  ASSUME UpstreamInv, IdsInv, PairInv, endpoint = "responses", NEW output \in Outputs,
         Complete(output) \/ \E reason \in {"max_output_tokens", "content_filter"} : Cut(output, reason)
  PROVE  PairInv'
<1>1. PICK type \in {"completed", "incomplete"}, reason \in Reasons :
        /\ phase = "streaming" /\ Handle(TerminalEvent(type, output, reason)) /\ phase' = "ended"
        /\ type = "completed" => \A i \in DOMAIN scripts : Finished(i)
  BY EndingEvents
<1> DEFINE event == TerminalEvent(type, output, reason)
           b == Apply(acc, event)
           r == ResponsesEvents(writer, event, b, structured)
<1>2. writer' = r.stream
  BY <1>1 DEF Handle, WriteEvent
<1>3. OfEnd(event, type, output)
  BY TerminalEvents DEF OfEnd
<1>4. OutputOK(output, type)
  BY <1>1, OutputsOK
<1>5. IsSeq(output)
  BY OutputsAreSequences
<1>6. DOMAIN writer = StreamFields /\ Told(acc, writer.out, Tools) /\ \A i \in Tools : AsTold(acc, i)
  BY <1>1 DEF PairInv
<1>7. EndOK(acc, writer.out, type)
  BY <1>6 DEF EndOK, AsTold, DoneIfClosed, Ready
<1> HIDE DEF event
<1>8. EndOK(b, writer.out, type)
  BY <1>3, <1>4, <1>5, <1>7, TerminalApplied
<1>9. b.terminal = type
  BY <1>3, <1>4, <1>5, <1>7, TerminalApplied
<1>10. structured \in BOOLEAN
  BY DEF UpstreamInv
<1> HIDE DEF b
<1>11. PairsOf(r.stream.out)
  BY <1>3, <1>6, <1>8, <1>9, <1>10, ResponsesTerminal
<1> HIDE DEF r
<1>12. PairsOf(writer'.out)
  BY <1>2, <1>11
<1> QED
  BY <1>1, <1>12 DEF PairInv

\* The error event ends a Responses stream at any point.
LEMMA PairFail ==
  ASSUME PairInv, endpoint = "responses", Fail
  PROVE  PairInv'
<1> DEFINE e == Frame("error", -1, NoItem, <<>>)
<1>1. DOMAIN writer = StreamFields /\ GoesOn(writer.out) /\ phase' = "failed"
  BY DEF Fail, PairInv, Told
<1>2. writer' = [writer EXCEPT !.out = Append(@, e)]
  BY DEF Fail
<1>3. e.type \in EndTypes
  BY DEF Frame, EndTypes
<1> HIDE DEF e
<1>4. writer'.out = Append(writer.out, e)
  BY <1>1, <1>2 DEF StreamFields
<1>5. PairsOf(writer'.out)
  BY <1>1, <1>3, <1>4, PairsEnded
<1> QED
  BY <1>1, <1>5 DEF PairInv

\* No step takes a Responses stream out of the invariant.
LEMMA PairNext ==
  ASSUME UpstreamInv, IdsInv, PairInv, [Next]_vars
  PROVE  PairInv'
<1>1. endpoint' = endpoint
  BY DEF Next, Begin, Receive, Complete, Cut, Fail, Cancel, Handle, vars
<1>2. CASE endpoint # "responses"
  BY <1>1, <1>2 DEF PairInv
<1>3. CASE endpoint = "responses"
  <2>1. CASE Begin
    BY <1>3, <2>1, PairBegin
  <2>2. ASSUME NEW i \in DOMAIN scripts, Receive(i) PROVE PairInv'
    BY <1>3, <2>2, PairReceive
  <2>3. ASSUME NEW output \in Outputs,
               Complete(output) \/ \E reason \in {"max_output_tokens", "content_filter"} : Cut(output, reason)
        PROVE  PairInv'
    BY <1>3, <2>3, PairEnds
  <2>4. CASE Fail
    BY <1>3, <2>4, PairFail
  <2>5. CASE Cancel
    <3>1. /\ writer' = writer /\ phase' # "streaming"
      BY <2>5 DEF Cancel
    <3> QED
      BY <1>3, <3>1 DEF PairInv
  <2>6. CASE UNCHANGED vars
    <3>1. /\ writer' = writer /\ phase' = phase /\ acc' = acc /\ Tools' = Tools
          /\ \A i : Closed(i)' <=> Closed(i)
      BY <2>6 DEF vars, Tools, Closed
    <3>2. \A i \in Tools : AsTold(acc, i)' <=> AsTold(acc, i)
      BY <3>1 DEF AsTold
    <3> QED
      BY <1>1, <3>1, <3>2 DEF PairInv
  <2> QED
    BY <2>1, <2>2, <2>3, <2>4, <2>5, <2>6 DEF Next
<1> QED
  BY <1>2, <1>3

\* At each index of the Responses stream a call is added once, before its deltas,
\* and done once, after them, and the terminal response is last
\* (responsesStreamEvents, pendingToolCallCompletionEvents).
THEOREM ResponsesPaired == Spec => [](endpoint = "responses" => ToolEventsPaired)
<1>1. Init => UpstreamInv /\ IdsInv /\ PairInv
  BY UpstreamInit, IdsInit, PairInit
<1>2. UpstreamInv /\ IdsInv /\ PairInv /\ [Next]_vars => UpstreamInv' /\ IdsInv' /\ PairInv'
  BY UpstreamNext, IdsNext, PairNext
<1>3. PairInv => (endpoint = "responses" => ToolEventsPaired)
  <2> SUFFICES ASSUME PairsOf(Written) PROVE ToolEventsPaired
    BY DEF PairInv, Written
  <2>1. OnlyLast("completed") /\ OnlyLast("incomplete") /\ OnlyLast("error")
    BY DEF PairsOf, OnlyLast, EndTypes
  <2>2. \A k \in DOMAIN Written : PairedAt(Written, k)
    BY DEF PairsOf
  <2> QED
    BY <2>1, <2>2 DEF PairedAt, ToolTypes, ToolEventsPaired
<1> QED
  BY <1>1, <1>2, <1>3, PTL DEF Spec

\* Whatever the upstream sends, and wherever it stops, the client of any endpoint
\* reads a stream that follows its protocol.
THEOREM StreamsFollowProtocol == Spec => []ProtocolFollowed
<1>1. Init => UpstreamInv
  BY UpstreamInit
<1>2. UpstreamInv /\ [Next]_vars => UpstreamInv'
  BY UpstreamNext
<1>3. UpstreamInv => endpoint \in {"anthropic", "chat", "completions", "responses"}
  BY DEF UpstreamInv
<1>4. /\ endpoint \in {"anthropic", "chat", "completions", "responses"}
      /\ endpoint = "anthropic" => BlocksNested
      /\ endpoint \in {"chat", "completions"} => ChunksOrdered
      /\ endpoint = "responses" => ToolEventsPaired
      => ProtocolFollowed
  BY DEF ProtocolFollowed
<1> QED
  BY <1>1, <1>2, <1>3, <1>4, AnthropicBlocksNested, ChatChunksOrdered, ResponsesPaired, PTL DEF Spec

-----------------------------------------------------------------------------
(* What the upstream tells of an item, in more detail *)

\* The event has the id and the name of its call.
Names(e) == e.item.kind \in ToolKinds \/ e.call # ""

\* The body with which an event ends a tool call.
EndOf(e) == IF e.type = "arguments.done" THEN e.body ELSE e.item.body

\* An event about tool i, which ends with "body".
ToolEvent(e, i, body) ==
  /\ e.item.kind \in ToolKinds => e.item.call = CallId(i) /\ e.item.name = ToolName(i)
  /\ e.item.kind \notin ToolKinds => IF e.call = "" THEN e.name = ""
                                     ELSE e.call = CallId(i) /\ e.name = ToolName(i)
  /\ Closes(e) => EndOf(e) = body
  /\ e.type = "arguments.done" => e.body = Whole

\* Every end of a tool call tells the same, after the call was named.
ToolTold(events, i, body) ==
  /\ body # <<>> /\ \A k \in DOMAIN events : ToolEvent(events[k], i, body)
  /\ events # <<>> => \E j \in DOMAIN events :
       Names(events[j]) /\ \A k \in DOMAIN events : Closes(events[k]) => j <= k

\* An item that is a record, and has a body.
ItemWhole(item) == item.body # <<>> /\ item = [f \in DOMAIN item |-> item[f]]

\* An item that is no tool call is done with its last event, which has all of it.
ItemDoneLast(events) ==
  \A k \in DOMAIN events : events[k].type = "output_item.done" =>
    k = Len(events) /\ ItemWhole(events[k].item)

\* What is told of an item, by its kind.
ItemTold(script, i) ==
  IF script.kind \in ToolKinds THEN \E body : ToolTold(script.events, i, body)
  ELSE ItemDoneLast(script.events)

\* Events of one tool, of which the first or the second names the call.
LEMMA ToldOfTuples ==
  ASSUME NEW i, NEW body, body # <<>>, NEW a, NEW b, NEW c, NEW d, NEW e,
         ToolEvent(a, i, body), ToolEvent(b, i, body), ToolEvent(c, i, body),
         ToolEvent(d, i, body), ToolEvent(e, i, body)
  PROVE  /\ Names(a) => /\ ToolTold(<<a>>, i, body) /\ ToolTold(<<a, b, c>>, i, body)
                        /\ ToolTold(<<a, b, c, d>>, i, body) /\ ToolTold(<<a, b, c, d, e>>, i, body)
         /\ Names(b) /\ ~Closes(a) => ToolTold(<<a, b, c, d, e>>, i, body)
<1> DEFINE OK(x) == ToolEvent(x, i, body)
           Fine(s) == ToolTold(s, i, body)
           Named(s, n) == Names(s[1]) \/ (n > 1 /\ Names(s[2]) /\ ~Closes(s[1]))
<1>1. ASSUME NEW s, NEW n \in 1..5, Tuples(s, n), \A k \in 1..n : OK(s[k]), Named(s, n)
      PROVE  Fine(s)
  <2>1. DOMAIN s = 1..n
    BY <1>1 DEF Tuples
  <2> DEFINE Early(j) == Names(s[j]) /\ \A k \in 1..n : Closes(s[k]) => j <= k
  <2>2. CASE Names(s[1])
    <3>1. 1 \in 1..n /\ \A k \in 1..n : 1 <= k
      OBVIOUS
    <3> QED
      BY <1>1, <2>1, <2>2, <3>1 DEF ToolTold
  <2>3. CASE n > 1 /\ Names(s[2]) /\ ~Closes(s[1])
    <3>1. 2 \in 1..n /\ \A k \in 1..n : k # 1 => 2 <= k
      <4> HIDE DEF OK, Fine, Named
      <4> QED
        BY <2>3
    <3>2. Early(2)
      BY <2>3, <3>1
    <3> QED
      BY <1>1, <2>1, <3>1, <3>2 DEF ToolTold
  <2> QED
    BY <1>1, <2>2, <2>3
<1>2. /\ Tuples(<<a>>, 1) /\ Tuples(<<a, b, c>>, 3) /\ Tuples(<<a, b, c, d>>, 4)
      /\ Tuples(<<a, b, c, d, e>>, 5)
  BY TuplesOf
<1>3. OK(a) /\ OK(b) /\ OK(c) /\ OK(d) /\ OK(e)
  OBVIOUS
<1> HIDE DEF OK, Fine
<1>4. ASSUME Names(a) PROVE Fine(<<a>>) /\ Fine(<<a, b, c>>) /\ Fine(<<a, b, c, d>>)
  <2>1. \A k \in 1..1 : OK(<<a>>[k])
    BY <1>3
  <2>2. \A k \in 1..3 : OK(<<a, b, c>>[k])
    BY <1>3
  <2>3. \A k \in 1..4 : OK(<<a, b, c, d>>[k])
    BY <1>3
  <2>4. Named(<<a>>, 1) /\ Named(<<a, b, c>>, 3) /\ Named(<<a, b, c, d>>, 4)
    BY <1>4
  <2> HIDE DEF Named
  <2>5. Fine(<<a>>)
    BY <1>1, <1>2, <2>1, <2>4
  <2>6. Fine(<<a, b, c>>)
    BY <1>1, <1>2, <2>2, <2>4
  <2>7. Fine(<<a, b, c, d>>)
    BY <1>1, <1>2, <2>3, <2>4
  <2> QED
    BY <2>5, <2>6, <2>7
<1>5. ASSUME Names(a) \/ (Names(b) /\ ~Closes(a)) PROVE Fine(<<a, b, c, d, e>>)
  <2>1. \A k \in 1..5 : OK(<<a, b, c, d, e>>[k])
    BY <1>3
  <2>2. Named(<<a, b, c, d, e>>, 5)
    BY <1>5
  <2> HIDE DEF Named
  <2> QED
    BY <1>1, <1>2, <2>1, <2>2
<1> QED
  BY <1>4, <1>5 DEF Fine

\* Every way in which a tool call may come.
LEMMA ToolsTold ==
  ASSUME NEW kind \in ToolKinds, NEW i, CallId(i) # "", NEW events \in ToolScripts(kind, i)
  PROVE  \E body : ToolTold(events, i, body)
<1> DEFINE D(chunk, named) == Fragment("arguments.delta", kind, i, <<chunk>>, named)
           Args(named) == Fragment("arguments.done", kind, i, Whole, named)
           done == Done(kind, i, Whole, "completed")
           cut == Done(kind, i, <<1>>, "incomplete")
           new == Added(kind, i, <<>>)
           late == Added(kind, i, <<1>>)
           OK(e, body) == ToolEvent(e, i, body)
<1>1. /\ \A body : OK(new, body) /\ OK(late, body)
      /\ OK(done, Whole) /\ OK(cut, <<1>>)
      /\ Names(new) /\ Names(late) /\ Names(done) /\ Names(cut)
  BY DEF Added, Done, ItemEvent, Item, NoEvent, NoItem, ToolEvent, Closes, EndOf, Names
<1>2. \A body : OK(D(1, FALSE), body) /\ OK(D(2, FALSE), body)
  BY NoItemIsNoTool DEF Fragment, NoEvent, ToolEvent, Closes
<1>3. \A body : OK(D(1, TRUE), body) /\ OK(D(2, TRUE), body)
  BY NoItemIsNoTool DEF Fragment, NoEvent, ToolEvent, Closes
<1>4. OK(Args(FALSE), Whole) /\ OK(Args(TRUE), Whole)
  BY NoItemIsNoTool DEF Fragment, NoEvent, ToolEvent, Closes, EndOf
<1>5. Names(D(1, TRUE)) /\ ~Closes(D(1, FALSE))
  BY DEF Fragment, NoEvent, Names, Closes
<1>6. Whole # <<>> /\ <<1>> # <<>>
  BY DEF Whole
<1>7. events \in {<<new, D(1, FALSE), D(2, FALSE), Args(FALSE), done>>,
                  <<new, D(1, FALSE), D(2, FALSE), Args(FALSE)>>,
                  <<new, D(1, FALSE), done>>, <<D(1, TRUE), D(2, TRUE), Args(TRUE)>>,
                  <<done>>, <<>>, <<D(1, FALSE), late, D(2, FALSE), Args(FALSE), done>>,
                  <<new, D(1, FALSE), cut>>}
  BY DEF ToolScripts
<1> DEFINE Fine(s, body) == ToolTold(s, i, body)
<1>8. ASSUME NEW body, body # <<>>, NEW a, NEW b, NEW c, NEW d, NEW e,
             OK(a, body), OK(b, body), OK(c, body), OK(d, body), OK(e, body)
      PROVE  /\ Names(a) => /\ Fine(<<a>>, body) /\ Fine(<<a, b, c>>, body)
                            /\ Fine(<<a, b, c, d>>, body) /\ Fine(<<a, b, c, d, e>>, body)
             /\ Names(b) /\ ~Closes(a) => Fine(<<a, b, c, d, e>>, body)
  BY <1>8, ToldOfTuples
<1>9. Fine(<<>>, Whole)
  BY <1>6, EmptyIsSeq DEF ToolTold
<1> HIDE DEF D, Args, done, cut, new, late, OK, Fine
<1>10. Fine(<<new, D(1, FALSE), D(2, FALSE), Args(FALSE), done>>, Whole)
  BY <1>1, <1>2, <1>4, <1>6, <1>8
<1>11. Fine(<<new, D(1, FALSE), D(2, FALSE), Args(FALSE)>>, Whole)
  BY <1>1, <1>2, <1>4, <1>6, <1>8
<1>12. Fine(<<new, D(1, FALSE), done>>, Whole)
  BY <1>1, <1>2, <1>4, <1>6, <1>8
<1>13. Fine(<<D(1, TRUE), D(2, TRUE), Args(TRUE)>>, Whole)
  BY <1>3, <1>4, <1>5, <1>6, <1>8
<1>14. Fine(<<done>>, Whole)
  BY <1>1, <1>6, <1>8
<1>15. Fine(<<D(1, FALSE), late, D(2, FALSE), Args(FALSE), done>>, Whole)
  BY <1>1, <1>2, <1>4, <1>5, <1>6, <1>8
<1>16. Fine(<<new, D(1, FALSE), cut>>, <<1>>)
  BY <1>1, <1>2, <1>6, <1>8
<1>17. \E body : Fine(events, body)
  BY <1>7, <1>9, <1>10, <1>11, <1>12, <1>13, <1>14, <1>15, <1>16
<1> QED
  BY <1>17 DEF Fine

\* Whatever is no end of an item, and the end as the last.
LEMMA DoneLastOfTuples ==
  ASSUME NEW a, NEW b, NEW c, NEW d, NEW e,
         a.type # "output_item.done", b.type # "output_item.done", c.type # "output_item.done",
         d.type # "output_item.done", e.type = "output_item.done", ItemWhole(e.item)
  PROVE  /\ ItemDoneLast(<<>>) /\ ItemDoneLast(<<a>>) /\ ItemDoneLast(<<a, b>>)
         /\ ItemDoneLast(<<e>>) /\ ItemDoneLast(<<a, b, e>>) /\ ItemDoneLast(<<a, b, c, e>>)
         /\ ItemDoneLast(<<a, b, c, d, e>>)
<1>1. ItemDoneLast(<<>>)
  BY EmptyIsSeq DEF ItemDoneLast
<1>2. ASSUME NEW s, NEW n \in 1..5, Tuples(s, n), \A k \in 1..(n - 1) : s[k].type # "output_item.done",
             s[n].type = "output_item.done" => ItemWhole(s[n].item)
      PROVE  ItemDoneLast(s)
  <2>1. \A k \in 1..n : k = n \/ k \in 1..(n - 1)
    OBVIOUS
  <2> QED
    BY <1>2, <2>1 DEF ItemDoneLast, Tuples
<1>3. Tuples(<<a>>, 1) /\ Tuples(<<e>>, 1)
  BY TuplesOf
<1>4. ItemDoneLast(<<a>>) /\ ItemDoneLast(<<e>>)
  <2>1. \A s : \A k \in 1..(1 - 1) : s[k].type # "output_item.done"
    OBVIOUS
  <2> QED
    BY <1>2, <1>3, <2>1
<1>5. ItemDoneLast(<<a, b>>)
  <2>1. Tuples(<<a, b>>, 2)
    BY TuplesOf
  <2>2. \A k \in 1..(2 - 1) : <<a, b>>[k].type # "output_item.done"
    OBVIOUS
  <2> QED
    BY <1>2, <2>1, <2>2
<1>6. ItemDoneLast(<<a, b, e>>)
  <2>1. Tuples(<<a, b, e>>, 3)
    BY TuplesOf
  <2>2. \A k \in 1..(3 - 1) : <<a, b, e>>[k].type # "output_item.done"
    OBVIOUS
  <2> QED
    BY <1>2, <2>1, <2>2
<1>7. ItemDoneLast(<<a, b, c, e>>)
  <2>1. Tuples(<<a, b, c, e>>, 4)
    BY TuplesOf
  <2>2. \A k \in 1..(4 - 1) : <<a, b, c, e>>[k].type # "output_item.done"
    OBVIOUS
  <2> QED
    BY <1>2, <2>1, <2>2
<1>8. ItemDoneLast(<<a, b, c, d, e>>)
  <2>1. Tuples(<<a, b, c, d, e>>, 5)
    BY TuplesOf
  <2>2. \A k \in 1..(5 - 1) : <<a, b, c, d, e>>[k].type # "output_item.done"
    OBVIOUS
  <2> QED
    BY <1>2, <2>1, <2>2
<1> QED
  BY <1>1, <1>4, <1>5, <1>6, <1>7, <1>8

\* Every way in which any other item may come.
LEMMA OthersTold ==
  ASSUME NEW kind \in ItemKinds \ ToolKinds, NEW i, NEW events \in Scripts(kind, i)
  PROVE  ItemDoneLast(events)
<1> DEFINE Piece(chunk) == Fragment("output_text.delta", kind, i, <<chunk>>, FALSE)
           whole == Fragment("output_text.done", kind, i, Whole, FALSE)
           Thought(chunk) == Fragment("reasoning_summary_text.delta", kind, i, <<chunk>>, FALSE)
           told == Fragment("reasoning_summary_text.done", kind, i, Whole, FALSE)
           signed == [told EXCEPT !.sig = "sig"]
           partial(n) == Fragment("partial_image", kind, i, <<n>>, FALSE)
           new == Added(kind, i, <<>>)
           done == Done(kind, i, Whole, "completed")
           unsigned == Done(kind, i, Whole, "")
           Goes(e) == e.type # "output_item.done"
           Ends(e) == e.type = "output_item.done" /\ ItemWhole(e.item)
<1>1. Goes(Piece(1)) /\ Goes(Piece(2)) /\ Goes(whole) /\ Goes(Thought(1)) /\ Goes(Thought(2))
      /\ Goes(signed) /\ Goes(partial(1)) /\ Goes(partial(2))
  BY DEF Fragment, NoEvent
<1>2. Goes(new)
  BY DEF Added, ItemEvent, NoEvent
<1>3. Ends(done) /\ Ends(unsigned)
  <2>1. ASSUME NEW status PROVE ItemWhole(Item(kind, i, Whole, status))
    <3> DEFINE item == Item(kind, i, Whole, status)
    <3>1. item.body # <<>>
      BY DEF Item, NoItem, Whole
    <3>2. item = [f \in DOMAIN item |-> item[f]]
      BY DEF Item
    <3> QED
      BY <3>1, <3>2 DEF ItemWhole
  <2>2. /\ done.type = "output_item.done" /\ done.item = Item(kind, i, Whole, "completed")
        /\ unsigned.type = "output_item.done" /\ unsigned.item = Item(kind, i, Whole, "")
    BY DEF Done, ItemEvent, NoEvent
  <2> HIDE DEF done, unsigned
  <2> QED
    BY <2>1, <2>2
<1>4. events \in {<<new, Piece(1), Piece(2), whole, done>>, <<Piece(1), Piece(2)>>, <<whole>>, <<>>,
                  <<new, Thought(1), Thought(2), done>>, <<Thought(1), Thought(2), signed, done>>,
                  <<Thought(1), Thought(2), unsigned>>,
                  <<partial(1), partial(2), done>>, <<done>>}
  <2>1. CASE kind = "message"
    BY <2>1 DEF Scripts, ToolKinds, MessageScripts
  <2>2. CASE kind = "reasoning"
    BY <2>2 DEF Scripts, ToolKinds, ReasoningScripts
  <2>3. CASE kind = "image_generation_call"
    BY <2>3 DEF Scripts, ToolKinds, ImageScripts
  <2>4. CASE kind = "web_search_call"
    BY <2>4 DEF Scripts, ToolKinds
  <2> QED
    BY <2>1, <2>2, <2>3, <2>4 DEF ItemKinds
<1>5. ASSUME NEW a, NEW b, NEW c, NEW d, NEW e, Goes(a), Goes(b), Goes(c), Goes(d), Ends(e)
      PROVE  /\ ItemDoneLast(<<>>) /\ ItemDoneLast(<<a>>) /\ ItemDoneLast(<<a, b>>)
             /\ ItemDoneLast(<<e>>) /\ ItemDoneLast(<<a, b, e>>) /\ ItemDoneLast(<<a, b, c, e>>)
             /\ ItemDoneLast(<<a, b, c, d, e>>)
  BY <1>5, DoneLastOfTuples
<1> HIDE DEF Piece, whole, Thought, signed, partial, new, done, unsigned, Goes, Ends
<1>6. ItemDoneLast(<<new, Piece(1), Piece(2), whole, done>>)
  BY <1>1, <1>2, <1>3, <1>5
<1>7. ItemDoneLast(<<Piece(1), Piece(2)>>) /\ ItemDoneLast(<<whole>>) /\ ItemDoneLast(<<>>)
  BY <1>1, <1>3, <1>5
<1>8. ItemDoneLast(<<new, Thought(1), Thought(2), done>>)
  BY <1>1, <1>2, <1>3, <1>5
<1>9. ItemDoneLast(<<Thought(1), Thought(2), signed, done>>)
  BY <1>1, <1>3, <1>5
<1>10. ItemDoneLast(<<Thought(1), Thought(2), unsigned>>)
  BY <1>1, <1>3, <1>5
<1>11. ItemDoneLast(<<partial(1), partial(2), done>>) /\ ItemDoneLast(<<done>>)
  BY <1>1, <1>3, <1>5
<1> QED
  BY <1>4, <1>6, <1>7, <1>8, <1>9, <1>10, <1>11

\* The items of a plan come so, each with an id of its own.
ToldInv ==
  /\ \A i \in DOMAIN scripts : ItemTold(scripts[i], i)
  /\ \A i, j \in DOMAIN scripts : ItemId(i) # "" /\ (i # j => ItemId(i) # ItemId(j))

\* Every plan is told so, with every set of ids,
LEMMA ToldInit ==
  ASSUME Init
  PROVE  ToldInv
<1>1. PICK plan \in Plans :
        scripts \in {s \in [DOMAIN plan -> UNION {ScriptsOf(plan[i], i) : i \in DOMAIN plan}] :
                       \A i \in DOMAIN plan : s[i] \in ScriptsOf(plan[i], i)}
  BY DEF Init
<1>2. plan \in Seq(ItemKinds)
  BY PlansAssumption
<1>3. DOMAIN scripts = DOMAIN plan /\ \A i \in DOMAIN plan : plan[i] \in ItemKinds
  BY <1>1, <1>2, LenProperties
<1>4. \A i, j \in DOMAIN plan : ItemId(i) # "" /\ CallId(i) # "" /\ (i # j => ItemId(i) # ItemId(j))
  BY IdsAssumption DEF ItemId, CallId
<1>5. ASSUME NEW i \in DOMAIN plan PROVE ItemTold(scripts[i], i)
  <2> DEFINE kind == plan[i]
  <2>1. PICK events \in Scripts(kind, i) : scripts[i] = [kind |-> kind, events |-> events]
    BY <1>1 DEF ScriptsOf
  <2>2. scripts[i].kind = kind /\ scripts[i].events = events
    BY <2>1
  <2>3. kind \in ItemKinds
    BY <1>3
  <2> HIDE DEF kind
  <2>4. CASE kind \in ToolKinds
    <3>1. events \in ToolScripts(kind, i)
      BY <2>1, <2>4 DEF Scripts, ToolKinds
    <3>2. \E body : ToolTold(events, i, body)
      BY <1>4, <2>4, <3>1, ToolsTold
    <3> QED
      BY <2>2, <2>4, <3>2 DEF ItemTold
  <2>5. CASE kind \notin ToolKinds
    <3>1. ItemDoneLast(events)
      BY <2>3, <2>5, OthersTold
    <3> QED
      BY <2>2, <2>5, <3>1 DEF ItemTold
  <2> QED
    BY <2>4, <2>5
<1> QED
  BY <1>3, <1>4, <1>5 DEF ToldInv

\* ... and no step changes what the upstream will tell.
LEMMA ToldNext ==
  ASSUME ToldInv, [Next]_vars
  PROVE  ToldInv'
<1>1. scripts' = scripts
  BY DEF Next, vars, Begin, Receive, Complete, Cut, Fail, Cancel, Handle
<1>2. \A i : ItemTold(scripts[i], i)' <=> ItemTold(scripts[i], i)
  BY <1>1 DEF ItemTold, ToolTold, ToolEvent, ItemDoneLast, Names, EndOf, Closes, CallId, ToolName
<1> QED
  BY <1>1, <1>2 DEF ToldInv, ItemId

-----------------------------------------------------------------------------
(* The items that the accumulator has captured *)

EntryFields == {"key", "keyIndex", "index", "item"}

\* Every entry has its place.
ItemsOK(items) ==
  IsSeq(items) /\ \A m \in DOMAIN items : DOMAIN items[m] = EntryFields /\ items[m].index \in Nat

\* The item has an id.
HasId(item) == item.id # ""

\* An event without an item has no id of one.
LEMMA NoItemHasNoId == ~HasId(NoItem)
  BY DEF HasId, NoItem

\* The item is there, under its id.
Holds(items, item) == \E m \in DOMAIN items : items[m].key = item.id /\ items[m].item = item

\* The items of other ids stay.
HoldsOthers(before, after, id) ==
  \A x : x.id # id /\ Holds(before, x) => Holds(after, x)

\* An entry whose item is replaced.
ItemSet(e, index, item) == [e EXCEPT !.index = index, !.item = item]

\* captureOutputItem keeps the last item of an id, and those of other ids.
LEMMA CaptureHolds ==
  ASSUME NEW a, AccShape(a), ItemsOK(a.items), NEW item, item.kind \notin ToolKinds, HasId(item),
         NEW explicitIndex \in Nat, NEW b, b = CaptureOutputItem(a, item, explicitIndex)
  PROVE  ItemsOK(b.items) /\ Holds(b.items, item) /\ HoldsOthers(a.items, b.items, item.id)
<1> DEFINE index == ResolvedIndex(a, explicitIndex)
           next == AfterIndex(a, explicitIndex)
           same == {i \in DOMAIN a.items : SameOutputItem(a.items[i], item, index)}
           entry == [key |-> item.id, keyIndex |-> index, index |-> index, item |-> item]
           kept == [i \in DOMAIN a.items |->
                      IF i \in same THEN ItemSet(a.items[i], index, item) ELSE a.items[i]]
<1>1. item # NoItem
  BY NoItemHasNoId
<1>2. index \in Nat
  BY DEF ResolvedIndex
<1>3. \A i \in DOMAIN a.items : i \in same <=> a.items[i].key = item.id
  BY DEF SameOutputItem, HasId
<1>4. ASSUME NEW e, DOMAIN e = EntryFields
      PROVE  /\ DOMAIN ItemSet(e, index, item) = EntryFields /\ ItemSet(e, index, item).key = e.key
             /\ ItemSet(e, index, item).index = index /\ ItemSet(e, index, item).item = item
  BY <1>4 DEF ItemSet, EntryFields
<1>5. CASE same # {}
  <2>1. b = [a EXCEPT !.items = kept, !.next = next]
    BY <1>1, <1>5 DEF CaptureOutputItem, ItemSet
  <2> HIDE DEF next, kept
  <2>2. b.items = kept
    BY <2>1 DEF AccShape, AccFields
  <2>3. DOMAIN a.items = 1..Len(a.items) /\ Len(a.items) \in Nat
    BY SeqOfElements DEF ItemsOK
  <2>4. DOMAIN kept = DOMAIN a.items /\ kept = [k \in 1..Len(a.items) |-> kept[k]]
    BY <2>3 DEF kept
  <2>5. IsSeq(kept)
    BY <2>3, <2>4 DEF IsSeq
  <2>6. \A i \in DOMAIN a.items : kept[i] = IF i \in same THEN ItemSet(a.items[i], index, item) ELSE a.items[i]
    BY DEF kept
  <2> HIDE DEF same, index
  <2>7. ItemsOK(kept)
    <3>1. ASSUME NEW i \in DOMAIN kept PROVE DOMAIN kept[i] = EntryFields /\ kept[i].index \in Nat
      <4>1. DOMAIN a.items[i] = EntryFields /\ a.items[i].index \in Nat
        BY <2>4 DEF ItemsOK
      <4>2. CASE i \in same
        <5>1. kept[i] = ItemSet(a.items[i], index, item)
          BY <2>4, <2>6, <4>2
        <5> HIDE DEF kept
        <5> QED
          BY <1>2, <1>4, <4>1, <5>1
      <4>3. CASE i \notin same
        BY <2>4, <2>6, <4>1, <4>3
      <4> QED
        BY <4>2, <4>3
    <3> HIDE DEF kept
    <3> QED
      BY <2>5, <3>1 DEF ItemsOK
  <2>8. Holds(kept, item)
    <3>1. PICK i \in same : TRUE
      BY <1>5
    <3>2. i \in DOMAIN a.items
      BY <3>1 DEF same
    <3> QED
      BY <1>3, <1>4, <2>4, <2>6, <3>1, <3>2 DEF ItemsOK, Holds
  <2>9. HoldsOthers(a.items, kept, item.id)
    BY <1>3, <2>4, <2>6 DEF HoldsOthers, Holds
  <2> QED
    BY <2>2, <2>7, <2>8, <2>9
<1>6. CASE same = {}
  <2>1. b = [a EXCEPT !.items = Append(@, entry), !.next = next]
    BY <1>1, <1>6 DEF CaptureOutputItem
  <2>2. DOMAIN entry = EntryFields /\ entry.key = item.id /\ entry.index = index /\ entry.item = item
    BY DEF EntryFields
  <2> HIDE DEF next, entry, same
  <2>3. b.items = Append(a.items, entry)
    BY <2>1 DEF AccShape, AccFields
  <2> DEFINE more == Append(a.items, entry)
             n == Len(a.items)
  <2>4. /\ IsSeq(more) /\ n \in Nat /\ DOMAIN a.items = 1..n /\ DOMAIN more = 1..(n + 1)
        /\ more[n + 1] = entry /\ \A k \in 1..n : more[k] = a.items[k]
    BY Appended DEF ItemsOK
  <2> HIDE DEF more, n, index
  <2>5. \A k \in 1..(n + 1) : k \in 1..n \/ k = n + 1
    BY <2>4
  <2>6. n + 1 \in 1..(n + 1) /\ \A k \in 1..n : k \in 1..(n + 1)
    BY <2>4
  <2>7. ItemsOK(more)
    BY <1>2, <2>2, <2>4, <2>5 DEF ItemsOK
  <2>8. Holds(more, item)
    BY <2>2, <2>4, <2>6 DEF Holds
  <2>9. HoldsOthers(a.items, more, item.id)
    BY <2>4, <2>6 DEF HoldsOthers, Holds
  <2> QED
    BY <2>3, <2>7, <2>8, <2>9 DEF more
<1> QED
  BY <1>5, <1>6

\* The texts of an event leave the items.
LEMMA TextLeavesItems ==
  ASSUME NEW a, AccShape(a), NEW event, event.output = <<>>
  PROVE  ApplyText(ApplyMetadata(a, event), event).items = a.items
<1> DEFINE named == [a EXCEPT !.id = IF event.response
                                       THEN FirstNonEmpty(event.responseId, @)
                                       ELSE FirstNonEmpty(@, event.responseId),
                              !.status = FirstNonEmpty(event.respStatus, @),
                              !.usage = IF event.usage # NoUsage THEN event.usage ELSE @]
<1>1. ApplyMetadata(a, event) = named
  BY DEF ApplyMetadata, Replaced
<1>2. DOMAIN named = AccFields /\ named.items = a.items
  BY DEF AccShape, AccFields
<1> HIDE DEF named
<1>3. ApplyText(named, event).items = named.items
  BY <1>2 DEF ApplyText, AccFields
<1> QED
  BY <1>1, <1>2, <1>3

\* An event about no tool captures its item, if it has one.
LEMMA ApplyHolds ==
  ASSUME NEW a, AccShape(a), ItemsOK(a.items), NEW event, event.output = <<>>, ~IsTerminal(event),
         event.type \notin {"arguments.delta", "arguments.done"}, event.item.kind \notin ToolKinds,
         event.item # NoItem => HasId(event.item) /\ event.index \in Nat,
         NEW b, b = Apply(a, event)
  PROVE  /\ ItemsOK(b.items)
         /\ event.item = NoItem => b.items = a.items
         /\ event.item # NoItem => Holds(b.items, event.item) /\ HoldsOthers(a.items, b.items, event.item.id)
<1> DEFINE told == ApplyText(ApplyMetadata(a, event), event)
<1>1. b = CaptureOutputItem(told, event.item, event.index)
  BY DEF Apply, ApplyTerminal
<1>2. AccShape(told)
  BY TextSame DEF SameCalls
<1>3. told.items = a.items
  BY TextLeavesItems
<1> HIDE DEF told
<1>4. CASE event.item = NoItem
  <2>1. b = told
    BY <1>1, <1>4, CaptureNothing
  <2> QED
    BY <1>3, <1>4, <2>1
<1>5. CASE event.item # NoItem
  BY <1>1, <1>2, <1>3, <1>5, CaptureHolds
<1> QED
  BY <1>4, <1>5

-----------------------------------------------------------------------------
(* The output of the one-shot response *)

\* Ordering loses no entry.
LEMMA OrderedHasAll ==
  ASSUME NEW entries, IsSeq(entries),
         \A j \in DOMAIN entries : entries[j].index \in Nat /\ entries[j].order = j
  PROVE  /\ DOMAIN Ordered(entries) = DOMAIN entries /\ Len(entries) \in Nat
         /\ \A i \in DOMAIN entries : \E n \in DOMAIN entries : Ordered(entries)[n] = entries[i]
<1> DEFINE N == Len(entries)
           Less(j, i) == entries[j].index < entries[i].index \/ (entries[j].index = entries[i].index /\ j < i)
           Upto(i) == {j \in DOMAIN entries : j = i \/ OutputEntryBefore(entries[j], entries[i])}
           Chosen(n) == CHOOSE i \in DOMAIN entries : Cardinality(Upto(i)) = n
<1>1. N \in Nat /\ DOMAIN entries = 1..N
  BY SeqOfElements
<1>2. DOMAIN Ordered(entries) = 1..N /\ \A n \in 1..N : Ordered(entries)[n] = entries[Chosen(n)]
  BY DEF Ordered
<1>3. \A i, j \in 1..N : j \in Upto(i) <=> j = i \/ Less(j, i)
  BY <1>1 DEF OutputEntryBefore
<1>4. \A i \in 1..N : Upto(i) \in SUBSET (1..N)
  BY <1>1
<1>5. /\ \A i, j \in 1..N : i # j => Less(i, j) \/ Less(j, i)
      /\ \A i, j \in 1..N : Less(i, j) => j # i /\ ~Less(j, i)
      /\ \A i, j, k \in 1..N : Less(i, j) /\ Less(j, k) => Less(i, k)
  <2> DEFINE x == [k \in 1..N |-> entries[k].index]
  <2>1. x \in [1..N -> Nat] /\ \A k \in 1..N : entries[k].index = x[k]
    BY <1>1
  <2> HIDE DEF x
  <2> QED
    BY <2>1
<1> HIDE DEF Less, Upto, N
<1>6. ASSUME NEW i \in 1..N
      PROVE  IsFiniteSet(Upto(i)) /\ Cardinality(Upto(i)) \in 1..N
  <2>1. IsFiniteSet(1..N) /\ Cardinality(1..N) = N
    BY <1>1, FS_Interval
  <2>2. IsFiniteSet(Upto(i)) /\ Cardinality(Upto(i)) <= N
    <3> DEFINE S == Upto(i)
               T == 1..N
    <3>1. S \in SUBSET T /\ IsFiniteSet(T) /\ Cardinality(T) = N
      BY <1>4, <2>1
    <3> HIDE DEF S, T
    <3>2. IsFiniteSet(S) /\ Cardinality(S) <= N
      BY <3>1, FS_Subset
    <3> QED
      BY <3>2 DEF S
  <2>3. Cardinality(Upto(i)) \in Nat
    BY <2>2, FS_CardinalityType
  <2>4. Cardinality(Upto(i)) # 0
    BY <1>3, <2>2, FS_EmptySet
  <2> QED
    BY <1>1, <2>2, <2>3, <2>4
<1>7. ASSUME NEW i \in 1..N, NEW j \in 1..N, Less(i, j)
      PROVE  Cardinality(Upto(i)) # Cardinality(Upto(j))
  <2>1. Upto(i) \in SUBSET Upto(j)
    BY <1>3, <1>4, <1>5, <1>7
  <2>2. j \in Upto(j) /\ j \notin Upto(i)
    BY <1>3, <1>5, <1>7
  <2> QED
    BY <1>6, <2>1, <2>2, FS_Subset
<1>8. \A i, j \in 1..N : Cardinality(Upto(i)) = Cardinality(Upto(j)) => i = j
  BY <1>5, <1>7
<1>9. ASSUME NEW i \in 1..N PROVE \E n \in 1..N : Ordered(entries)[n] = entries[i]
  <2> DEFINE n == Cardinality(Upto(i))
  <2>1. n \in 1..N
    BY <1>6
  <2>2. Chosen(n) \in 1..N /\ Cardinality(Upto(Chosen(n))) = n
    BY <1>1
  <2>3. Chosen(n) = i
    BY <1>8, <2>2
  <2> QED
    BY <1>2, <2>1, <2>3
<1> QED
  BY <1>1, <1>2, <1>9 DEF N

\* What ResponsesOutput makes of an item.
FilledItem(item, text, ending) ==
  IF item.kind = "message"
    THEN [item EXCEPT !.body = FirstBody(@, text), !.status = FirstNonEmpty(@, ending)]
    ELSE item

\* ResponsesOutput has every call, with some status, and every item, filled.
LEMMA OutputHasAll ==
  ASSUME NEW a, IsSeq(a.calls), \A at \in DOMAIN a.calls : a.calls[at].index \in Nat, ItemsOK(a.items),
         NEW out, out = ResponsesOutput(a)
  PROVE  /\ \A at \in DOMAIN a.calls : \E n \in DOMAIN out : \E status :
              out[n] = ResponseOutputItem(a.calls[at], status)
         /\ \A m \in DOMAIN a.items : \E n \in DOMAIN out : \E text, ending :
              out[n] = FilledItem(a.items[m].item, text, ending)
<1> DEFINE text == Text(a)
           ending == IF Incomplete(a) THEN "incomplete" ELSE "completed"
           Status(call) == IF Incomplete(a) THEN FirstNonEmpty(call.status, "incomplete") ELSE "completed"
           calls == [i \in DOMAIN a.calls |->
                       [index |-> a.calls[i].index, order |-> i,
                        item |-> ResponseOutputItem(a.calls[i], Status(a.calls[i]))]]
           items == [i \in DOMAIN a.items |->
                       [index |-> a.items[i].index, order |-> Len(a.calls) + i,
                        item |-> FilledItem(a.items[i].item, text, ending)]]
           all == calls \o items
           entries == Ordered(all)
           N == Len(a.calls)
           M == Len(a.items)
<1>1. entries # <<>> => out = [i \in DOMAIN entries |-> entries[i].item]
  BY DEF ResponsesOutput, FilledItem
<1>2. N \in Nat /\ DOMAIN a.calls = 1..N /\ M \in Nat /\ DOMAIN a.items = 1..M
  BY SeqOfElements DEF ItemsOK
<1>3. DOMAIN calls = 1..N /\ DOMAIN items = 1..M
  BY <1>2
<1>4. \A i \in 1..N : calls[i].index = a.calls[i].index /\ calls[i].order = i
                      /\ calls[i].item = ResponseOutputItem(a.calls[i], Status(a.calls[i]))
  BY <1>2
<1>5. \A i \in 1..M : items[i].index = a.items[i].index /\ items[i].order = N + i
                      /\ items[i].item = FilledItem(a.items[i].item, text, ending)
  BY <1>2
<1> HIDE DEF calls, items, N, M, text, ending, Status
<1>6. calls = [k \in 1..N |-> calls[k]] /\ items = [k \in 1..M |-> items[k]]
  BY <1>3 DEF calls, items
<1>7. IsSeq(calls) /\ IsSeq(items) 
  BY <1>2, <1>6 DEF IsSeq
<1>8. Len(calls) = N /\ Len(items) = M
  BY <1>2, <1>3, <1>7, SeqOfElements
<1>9. /\ IsSeq(all) /\ DOMAIN all = 1..(N + M)
      /\ \A k \in 1..N : all[k] = calls[k]
      /\ \A k \in 1..M : all[N + k] = items[k]
  BY <1>7, <1>8, Concatenated
<1> HIDE DEF all, entries
<1>10. ASSUME NEW j \in 1..(N + M) PROVE all[j].index \in Nat /\ all[j].order = j
  <2>1. CASE j \in 1..N
    BY <1>2, <1>4, <1>9, <2>1
  <2>2. CASE j - N \in 1..M
    <3>1. j = N + (j - N)
      BY <1>2
    <3>2. all[j] = items[j - N]
      BY <1>9, <2>2, <3>1
    <3>3. items[j - N].index \in Nat /\ items[j - N].order = j
      BY <1>2, <1>5, <2>2, <3>1 DEF ItemsOK
    <3> QED
      BY <3>2, <3>3
  <2> QED
    BY <1>2, <2>1, <2>2
<1>11. DOMAIN entries = 1..(N + M) /\ \A i \in 1..(N + M) : \E n \in 1..(N + M) : entries[n] = all[i]
  <2>1. \A j \in DOMAIN all : all[j].index \in Nat /\ all[j].order = j
    BY <1>9, <1>10
  <2>2. /\ DOMAIN entries = DOMAIN all
        /\ \A i \in DOMAIN all : \E n \in DOMAIN all : entries[n] = all[i]
    BY <1>9, <2>1, OrderedHasAll DEF entries
  <2> QED
    BY <1>9, <2>2
<1>12. ASSUME NEW i \in 1..(N + M) PROVE \E n \in DOMAIN out : out[n] = all[i].item
  <2>1. PICK n \in 1..(N + M) : entries[n] = all[i]
    BY <1>11
  <2>2. entries # <<>>
    BY <1>11, EmptyIsSeq
  <2>3. DOMAIN out = 1..(N + M)
    BY <1>1, <1>11, <2>2
  <2>4. out[n] = entries[n].item
    BY <1>1, <1>11, <2>1, <2>2
  <2> QED
    BY <2>1, <2>3, <2>4
<1>13. ASSUME NEW at \in DOMAIN a.calls
       PROVE  \E n \in DOMAIN out : \E status : out[n] = ResponseOutputItem(a.calls[at], status)
  <2>1. at \in 1..N /\ at \in 1..(N + M)
    BY <1>2
  <2>2. all[at].item = ResponseOutputItem(a.calls[at], Status(a.calls[at]))
    BY <1>4, <1>9, <2>1
  <2>3. PICK n \in DOMAIN out : out[n] = all[at].item
    BY <1>12, <2>1
  <2> QED
    BY <2>2, <2>3
<1>14. ASSUME NEW m \in DOMAIN a.items
       PROVE  \E n \in DOMAIN out : \E text1, ending1 : out[n] = FilledItem(a.items[m].item, text1, ending1)
  <2>1. m \in 1..M /\ N + m \in 1..(N + M)
    BY <1>2
  <2>2. all[N + m].item = FilledItem(a.items[m].item, text, ending)
    BY <1>5, <1>9, <2>1
  <2>3. PICK n \in DOMAIN out : out[n] = all[N + m].item
    BY <1>12, <2>1
  <2> QED
    BY <2>2, <2>3
<1> QED
  BY <1>13, <1>14

\* Two items that differ in their status at most.
Alike(x, y) == [x EXCEPT !.status = ""] = [y EXCEPT !.status = ""]

\* The item of a call is the same for any status.
LEMMA CallsAlike ==
  ASSUME NEW call, NEW s, NEW t
  PROVE  Alike(ResponseOutputItem(call, s), ResponseOutputItem(call, t))
  BY DEF Alike, ResponseOutputItem, NoItem

\* An item with a body keeps it when the text of the response is filled in.
LEMMA FilledAlike ==
  ASSUME NEW item, item.body # <<>>, NEW text, NEW ending
  PROVE  Alike(FilledItem(item, text, ending), item)
<1> DEFINE filled == [item EXCEPT !.body = FirstBody(@, text), !.status = FirstNonEmpty(@, ending)]
           left == [filled EXCEPT !.status = ""]
           right == [item EXCEPT !.status = ""]
<1>1. DOMAIN filled = DOMAIN item /\ \A x \in DOMAIN item : x # "status" => filled[x] = item[x]
  BY DEF FirstBody
<1> HIDE DEF filled
<1>2. left = right
  BY <1>1
<1> QED
  BY <1>2 DEF Alike, FilledItem, filled

-----------------------------------------------------------------------------
(* The items that were told as done *)

\* The items of the output_item.done frames.
DoneItems(out) == {out[k].item : k \in Indices(out, "output_item.done")}

\* One event more.
LEMMA DoneItemsAppended ==
  ASSUME NEW out, IsSeq(out), NEW e
  PROVE  /\ e.type = "output_item.done" => DoneItems(Append(out, e)) = DoneItems(out) \union {e.item}
         /\ e.type # "output_item.done" => DoneItems(Append(out, e)) = DoneItems(out)
<1> DEFINE type == "output_item.done"
           longer == Append(out, e)
           n == Len(out)
<1>1. /\ n \in Nat /\ DOMAIN out = 1..n /\ longer[n + 1] = e /\ \A k \in 1..n : longer[k] = out[k]
  BY Appended
<1>2. /\ e.type = type => Indices(longer, type) = Indices(out, type) \union {n + 1}
      /\ e.type # type => Indices(longer, type) = Indices(out, type)
  BY IndicesOfAppended
<1> HIDE DEF longer, n
<1>3. Indices(out, type) \subseteq 1..n
  BY <1>1 DEF Indices
<1>4. e.type = type => DoneItems(longer) = DoneItems(out) \union {e.item}
  BY <1>1, <1>2, <1>3 DEF DoneItems
<1>5. e.type # type => DoneItems(longer) = DoneItems(out)
  BY <1>1, <1>2, <1>3 DEF DoneItems
<1> QED
  BY <1>4, <1>5 DEF longer

\* One stream after the other.
LEMMA DoneItemsJoined ==
  ASSUME NEW s, IsSeq(s), NEW t, IsSeq(t)
  PROVE  DoneItems(s \o t) = DoneItems(s) \union DoneItems(t)
<1> DEFINE n == Len(s)
           m == Len(t)
           st == s \o t
           Is(e) == e.type = "output_item.done"
<1>1. /\ n \in Nat /\ m \in Nat /\ DOMAIN s = 1..n /\ DOMAIN t = 1..m /\ DOMAIN st = 1..(n + m)
      /\ (\A k \in 1..n : st[k] = s[k]) /\ (\A k \in 1..m : st[n + k] = t[k])
  BY Concatenated
<1>2. /\ DoneItems(st) = {st[k].item : k \in {j \in 1..(n + m) : Is(st[j])}}
      /\ DoneItems(s) = {s[k].item : k \in {j \in 1..n : Is(s[j])}}
      /\ DoneItems(t) = {t[k].item : k \in {j \in 1..m : Is(t[j])}}
  BY <1>1 DEF DoneItems, Indices
<1> HIDE DEF n, m, st, Is
<1>3. ASSUME NEW x \in DoneItems(st) PROVE x \in DoneItems(s) \union DoneItems(t)
  <2>1. PICK k \in 1..(n + m) : Is(st[k]) /\ x = st[k].item
    BY <1>2, <1>3
  <2>2. CASE k \in 1..n
    BY <1>1, <1>2, <2>1, <2>2
  <2>3. CASE k - n \in 1..m
    <3>1. k = n + (k - n)
      BY <1>1
    <3>2. st[k] = t[k - n]
      BY <1>1, <2>3, <3>1
    <3> QED
      BY <1>2, <2>1, <2>3, <3>2
  <2> QED
    BY <1>1, <2>2, <2>3
<1>4. ASSUME NEW x \in DoneItems(s) PROVE x \in DoneItems(st)
  <2>1. PICK k \in 1..n : Is(s[k]) /\ x = s[k].item
    BY <1>2, <1>4
  <2>2. k \in 1..(n + m) /\ st[k] = s[k]
    BY <1>1
  <2> QED
    BY <1>2, <2>1, <2>2
<1>5. ASSUME NEW x \in DoneItems(t) PROVE x \in DoneItems(st)
  <2>1. PICK k \in 1..m : Is(t[k]) /\ x = t[k].item
    BY <1>2, <1>5
  <2>2. n + k \in 1..(n + m) /\ st[n + k] = t[k]
    BY <1>1
  <2> QED
    BY <1>2, <2>1, <2>2
<1> QED
  BY <1>3, <1>4, <1>5 DEF st

-----------------------------------------------------------------------------
(* What the synthesized events say of a call *)

\* Every call has the fields of one.
CallShapes(a) == AccShape(a) /\ \A at \in DOMAIN a.calls : DOMAIN a.calls[at] = CallFields

\* From c to d, a call was told nothing.
ToldFields(c, d) ==
  /\ d.item = c.item /\ d.call = c.call /\ d.tool = c.tool
  /\ d.name = c.name /\ d.body = c.body /\ d.index = c.index

\* From a to b, none was.
LeavesCalls(a, b) ==
  /\ CallShapes(b) /\ DOMAIN b.calls = DOMAIN a.calls /\ b.items = a.items
  /\ \A at \in DOMAIN a.calls : ToldFields(a.calls[at], b.calls[at])

\* As an item such a call is the same.
LEMMA SameItem ==
  ASSUME NEW c, NEW d, ToldFields(c, d), NEW status
  PROVE  ResponseOutputItem(d, status) = ResponseOutputItem(c, status)
  BY DEF ToldFields, ResponseOutputItem

\* Two steps that leave the calls are one.
LEMMA LeavesTwice ==
  ASSUME NEW a, NEW b, NEW c, LeavesCalls(a, b), LeavesCalls(b, c)
  PROVE  LeavesCalls(a, c)
  BY DEF LeavesCalls, ToldFields

\* Another call of the same fields at one place.
LEMMA SetLeaves ==
  ASSUME NEW a, CallShapes(a), NEW at \in DOMAIN a.calls, NEW c, DOMAIN c = CallFields,
         ToldFields(a.calls[at], c), NEW b, b = [a EXCEPT !.calls[at] = c]
  PROVE  LeavesCalls(a, b) /\ b.calls[at] = c
<1>1. b.calls = [a.calls EXCEPT ![at] = c] /\ b.items = a.items
  BY DEF CallShapes, AccShape, AccFields
<1>2. AccShape(b)
  BY OneCallShape DEF CallShapes
<1>3. DOMAIN b.calls = DOMAIN a.calls /\ b.calls[at] = c
  BY <1>1
<1>4. ASSUME NEW k \in DOMAIN a.calls
      PROVE  DOMAIN b.calls[k] = CallFields /\ ToldFields(a.calls[k], b.calls[k])
  <2>1. CASE k = at
    BY <1>3, <2>1
  <2>2. CASE k # at
    <3>1. b.calls[k] = a.calls[k]
      BY <1>1, <2>2
    <3> QED
      BY <3>1 DEF CallShapes, ToldFields
  <2> QED
    BY <2>1, <2>2
<1> QED
  BY <1>1, <1>2, <1>3, <1>4 DEF LeavesCalls, CallShapes

\* What a step of the stream may do: it tells at most the given items as done.
Tells(a, r, items) ==
  LeavesCalls(a, r.acc) /\ IsSeq(r.events) /\ DoneItems(r.events) \subseteq items

\* The item that a call is told as done with.
DoneItemOf(call) == ResponseOutputItem(call, "completed")

\* ensureOutputItemAdded tells none as done.
LEMMA AddedTells ==
  ASSUME NEW a, CallShapes(a), NEW at \in DOMAIN a.calls, NEW r, r = EnsureOutputItemAdded(a, at)
  PROVE  Tells(a, r, {}) /\ DOMAIN r = {"acc", "events"}
<1> DEFINE call == a.calls[at]
           c == [call EXCEPT !.added = TRUE]
           b == [a EXCEPT !.calls[at] = c]
           e == Frame("output_item.added", call.index, ResponseOutputItem(call, "in_progress"), <<>>)
<1>1. /\ call.added => r = [acc |-> a, events |-> <<>>]
      /\ ~call.added => r.acc = b /\ r.events = <<e>> /\ DOMAIN r = {"acc", "events"}
  BY DEF EnsureOutputItemAdded
<1>2. DoneItems(<<>>) = {}
  BY EmptyIsSeq DEF DoneItems, Indices
<1>3. CASE call.added
  <2>1. LeavesCalls(a, a)
    BY DEF LeavesCalls, ToldFields
  <2>2. r.acc = a /\ r.events = <<>> /\ DOMAIN r = {"acc", "events"}
    BY <1>1, <1>3
  <2> QED
    BY <1>2, <2>1, <2>2, EmptyIsSeq DEF Tells
<1>4. CASE ~call.added
  <2>1. DOMAIN c = CallFields /\ ToldFields(call, c)
    BY DEF CallShapes, ToldFields, CallFields
  <2>2. e.type = "output_item.added"
    BY DEF Frame
  <2> HIDE DEF c, e
  <2>3. LeavesCalls(a, b)
    BY <2>1, SetLeaves
  <2>4. IsSeq(<<e>>)
    BY TuplesOf DEF Tuples
  <2>6. <<e>> = Append(<<>>, e)
    OBVIOUS
  <2>5. DoneItems(<<e>>) = {}
    BY <1>2, <2>2, <2>6, DoneItemsAppended, EmptyIsSeq
  <2> QED
    BY <1>1, <1>4, <2>3, <2>4, <2>5 DEF Tells
<1> QED
  BY <1>3, <1>4

\* ensureToolCallCompleted tells the call as done, if it is not yet.
LEMMA CompletedTells ==
  ASSUME NEW a, CallShapes(a), NEW at \in DOMAIN a.calls, NEW r, r = EnsureToolCallCompleted(a, at)
  PROVE  Tells(a, r, {DoneItemOf(a.calls[at])})
<1> DEFINE call == a.calls[at]
           item == ResponseOutputItem(call, "completed")
           opened == EnsureOutputItemAdded(a, at)
           b == opened.acc
           c == [b.calls[at] EXCEPT !.status = "completed", !.done = TRUE]
           d == [b EXCEPT !.calls[at] = c]
           e == Frame("arguments.done", call.index, item, call.body)
           f == Frame("output_item.done", call.index, item, <<>>)
<1>1. DoneItems(<<>>) = {}
  BY EmptyIsSeq DEF DoneItems, Indices
<1>2. CASE call.done
  <2>1. LeavesCalls(a, a)
    BY DEF LeavesCalls, ToldFields
  <2>2. r.acc = a /\ r.events = <<>>
    BY <1>2 DEF EnsureToolCallCompleted
  <2> QED
    BY <1>1, <2>1, <2>2, EmptyIsSeq DEF Tells
<1>3. CASE ~call.done
  <2>1. Tells(a, opened, {})
    BY AddedTells
  <2>2. CallShapes(b) /\ at \in DOMAIN b.calls
    BY <2>1 DEF Tells, LeavesCalls
  <2>3. r.acc = [b EXCEPT !.calls[at].status = "completed", !.calls[at].done = TRUE]
        /\ r.events = opened.events \o <<e, f>>
    BY <1>3 DEF EnsureToolCallCompleted
  <2>4. e.type = "arguments.done" /\ f.type = "output_item.done" /\ f.item = item
    BY DEF Frame
  <2> HIDE DEF e, f, item, opened, b
  <2>5. r.acc = d
    BY <2>2, <2>3 DEF CallShapes, AccShape, AccFields
  <2>6. DOMAIN c = CallFields /\ ToldFields(b.calls[at], c)
    BY <2>2 DEF CallShapes, ToldFields, CallFields
  <2> HIDE DEF c
  <2>7. LeavesCalls(b, d)
    BY <2>2, <2>6, SetLeaves
  <2> HIDE DEF d
  <2>8. LeavesCalls(a, r.acc)
    BY <2>1, <2>5, <2>7, LeavesTwice DEF Tells, b
  <2>9. IsSeq(opened.events) /\ DoneItems(opened.events) = {}
    BY <2>1 DEF Tells
  <2> DEFINE before == opened.events
  <2>14. r.events = before \o <<e, f>> /\ IsSeq(before)
    BY <2>3, <2>9
  <2> HIDE DEF before
  <2>10. r.events = Append(Append(before, e), f)
    BY <2>14, TwoAdded
  <2>15. DoneItems(before) = {}
    BY <2>9 DEF before
  <2> DEFINE first == Append(before, e)
             both == Append(first, f)
  <2>11. IsSeq(first)
    BY <2>14, Appended
  <2>12. DoneItems(first) = {}
    BY <2>4, <2>14, <2>15, DoneItemsAppended
  <2>16. r.events = both
    BY <2>10
  <2> HIDE DEF first
  <2>17. IsSeq(both) /\ DoneItems(both) = {item}
    BY <2>4, <2>11, <2>12, Appended, DoneItemsAppended
  <2>13. IsSeq(r.events) /\ DoneItems(r.events) = {item}
    BY <2>16, <2>17
  <2> QED
    BY <2>8, <2>13 DEF Tells, DoneItemOf, item
<1> QED
  BY <1>2, <1>3

\* An event about a call tells it as done only at its end.
LEMMA EventTells ==
  ASSUME NEW a, CallShapes(a), NEW at \in DOMAIN a.calls, NEW event,
         event.type \in {"arguments.delta", "arguments.done", "output_item.added", "output_item.done"},
         NEW r, r = ResponsesStreamEventsForEvent(a, event, at)
  PROVE  Tells(a, r, IF Closes(event) THEN {DoneItemOf(a.calls[at])} ELSE {})
<1> DEFINE opened == EnsureOutputItemAdded(a, at)
           call == a.calls[at]
           e == Frame("arguments.delta", call.index, ResponseOutputItem(call, "in_progress"), event.body)
<1>1. Tells(a, opened, {}) /\ DOMAIN opened = {"acc", "events"}
  BY AddedTells
<1>2. CASE event.type = "arguments.delta"
  <2>1. r = [opened EXCEPT !.events = IF event.body = <<>> THEN @ ELSE Append(@, e)]
    BY <1>2 DEF ResponsesStreamEventsForEvent
  <2>2. e.type = "arguments.delta"
    BY DEF Frame
  <2> HIDE DEF e, opened
  <2>3. r.acc = opened.acc /\ r.events \in {opened.events, Append(opened.events, e)}
    BY <1>1, <2>1
  <2>4. IsSeq(opened.events) /\ DoneItems(opened.events) = {} /\ LeavesCalls(a, opened.acc)
    BY <1>1 DEF Tells
  <2>5. IsSeq(Append(opened.events, e)) /\ DoneItems(Append(opened.events, e)) = {}
    BY <2>2, <2>4, Appended, DoneItemsAppended
  <2> QED
    BY <2>3, <2>4, <2>5 DEF Tells
<1>3. CASE event.type = "output_item.added"
  <2>1. r = opened
    BY <1>3 DEF ResponsesStreamEventsForEvent
  <2> QED
    BY <1>1, <2>1 DEF Tells
<1>4. CASE Closes(event)
  <2>1. r = EnsureToolCallCompleted(a, at)
    BY <1>4 DEF ResponsesStreamEventsForEvent, Closes
  <2> QED
    BY <1>4, <2>1, CompletedTells
<1> QED
  BY <1>2, <1>3, <1>4 DEF Closes

\* One call of those that were not completed.
LEMMA PendingStepTells ==
  ASSUME NEW a, CallShapes(a), NEW items, NEW s, Tells(a, s, items), NEW at \in DOMAIN a.calls,
         DoneItemOf(a.calls[at]) \in items
  PROVE  Tells(a, PendingStep(s, at), items)
<1> DEFINE b == s.acc
           more == EnsureToolCallCompleted(b, at)
           t == PendingStep(s, at)
<1>1. CallShapes(b) /\ at \in DOMAIN b.calls /\ LeavesCalls(a, b) /\ IsSeq(s.events)
      /\ DoneItems(s.events) \subseteq items
  BY DEF Tells, LeavesCalls
<1>2. DoneItemOf(b.calls[at]) = DoneItemOf(a.calls[at])
  BY <1>1, SameItem DEF LeavesCalls, DoneItemOf
<1>3. Tells(b, more, {DoneItemOf(b.calls[at])})
  BY <1>1, CompletedTells
<1>4. t = s \/ t = [acc |-> more.acc, events |-> s.events \o more.events]
  BY DEF PendingStep
<1> HIDE DEF b, more, t
<1>5. CASE t = s
  BY <1>5 DEF t
<1>6. CASE t = [acc |-> more.acc, events |-> s.events \o more.events]
  <2>1. t.acc = more.acc /\ t.events = s.events \o more.events
    BY <1>6
  <2>2. LeavesCalls(b, more.acc) /\ IsSeq(more.events) /\ DoneItems(more.events) \subseteq items
    BY <1>2, <1>3 DEF Tells
  <2>3. LeavesCalls(a, t.acc)
    BY <1>1, <2>1, <2>2, LeavesTwice
  <2> DEFINE told == s.events
             added == more.events
  <2>4. IsSeq(told) /\ IsSeq(added) /\ DoneItems(told) \subseteq items /\ DoneItems(added) \subseteq items
    BY <1>1, <2>2
  <2> HIDE DEF told, added
  <2>5. IsSeq(told \o added) /\ DoneItems(told \o added) \subseteq items
    BY <2>4, Concatenated, DoneItemsJoined
  <2>6. Tells(a, t, items)
    BY <2>1, <2>3, <2>5 DEF Tells, told, added
  <2> QED
    BY <2>6 DEF t
<1> QED
  BY <1>4, <1>5, <1>6

\* pendingToolCallCompletionEvents tells calls of the accumulator as done, as they are.
LEMMA PendingTells ==
  ASSUME NEW a, CallShapes(a), NEW r, r = PendingToolCallCompletionEvents(a)
  PROVE  Tells(a, r, {DoneItemOf(a.calls[at]) : at \in DOMAIN a.calls})
<1> DEFINE n == Len(a.calls)
           none == [acc |-> a, events |-> <<>>]
           items == {DoneItemOf(a.calls[at]) : at \in DOMAIN a.calls}
<1>1. DOMAIN a.calls = 1..n
  BY SeqOfElements DEF CallShapes, AccShape
<1>2. n \in Nat
  BY SeqOfElements DEF CallShapes, AccShape
<1> HIDE DEF n
<1>3. PICK g : PendingRun(g, a, n) /\ r = g[n]
  BY <1>1, <1>2, PendingUnrolled
<1> DEFINE P == {k \in 0..n : Tells(a, g[k], items)}
<1>4. \A at \in DOMAIN a.calls : DoneItemOf(a.calls[at]) \in items
  OBVIOUS
<1> HIDE DEF items
<1>5. 0 \in P
  <2>1. g[0] = none
    BY <1>3 DEF PendingRun
  <2>2. LeavesCalls(a, a)
    BY DEF LeavesCalls, ToldFields
  <2>3. DoneItems(<<>>) = {}
    BY EmptyIsSeq DEF DoneItems, Indices
  <2>4. Tells(a, none, items)
    BY <2>2, <2>3, EmptyIsSeq DEF Tells
  <2> HIDE DEF none
  <2> QED
    BY <1>2, <2>1, <2>4
<1>6. ASSUME NEW k \in 1..n, k - 1 \in P PROVE k \in P
  <2>1. Tells(a, g[k - 1], items)
    BY <1>6
  <2>2. g[k] = PendingStep(g[k - 1], k)
    BY <1>3 DEF PendingRun
  <2>3. k \in DOMAIN a.calls
    BY <1>1
  <2>4. Tells(a, g[k], items)
    BY <1>4, <2>1, <2>2, <2>3, PendingStepTells
  <2> QED
    BY <2>4
<1> HIDE DEF P
<1>7. n \in P
  BY <1>2, <1>5, <1>6, Steps
<1> QED
  BY <1>3, <1>7 DEF P, items

-----------------------------------------------------------------------------
(* Responses: what was told as done, and where it is kept *)

\* The items that are no tool calls.
Others == DOMAIN scripts \ Tools

\* The body that tool i ends with, and the item it is told as done with.
EndBody(i) == CHOOSE body : ToolTold(scripts[i].events, i, body)
ToolItem(i) == Item(scripts[i].kind, i, EndBody(i), "completed")

\* The upstream told the id and the name of tool call i.
HasName(i) == \E k \in 1..delivered[i] : Names(scripts[i].events[k])

\* The upstream told the end of an item that is no tool call, with the item.
Said(i) ==
  /\ Finished(i) /\ scripts[i].events # <<>>
  /\ scripts[i].events[Len(scripts[i].events)].type = "output_item.done"

\* The item that the last event has.
SaidItem(i) == scripts[i].events[Len(scripts[i].events)].item

\* The call of tool i has what was told of it.
ToldCall(a, i) ==
  /\ Known(a, i) => HasKind(a, i, scripts[i].kind)
  /\ HasName(i) => IsNamed(a, i)
  /\ Closed(i) => CallOf(a, i).body = EndBody(i)

\* The items that are no tool calls are kept once they were told.
SaidHeld(items) == \A i \in Others : Said(i) => Holds(items, SaidItem(i))

\* An item that may have been told as done.
Stood(item) ==
  \/ \E i \in Tools : Closed(i) /\ item = ToolItem(i)
  \/ \E i \in Others : Said(i) /\ item = SaidItem(i)

\* What was told as done is kept while the stream goes on, and stands at its end.
StandInv ==
  endpoint = "responses" =>
    /\ phase = "streaming" =>
         /\ \A i \in Tools : ToldCall(acc, i)
         /\ ItemsOK(acc.items) /\ SaidHeld(acc.items)
         /\ \A item \in DoneItems(writer.out) : Stood(item)
    /\ DoneItemsStand

\* The events of a tool tell what they should.
LEMMA EndBodyOK ==
  ASSUME ToldInv, NEW i \in Tools
  PROVE  ToolTold(scripts[i].events, i, EndBody(i))
<1>1. ItemTold(scripts[i], i) /\ scripts[i].kind \in ToolKinds
  BY DEF ToldInv, Tools
<1>2. \E body : ToolTold(scripts[i].events, i, body)
  BY <1>1 DEF ItemTold
<1> HIDE DEF ToolTold
<1> QED
  BY <1>2 DEF EndBody

\* The name of a call comes before its end.
LEMMA ClosedIsNamed ==
  ASSUME UpstreamInv, ToldInv, NEW i \in Tools, Closed(i)
  PROVE  HasName(i)
<1> DEFINE events == scripts[i].events
<1>1. ToolTold(events, i, EndBody(i))
  BY EndBodyOK
<1>2. /\ IsSeq(events) /\ delivered[i] \in 0..Len(events)
  BY DEF UpstreamInv, ScriptOK, Tools
<1>3. DOMAIN events = 1..Len(events) /\ Len(events) \in Nat
  BY <1>2, SeqOfElements
<1> HIDE DEF events
<1>4. PICK k \in 1..delivered[i] : Closes(events[k])
  BY DEF Closed, events
<1>5. k \in DOMAIN events /\ events # <<>>
  BY <1>2, <1>3, <1>4, EmptyIsSeq
<1>6. PICK j \in DOMAIN events : Names(events[j]) /\ j <= k
  BY <1>1, <1>4, <1>5 DEF ToolTold
<1>7. j \in 1..delivered[i]
  BY <1>2, <1>3, <1>4, <1>6
<1> QED
  BY <1>6, <1>7 DEF HasName, events

\* The item of a call is one of its tool.
LEMMA ItemOfCall ==
  ASSUME NEW c, NEW kind \in ToolKinds, NEW i, NEW body, NEW status,
         c.tool = kind, c.item = ItemId(i), c.call = CallId(i), c.name = ToolName(i), c.body = body
  PROVE  ResponseOutputItem(c, status) = Item(kind, i, body, status)
<1> DEFINE x == ResponseOutputItem(c, status)
           y == Item(kind, i, body, status)
           Fields == {"kind", "id", "call", "name", "body", "sig", "status"}
<1>1. DOMAIN NoItem = Fields /\ NoItem.sig = "" /\ kind # "reasoning"
  BY DEF NoItem, ToolKinds
<1>2. /\ DOMAIN x = Fields /\ x = [f \in Fields |-> x[f]]
      /\ x.kind = kind /\ x.id = c.item /\ x.call = c.call /\ x.name = c.name /\ x.body = body
      /\ x.sig = "" /\ x.status = status
  BY <1>1 DEF ResponseOutputItem
<1>3. /\ DOMAIN y = Fields /\ y = [f \in Fields |-> y[f]]
      /\ y.kind = kind /\ y.id = ItemId(i) /\ y.call = CallId(i) /\ y.name = ToolName(i) /\ y.body = body
      /\ y.sig = "" /\ y.status = status
  BY <1>1 DEF Item
<1> HIDE DEF x, y
<1>4. \A f \in Fields : x[f] = y[f]
  BY <1>2, <1>3
<1>5. x = y
  BY <1>2, <1>3, <1>4
<1> QED
  BY <1>5 DEF x, y

\* As an item, a call whose end was told is that of its tool.
LEMMA ToldCallItem ==
  ASSUME UpstreamInv, ToldInv, NEW a, NEW tools, CallsOK(a, tools), NEW i \in Tools, i \in tools,
         Closed(i), ToldCall(a, i), NEW status
  PROVE  /\ Known(a, i)
         /\ ResponseOutputItem(CallOf(a, i), status) = Item(scripts[i].kind, i, EndBody(i), status)
<1> DEFINE c == CallOf(a, i)
           kind == scripts[i].kind
<1>1. IsNamed(a, i)
  BY ClosedIsNamed DEF ToldCall
<1>2. Known(a, i) /\ CallOK(c, i)
  BY <1>1 DEF IsNamed, CallsOK
<1>3. c.tool = kind /\ c.item = ItemId(i) /\ c.call = CallId(i) /\ c.name = ToolName(i) /\ c.body = EndBody(i)
  BY <1>1, <1>2 DEF ToldCall, IsNamed, CallOK, HasKind
<1>4. kind \in ToolKinds
  BY DEF Tools
<1> HIDE DEF c, kind
<1>5. ResponseOutputItem(c, status) = Item(kind, i, EndBody(i), status)
  BY <1>3, <1>4, ItemOfCall
<1> QED
  BY <1>2, <1>5 DEF c, kind

\* Apply, of an event about tool i: its call has what the event tells, and the items stay.
LEMMA ApplyToolTold ==
  ASSUME NEW a, NEW tools, CallsOK(a, tools), Distinct(tools), NEW i \in tools, i - 1 \in Nat,
         NEW kind \in ToolKinds, NEW event, OfScript(event, kind, i),
         NEW b, b = Apply(a, event)
  PROVE  /\ HasKind(b, i, kind) /\ b.items = a.items
         /\ OfFragment(event, kind, i) =>
              ToldOf(a, b, i, event.call, event.name,
                     IF event.type = "arguments.done" THEN event.body ELSE <<>>)
         /\ OfItem(event, kind, i) => ToldOf(a, b, i, CallId(i), event.item.name, event.item.body)
<1> DEFINE told == ApplyText(ApplyMetadata(a, event), event)
           argued == IF event.type \in {"arguments.delta", "arguments.done"}
                       THEN ApplyToolArgumentEvent(told, event) ELSE told
           captured == CaptureOutputItem(argued, event.item, event.index)
<1>0. ~IsTerminal(event) => b = captured
  BY DEF Apply, ApplyTerminal
<1>1. SameCalls(a, told) /\ told.items = a.items
  BY TextSame, TextLeavesItems DEF CallsOK, OfScript
<1> HIDE DEF told
<1>2. CallsOK(told, tools) /\ \A j : (Known(told, j) <=> Known(a, j)) /\ CallOf(told, j) = CallOf(a, j)
  BY <1>1, SameCallsOK
<1>3. event.index \in Nat
  BY DEF OfScript
<1>4. ASSUME NEW call, NEW name, NEW body, ToldOf(told, b, i, call, name, body)
      PROVE  ToldOf(a, b, i, call, name, body)
  BY <1>2, <1>4 DEF ToldOf, IsNamed
<1>5. CASE OfFragment(event, kind, i)
  <2>1. event.type \in {"arguments.delta", "arguments.done"} /\ event.item = NoItem /\ ~IsTerminal(event)
    BY <1>5 DEF OfFragment, IsTerminal
  <2>2. b = ApplyToolArgumentEvent(told, event)
    BY <1>0, <2>1, CaptureNothing
  <2> DEFINE body == IF event.type = "arguments.done" THEN event.body ELSE <<>>
  <2>3. Amended(told, b, tools, i, event.index)
    BY <1>2, <1>3, <1>5, <2>2, ArgumentOK
  <2>4. ToldOf(told, b, i, event.call, event.name, body)
    BY <1>2, <1>3, <1>5, <2>2, ArgumentOK
  <2> HIDE DEF body
  <2>5. HasKind(b, i, kind)
    BY <1>2, <1>3, <1>5, <2>2, ArgumentOK
  <2>6. ToldOf(a, b, i, event.call, event.name, body)
    BY <1>4, <2>4
  <2>7. ~OfItem(event, kind, i)
    BY <2>1 DEF OfItem
  <2>8. b.items = a.items
    BY <1>1, <2>3 DEF Amended
  <2> QED
    BY <2>5, <2>6, <2>7, <2>8 DEF body
<1>6. CASE OfItem(event, kind, i)
  <2>1. /\ event.type \in {"output_item.added", "output_item.done"} /\ ~IsTerminal(event)
        /\ event.item.kind = kind /\ event.item.id = ItemId(i) /\ event.item.call = CallId(i)
    BY <1>6 DEF OfItem, IsTerminal
  <2>2. b = CaptureToolCall(told, event.item, event.index)
    BY <1>0, <2>1, CaptureTool
  <2>3. Amended(told, b, tools, i, event.index)
    BY <1>2, <1>3, <2>1, <2>2, CaptureOK
  <2>4. ToldOf(told, b, i, CallId(i), event.item.name, event.item.body)
    BY <1>2, <1>3, <2>1, <2>2, CaptureOK
  <2>9. HasKind(b, i, event.item.kind)
    BY <1>2, <1>3, <2>1, <2>2, CaptureOK
  <2>5. HasKind(b, i, kind)
    BY <2>1, <2>9
  <2>6. ToldOf(a, b, i, CallId(i), event.item.name, event.item.body)
    BY <1>4, <2>4
  <2>7. ~OfFragment(event, kind, i)
    BY <2>1 DEF OfFragment
  <2>8. b.items = a.items
    BY <1>1, <2>3 DEF Amended
  <2> QED
    BY <2>5, <2>6, <2>7, <2>8
<1> QED
  BY <1>5, <1>6 DEF OfScript

-----------------------------------------------------------------------------
(* An event more *)

\* The effect of an event on what was told.
LEMMA ToldNextOf ==
  ASSUME UpstreamInv, ToldInv, NEW i \in DOMAIN scripts, Receive(i),
         NEW event, event = scripts[i].events[delivered[i] + 1]
  PROVE  /\ HasName(i)' <=> HasName(i) \/ Names(event)
         /\ Said(i)' => event.type = "output_item.done" /\ SaidItem(i) = event.item
         /\ event.type = "output_item.done" /\ i \in Others => Said(i)'
         /\ ~Said(i)
         /\ \A j \in DOMAIN scripts \ {i} : (HasName(j)' <=> HasName(j)) /\ (Said(j)' <=> Said(j))
         /\ \A j : SaidItem(j)' = SaidItem(j)
<1> DEFINE events == scripts[i].events
<1>1. scripts' = scripts /\ delivered' = [delivered EXCEPT ![i] = @ + 1] /\ ~Finished(i)
  BY DEF Receive, Handle
<1>2. /\ delivered[i] \in Nat /\ IsSeq(events) /\ delivered[i] + 1 \in 1..Len(events)
      /\ DOMAIN events = 1..Len(events) /\ Len(events) \in Nat
  BY ReceivedEvent, SeqOfElements DEF UpstreamInv, ScriptOK
<1>3. delivered'[i] = delivered[i] + 1 /\ \A j \in DOMAIN scripts \ {i} : delivered'[j] = delivered[j]
  BY <1>1 DEF UpstreamInv
<1>4. 1..(delivered[i] + 1) = (1..delivered[i]) \union {delivered[i] + 1}
  BY <1>2
<1>5. HasName(i)' <=> HasName(i) \/ Names(event)
  BY <1>1, <1>3, <1>4 DEF HasName, Names
<1>6. \A j \in DOMAIN scripts \ {i} : (HasName(j)' <=> HasName(j)) /\ (Said(j)' <=> Said(j))
  BY <1>1, <1>3 DEF HasName, Names, Said, Finished
<1>7. \A j : SaidItem(j)' = SaidItem(j)
  BY <1>1 DEF SaidItem
<1>8. ~Said(i)
  BY <1>1 DEF Said
<1>9. Finished(i)' <=> delivered[i] + 1 = Len(events)
  BY <1>1, <1>3 DEF Finished
<1>10. ASSUME Said(i)' PROVE event.type = "output_item.done" /\ SaidItem(i) = event.item
  <2>1. delivered[i] + 1 = Len(events) /\ events[Len(events)].type = "output_item.done"
    BY <1>1, <1>9, <1>10 DEF Said
  <2> QED
    BY <2>1 DEF SaidItem
<1>11. ASSUME event.type = "output_item.done", i \in Others PROVE Said(i)'
  <2>1. ItemDoneLast(events)
    BY <1>11 DEF ToldInv, ItemTold, Others, Tools
  <2>2. delivered[i] + 1 = Len(events)
    BY <1>2, <1>11, <2>1 DEF ItemDoneLast
  <2>3. events # <<>>
    BY <1>2, EmptyIsSeq
  <2> QED
    BY <1>1, <1>9, <1>11, <2>2, <2>3 DEF Said
<1> QED
  BY <1>5, <1>6, <1>7, <1>8, <1>10, <1>11

\* What was told and said stays so, and means the same.
LEMMA ConstantsNext ==
  ASSUME UpstreamInv, NEW i \in DOMAIN scripts, Receive(i)
  PROVE  /\ Tools' = Tools /\ Others' = Others
         /\ \A j : EndBody(j)' = EndBody(j) /\ ToolItem(j)' = ToolItem(j)
<1>1. scripts' = scripts
  BY DEF Receive, Handle
<1>2. Tools' = Tools /\ Others' = Others
  BY <1>1 DEF Tools, Others
<1>3. \A j : EndBody(j)' = EndBody(j)
  BY <1>1 DEF EndBody, ToolTold, ToolEvent, Names, EndOf, Closes, CallId, ToolName
<1>4. \A j : ToolItem(j)' = ToolItem(j)
  BY <1>1, <1>3 DEF ToolItem, Item, ItemId, CallId, ToolName
<1> QED
  BY <1>2, <1>3, <1>4

\* An event that ends a call names it, if none before did.
LEMMA ClosingIsNamed ==
  ASSUME UpstreamInv, ToldInv, NEW i \in Tools, Receive(i), Closes(scripts[i].events[delivered[i] + 1])
  PROVE  HasName(i) \/ Names(scripts[i].events[delivered[i] + 1])
<1> DEFINE events == scripts[i].events
           n == delivered[i] + 1
<1>1. ToolTold(events, i, EndBody(i))
  BY EndBodyOK
<1>2. /\ IsSeq(events) /\ delivered[i] \in Nat /\ n \in 1..Len(events)
      /\ DOMAIN events = 1..Len(events) /\ Len(events) \in Nat
  BY ReceivedEvent, SeqOfElements DEF UpstreamInv, ScriptOK, Tools
<1> HIDE DEF events
<1>3. n \in DOMAIN events /\ events # <<>>
  BY <1>2, EmptyIsSeq
<1>4. PICK j \in DOMAIN events : Names(events[j]) /\ j <= n
  BY <1>1, <1>3 DEF ToolTold, events
<1>5. j \in 1..delivered[i] \/ j = n
  BY <1>2, <1>4
<1> QED
  BY <1>4, <1>5 DEF HasName, events

\* A call that was told more, by an event about it.
LEMMA ToolAdvances ==
  ASSUME UpstreamInv, IdsInv, ToldInv, CallsOK(acc, Tools), NEW i \in Tools, Receive(i), ToldCall(acc, i),
         NEW event, event = scripts[i].events[delivered[i] + 1], NEW b, b = Apply(acc, event)
  PROVE  /\ HasKind(b, i, scripts[i].kind) /\ b.items = acc.items
         /\ HasName(i) \/ Names(event) => IsNamed(b, i)
         /\ Closes(event) => CallOf(b, i).body = EndBody(i)
<1> DEFINE kind == scripts[i].kind
           body == EndBody(i)
           events == scripts[i].events
<1>1. i \in DOMAIN scripts /\ kind \in ToolKinds /\ Distinct(Tools) /\ i - 1 \in Nat
  BY DEF Tools, IdsInv
<1>2. OfScript(event, kind, i) /\ delivered[i] + 1 \in DOMAIN events
  BY <1>1, ReceivedEvent, SeqOfElements DEF UpstreamInv, ScriptOK
<1>3. ToolEvent(event, i, body) /\ body # <<>>
  BY <1>2, EndBodyOK DEF ToolTold
<1> HIDE DEF body, events, kind
<1>4. HasKind(b, i, kind) /\ b.items = acc.items
  BY <1>1, <1>2, ApplyToolTold
<1>5. CASE OfFragment(event, kind, i)
  <2> DEFINE told == IF event.type = "arguments.done" THEN event.body ELSE <<>>
  <2>1. ToldOf(acc, b, i, event.call, event.name, told)
    BY <1>1, <1>2, <1>5, ApplyToolTold
  <2>2. /\ event.item.kind \notin ToolKinds /\ event.type \in {"arguments.delta", "arguments.done"}
    BY <1>1, <1>5, NoItemIsNoTool DEF OfFragment
  <2>3. event.call = "" \/ (event.call = CallId(i) /\ event.name = ToolName(i))
    BY <1>3, <2>2 DEF ToolEvent
  <2>4. event.call = "" => event.name = ""
    BY <1>3, <2>2 DEF ToolEvent
  <2>5. Closes(event) => event.type = "arguments.done" /\ event.body = body
    BY <1>3, <2>2 DEF ToolEvent, Closes, EndOf
  <2>6. Closes(event) => told # <<>> /\ told = body
    BY <1>3, <2>5
  <2> HIDE DEF told
  <2>7. Closes(event) => CallOf(b, i).body = body
    BY <2>1, <2>6 DEF ToldOf
  <2>8. ASSUME HasName(i) \/ Names(event) PROVE IsNamed(b, i)
    <3>1. CASE event.call = CallId(i) /\ event.name = ToolName(i)
      BY <2>1, <3>1 DEF ToldOf
    <3>2. CASE event.call = ""
      <4>1. HasName(i)
        BY <2>2, <2>8, <3>2 DEF Names
      <4>2. IsNamed(acc, i)
        BY <4>1 DEF ToldCall
      <4>3. event.name \in {"", ToolName(i)}
        BY <2>4, <3>2
      <4> QED
        BY <2>1, <4>2, <4>3 DEF ToldOf
    <3> QED
      BY <2>3, <3>1, <3>2
  <2> QED
    BY <1>4, <2>7, <2>8 DEF body, kind
<1>6. CASE OfItem(event, kind, i)
  <2>1. ToldOf(acc, b, i, CallId(i), event.item.name, event.item.body)
    BY <1>1, <1>2, <1>6, ApplyToolTold
  <2>2. event.item.kind \in ToolKinds /\ event.type \in {"output_item.added", "output_item.done"}
    BY <1>1, <1>6 DEF OfItem
  <2>3. event.item.name = ToolName(i)
    BY <1>3, <2>2 DEF ToolEvent
  <2>4. Closes(event) => event.item.body = body
    BY <1>3, <2>2 DEF ToolEvent, Closes, EndOf
  <2>5. IsNamed(b, i)
    BY <2>1, <2>3 DEF ToldOf
  <2>6. Closes(event) => CallOf(b, i).body = body
    BY <1>3, <2>1, <2>4 DEF ToldOf
  <2> QED
    BY <1>4, <2>5, <2>6 DEF body, kind
<1> QED
  BY <1>2, <1>5, <1>6 DEF OfScript

\* What was told as done stands, whatever comes.
LEMMA StoodNext ==
  ASSUME UpstreamInv, ToldInv, NEW i \in DOMAIN scripts, Receive(i), NEW item, Stood(item)
  PROVE  Stood(item)'
<1> DEFINE event == scripts[i].events[delivered[i] + 1]
<1>1. /\ ~Said(i) /\ \A j \in DOMAIN scripts \ {i} : Said(j)' <=> Said(j)
      /\ \A j : SaidItem(j)' = SaidItem(j)
  BY ToldNextOf
<1>2. /\ Closed(i)' <=> Closed(i) \/ Closes(event)
      /\ \A j \in DOMAIN scripts \ {i} : Closed(j)' <=> Closed(j)
  BY ClosedNext
<1>3. Tools' = Tools /\ Others' = Others /\ \A j : ToolItem(j)' = ToolItem(j)
  BY ConstantsNext
<1> HIDE DEF event
<1>4. CASE \E j \in Tools : Closed(j) /\ item = ToolItem(j)
  <2>1. PICK j \in Tools : Closed(j) /\ item = ToolItem(j)
    BY <1>4
  <2>2. j \in DOMAIN scripts
    BY DEF Tools
  <2>3. Closed(j)' /\ item = ToolItem(j)' /\ j \in Tools'
    BY <1>2, <1>3, <2>1, <2>2
  <2> QED
    BY <2>3 DEF Stood
<1>5. CASE \E j \in Others : Said(j) /\ item = SaidItem(j)
  <2>1. PICK j \in Others : Said(j) /\ item = SaidItem(j)
    BY <1>5
  <2>2. j \in DOMAIN scripts
    BY DEF Others
  <2>3. Said(j)' /\ item = SaidItem(j)' /\ j \in Others'
    BY <1>1, <1>3, <2>1, <2>2
  <2> QED
    BY <2>3 DEF Stood
<1> QED
  BY <1>4, <1>5 DEF Stood

\* An event about no call is passed on, or held back, and the accumulator stays.
LEMMA PlainTells ==
  ASSUME NEW stream, DOMAIN stream = StreamFields, IsSeq(stream.out), NEW a, NEW event,
         ToolCallStateForEvent(a, event) = 0, ~IsTerminal(event),
         NEW tuple \in BOOLEAN, NEW r, r = ResponsesEvents(stream, event, a, tuple)
  PROVE  /\ r.acc = a
         /\ event.type # "output_item.done" => DoneItems(r.stream.out) = DoneItems(stream.out)
         /\ event.type = "output_item.done" /\ HasId(event.item) /\ ItemWhole(event.item) =>
              DoneItems(r.stream.out) = DoneItems(stream.out) \union {event.item}
<1> DEFINE e == PassedOn(event)
           passed == [stream EXCEPT !.out = Append(@, e)]
           held == [stream EXCEPT !.tupleText = @ \o event.body]
           whole == [stream EXCEPT !.tupleText = FirstBody(event.body, @)]
<1>1. /\ r.acc = a
      /\ \/ r.stream = passed
         \/ event.type # "output_item.done" /\ r.stream \in {held, whole}
  BY DEF ResponsesEvents
<1>2. e.type = event.type /\ (HasId(event.item) /\ ItemWhole(event.item) => e.item = event.item)
  <2> DEFINE f == Frame(event.type, event.index, event.item, event.body)
             item == [f.item EXCEPT !.id = FirstNonEmpty(@, event.id)]
  <2>1. f.item = event.item /\ f.type = event.type /\ DOMAIN f = {"type", "index", "item", "body"}
    BY DEF Frame
  <2>2. e = [f EXCEPT !.item = item]
    BY DEF PassedOn
  <2> HIDE DEF f
  <2>3. ASSUME HasId(event.item), ItemWhole(event.item) PROVE item = event.item
    <3>1. FirstNonEmpty(event.item.id, event.id) = event.item.id
      BY <2>3 DEF HasId, FirstNonEmpty
    <3> QED
      BY <2>1, <2>3, <3>1 DEF ItemWhole
  <2> HIDE DEF e, item
  <2> QED
    BY <2>1, <2>2, <2>3
<1> HIDE DEF e
<1>3. passed.out = Append(stream.out, e) /\ held.out = stream.out /\ whole.out = stream.out
  BY DEF StreamFields
<1> HIDE DEF passed, held, whole
<1>4. /\ event.type # "output_item.done" => DoneItems(Append(stream.out, e)) = DoneItems(stream.out)
      /\ event.type = "output_item.done" /\ HasId(event.item) /\ ItemWhole(event.item) =>
           DoneItems(Append(stream.out, e)) = DoneItems(stream.out) \union {event.item}
  BY <1>2, DoneItemsAppended
<1>5. CASE r.stream = passed
  <2>1. r.stream.out = Append(stream.out, e)
    BY <1>3, <1>5
  <2> QED
    BY <1>1, <1>4, <2>1
<1>6. CASE event.type # "output_item.done" /\ r.stream \in {held, whole}
  <2>1. r.stream.out = stream.out
    BY <1>3, <1>6
  <2> QED
    BY <1>1, <1>6, <2>1
<1> QED
  BY <1>1, <1>5, <1>6

\* A Responses stream starts with nothing told.
LEMMA StandInit ==
  ASSUME Init
  PROVE  StandInv
<1>1. acc = EmptyAccumulator /\ phase = "streaming"
  BY DEF Init
<1>2. UpstreamInv /\ delivered = [i \in DOMAIN scripts |-> 0]
  BY UpstreamInit DEF Init
<1>3. ASSUME NEW i \in DOMAIN scripts
      PROVE  ~HasName(i) /\ ~Closed(i) /\ ~Known(acc, i) /\ ~Said(i)
  <2>1. delivered[i] = 0 /\ IsSeq(scripts[i].events)
    BY <1>2 DEF UpstreamInv, ScriptOK
  <2>2. ~HasName(i) /\ ~Closed(i)
    BY <2>1 DEF HasName, Closed
  <2>3. ~Known(acc, i)
    BY <1>1, EmptyIsSeq DEF Known, EmptyAccumulator
  <2>4. Finished(i) => scripts[i].events = <<>>
    BY <2>1, SeqOfElements, SameSeq, EmptyIsSeq DEF Finished
  <2> QED
    BY <2>2, <2>3, <2>4 DEF Said
<1>4. \A i \in Tools : ToldCall(acc, i)
  BY <1>3 DEF ToldCall, Tools
<1>5. ItemsOK(acc.items) /\ SaidHeld(acc.items)
  <2>1. acc.items = <<>>
    BY <1>1 DEF EmptyAccumulator
  <2> QED
    BY <1>3, <2>1, EmptyIsSeq DEF ItemsOK, SaidHeld, Others
<1>6. endpoint = "responses" => DoneItems(writer.out) = {}
  <2>1. endpoint = "responses" => writer.out = <<>>
    BY DEF Init, NewResponsesStream
  <2> QED
    BY <2>1, EmptyIsSeq DEF DoneItems, Indices
<1>7. DoneItemsStand
  BY <1>1 DEF DoneItemsStand
<1> QED
  BY <1>4, <1>5, <1>6, <1>7 DEF StandInv

-----------------------------------------------------------------------------
(* The invariant, before the terminal event *)

\* The first event tells nothing.
LEMMA StandBegin ==
  ASSUME UpstreamInv, IdsInv, PairInv, ToldInv, StandInv, endpoint = "responses", Begin
  PROVE  StandInv'
<1> DEFINE b == Apply(acc, Created)
           r == ResponsesEvents(writer, Created, b, structured)
<1>1. /\ acc' = r.acc /\ writer' = r.stream /\ scripts' = scripts /\ delivered' = delivered
      /\ endpoint' = endpoint /\ phase' = "streaming" /\ phase = "streaming"
  BY DEF Begin, Handle, WriteEvent
<1>2. DOMAIN writer = StreamFields /\ CallsOK(acc, Tools) /\ AccShape(acc) /\ IsSeq(writer.out)
  BY <1>1 DEF PairInv, Told, GoesOn, CallsOK
<1>3. /\ \A i \in Tools : ToldCall(acc, i)
      /\ ItemsOK(acc.items) /\ SaidHeld(acc.items)
      /\ \A item \in DoneItems(writer.out) : Stood(item)
  BY <1>1 DEF StandInv
<1>4. /\ Created.output = <<>> /\ ~IsTerminal(Created) /\ Created.type = "created"
      /\ Created.item = NoItem
  BY CreatedIsPlain DEF Created, NoEvent
<1>5. Created.item.kind \notin ToolKinds
  BY <1>4, NoItemIsNoTool
<1>6. SameCalls(acc, b)
  BY <1>2, <1>4, <1>5, ApplyPlain
<1>7. b.items = acc.items
  BY <1>2, <1>3, <1>4, <1>5, ApplyHolds
<1> HIDE DEF b
<1>8. \A i : (Known(b, i) <=> Known(acc, i)) /\ CallOf(b, i) = CallOf(acc, i)
  BY <1>2, <1>6, SameCallsOK
<1>9. ToolCallStateForEvent(b, Created) = 0
  BY <1>4 DEF ToolCallStateForEvent
<1>10. r.acc = b /\ DoneItems(r.stream.out) = DoneItems(writer.out)
  <2>1. structured \in BOOLEAN
    BY DEF UpstreamInv
  <2> QED
    BY <1>2, <1>4, <1>9, <2>1, PlainTells
<1> HIDE DEF r
<1>11. /\ Tools' = Tools /\ Others' = Others
       /\ \A i : (Closed(i)' <=> Closed(i)) /\ (HasName(i)' <=> HasName(i)) /\ (Said(i)' <=> Said(i))
       /\ \A i : SaidItem(i)' = SaidItem(i)
  BY <1>1 DEF Tools, Others, Closed, HasName, Said, SaidItem, Finished, Closes, Names
<1>12. \A j : EndBody(j)' = EndBody(j)
  BY <1>1 DEF EndBody, ToolTold, ToolEvent, Names, EndOf, Closes, CallId, ToolName
<1>13. \A j : ToolItem(j)' = ToolItem(j)
  BY <1>1, <1>12 DEF ToolItem, Item, ItemId, CallId, ToolName
<1>14. acc' = b /\ acc'.items = acc.items /\ DoneItems(writer'.out) = DoneItems(writer.out)
  BY <1>1, <1>7, <1>10
<1>15. ASSUME NEW i \in Tools PROVE ToldCall(acc, i)'
  <2>1. ToldCall(acc, i)
    BY <1>3
  <2> QED
    BY <1>1, <1>8, <1>11, <1>12, <1>14, <2>1 DEF ToldCall, HasKind, IsNamed
<1>16. ItemsOK(acc'.items) /\ SaidHeld(acc.items)'
  BY <1>3, <1>11, <1>14 DEF SaidHeld
<1>17. \A item \in DoneItems(writer'.out) : Stood(item)'
  BY <1>3, <1>11, <1>13, <1>14 DEF Stood
<1>18. DoneItemsStand'
  BY <1>1 DEF DoneItemsStand
<1>19. DoneItems(writer.out)' = DoneItems(writer'.out)
  BY DEF DoneItems, Indices
<1> QED
  BY <1>1, <1>11, <1>15, <1>16, <1>17, <1>18, <1>19 DEF StandInv

\* An event about a tool call.
LEMMA StandReceiveTool ==
  ASSUME UpstreamInv, IdsInv, PairInv, ToldInv, StandInv, endpoint = "responses", NEW i \in Tools, Receive(i)
  PROVE  StandInv'
<1> DEFINE event == scripts[i].events[delivered[i] + 1]
           kind == scripts[i].kind
           b == Apply(acc, event)
           r == ResponsesEvents(writer, event, b, structured)
           tool == ResponsesStreamEventsForEvent(b, event, Place(b, i))
<1>1. /\ acc' = r.acc /\ writer' = r.stream /\ scripts' = scripts
      /\ endpoint' = endpoint /\ phase' = "streaming" /\ phase = "streaming"
  BY DEF Receive, Handle, WriteEvent
<1>2. DOMAIN writer = StreamFields /\ Told(acc, writer.out, Tools) /\ \A j \in Tools : AsTold(acc, j)
  BY <1>1 DEF PairInv
<1>3. /\ \A j \in Tools : ToldCall(acc, j)
      /\ ItemsOK(acc.items) /\ SaidHeld(acc.items)
      /\ \A item \in DoneItems(writer.out) : Stood(item)
  BY <1>1 DEF StandInv
<1>4. i \in DOMAIN scripts /\ kind \in ToolKinds /\ Distinct(Tools) /\ i - 1 \in Nat
  BY DEF Tools, IdsInv
<1>5. OfScript(event, kind, i) /\ ~IsTerminal(event)
  BY <1>4, ReceivedEvent, NotTerminal
<1>6. /\ HasKind(b, i, kind) /\ b.items = acc.items
      /\ HasName(i) \/ Names(event) => IsNamed(b, i)
      /\ Closes(event) => CallOf(b, i).body = EndBody(i)
  BY <1>2, <1>3, ToolAdvances DEF Told
<1>7. /\ HasName(i)' <=> HasName(i) \/ Names(event)
      /\ \A j \in DOMAIN scripts \ {i} : (HasName(j)' <=> HasName(j)) /\ (Said(j)' <=> Said(j))
      /\ \A j : SaidItem(j)' = SaidItem(j)
  BY <1>4, ToldNextOf
<1>8. /\ Closed(i)' <=> Closed(i) \/ Closes(event)
      /\ \A j \in DOMAIN scripts \ {i} : Closed(j)' <=> Closed(j)
  BY <1>4, ClosedNext
<1>9. Closed(i) => Closes(event)
  BY DeltaBeforeEnd
<1>10. /\ Tools' = Tools /\ Others' = Others
       /\ \A j : EndBody(j)' = EndBody(j) /\ ToolItem(j)' = ToolItem(j)
  BY <1>4, ConstantsNext
<1>11. \A item : Stood(item) => Stood(item)'
  BY <1>4, StoodNext
<1>12. Changed(acc, b, Tools, i) /\ ToolCallStateForEvent(b, event) = Place(b, i)
  <2> HIDE DEF event, kind
  <2> QED
    BY <1>2, <1>4, <1>5, ApplyTool DEF Told
<1> HIDE DEF event, kind, b
<1>13. Told(b, writer.out, Tools) /\ CallsOK(b, Tools) /\ Known(b, i) /\ AtIndex(b, i)
  BY <1>2, <1>12, ChangedTold DEF Changed
<1>14. event.type \in {"arguments.delta", "arguments.done", "output_item.added", "output_item.done"}
  BY <1>4, <1>5 DEF OfScript, OfItem, OfFragment
<1>15. CallOf(b, i).done => event.type # "arguments.delta"
  <2>1. CallOf(b, i).done => Closed(i)
    BY <1>2, <1>12 DEF Changed, SameFlags, AsTold
  <2> QED
    BY <1>9, <2>1 DEF Closes
<1>16. Place(b, i) # 0 /\ Place(b, i) \in DOMAIN b.calls
  BY <1>13, SeqOfElements DEF CallsOK, AccShape
<1>17. r.acc = tool.acc /\ r.stream = [writer EXCEPT !.out = @ \o tool.events]
  BY <1>12, <1>16, <1>5, <1>14 DEF ResponsesEvents
<1>18. ToolStep(b, tool, writer.out, Tools, i, Closes(event))
  BY <1>4, <1>13, <1>14, <1>15, ToolEventTold
<1>19. Tells(b, tool, IF Closes(event) THEN {DoneItemOf(CallOf(b, i))} ELSE {})
  <2>1. CallShapes(b)
    <3>1. ASSUME NEW at \in DOMAIN b.calls PROVE DOMAIN b.calls[at] = CallFields
      <4>1. PICK j \in Tools : Known(b, j) /\ Place(b, j) = at
        BY <1>13 DEF CallsOK
      <4>2. CallOK(CallOf(b, j), j) /\ CallOf(b, j) = b.calls[at]
        BY <1>13, <4>1 DEF CallsOK, CallOf
      <4> QED
        BY <4>2 DEF CallOK
    <3> QED
      BY <1>13, <3>1 DEF CallShapes, CallsOK
  <2>2. b.calls[Place(b, i)] = CallOf(b, i)
    BY DEF CallOf
  <2> QED
    BY <1>14, <1>16, <2>1, <2>2, EventTells
<1> HIDE DEF tool
<1>20. /\ LeavesCalls(b, tool.acc) /\ IsSeq(tool.events) /\ OnlyCall(b, tool.acc, Tools, i)
       /\ Place(tool.acc, i) = Place(b, i)
       /\ DoneItems(tool.events) \subseteq IF Closes(event) THEN {DoneItemOf(CallOf(b, i))} ELSE {}
  BY <1>18, <1>19 DEF Tells, ToolStep, StepOf
<1>21. ToldFields(CallOf(b, i), CallOf(tool.acc, i))
  BY <1>16, <1>20 DEF LeavesCalls, CallOf
<1> HIDE DEF r
<1>22. acc' = tool.acc /\ writer'.out = writer.out \o tool.events
  BY <1>1, <1>2, <1>17 DEF StreamFields
<1>23. ToldCall(acc, i)'
  <2>1. HasKind(tool.acc, i, kind)
    BY <1>6, <1>21 DEF HasKind, ToldFields
  <2>2. HasName(i)' => IsNamed(tool.acc, i)
    BY <1>6, <1>7, <1>20, <1>21 DEF IsNamed, ToldFields, OnlyCall
  <2>3. Closed(i)' => CallOf(tool.acc, i).body = EndBody(i)
    BY <1>6, <1>8, <1>9, <1>21 DEF ToldFields
  <2> QED
    BY <1>1, <1>10, <1>22, <2>1, <2>2, <2>3 DEF ToldCall, HasKind, IsNamed, kind
<1>24. ASSUME NEW j \in Tools, j # i PROVE ToldCall(acc, j)'
  <2>1. (Known(b, j) <=> Known(acc, j)) /\ (Known(acc, j) => CallOf(b, j) = CallOf(acc, j))
    BY <1>12, <1>24 DEF Changed
  <2>2. (Known(tool.acc, j) <=> Known(b, j)) /\ (Known(b, j) => CallOf(tool.acc, j) = CallOf(b, j))
    BY <1>20, <1>24 DEF OnlyCall
  <2>3. j \in DOMAIN scripts \ {i}
    BY <1>24 DEF Tools
  <2>4. (Closed(j)' <=> Closed(j)) /\ (HasName(j)' <=> HasName(j))
    BY <1>7, <1>8, <2>3
  <2>5. ToldCall(acc, j)
    BY <1>3
  <2>6. Closed(j) => Known(acc, j)
    BY <1>2 DEF AsTold
  <2> QED
    BY <1>1, <1>10, <1>22, <2>1, <2>2, <2>4, <2>5, <2>6 DEF ToldCall, HasKind, IsNamed
<1>25. ItemsOK(acc'.items) /\ SaidHeld(acc.items)'
  <2>1. acc'.items = acc.items
    BY <1>6, <1>20, <1>22 DEF LeavesCalls
  <2>2. \A j \in Others : j \in DOMAIN scripts \ {i}
    BY DEF Others
  <2> QED
    BY <1>3, <1>7, <1>10, <2>1, <2>2 DEF SaidHeld
<1>26. ASSUME NEW item \in DoneItems(writer'.out) PROVE Stood(item)'
  <2>1. item \in DoneItems(writer.out) \union DoneItems(tool.events)
    <3>1. IsSeq(writer.out)
      BY <1>2 DEF Told, GoesOn
    <3> QED
      BY <1>20, <1>22, <1>26, <3>1, DoneItemsJoined
  <2>2. CASE item \in DoneItems(writer.out)
    BY <1>3, <1>11, <2>2
  <2>3. CASE item \in DoneItems(tool.events)
    <3>1. Closes(event) /\ item = DoneItemOf(CallOf(b, i))
      BY <1>20, <2>3
    <3>2. Closed(i)' /\ i \in Tools' /\ ToolItem(i)' = ToolItem(i)
      BY <1>8, <1>10, <3>1
    <3>3. HasName(i)'
      <4>1. HasName(i) \/ Names(event)
        BY <3>1, ClosingIsNamed DEF event
      <4> QED
        BY <1>7, <4>1
    <3>4. IsNamed(b, i) /\ CallOf(b, i).body = EndBody(i) /\ CallOK(CallOf(b, i), i) /\ HasKind(b, i, kind)
      BY <1>6, <1>7, <1>13, <3>1, <3>3 DEF CallsOK
    <3> DEFINE c == CallOf(b, i)
    <3>5. c.tool = kind /\ c.item = ItemId(i) /\ c.call = CallId(i) /\ c.name = ToolName(i) /\ c.body = EndBody(i)
      BY <3>4 DEF HasKind, IsNamed, CallOK
    <3> HIDE DEF c
    <3>6. DoneItemOf(c) = Item(kind, i, EndBody(i), "completed")
      BY <1>4, <3>5, ItemOfCall DEF DoneItemOf
    <3>7. item = ToolItem(i)
      BY <3>1, <3>6 DEF c, ToolItem, kind
    <3> QED
      BY <3>2, <3>7 DEF Stood
  <2> QED
    BY <2>1, <2>2, <2>3
<1>27. DoneItemsStand'
  BY <1>1 DEF DoneItemsStand
<1>28. DoneItems(writer.out)' = DoneItems(writer'.out)
  BY DEF DoneItems, Indices
<1>29. \A j \in Tools' : ToldCall(acc, j)'
  BY <1>10, <1>23, <1>24
<1> QED
  BY <1>1, <1>25, <1>26, <1>27, <1>28, <1>29 DEF StandInv

\* What is told of an item that is no tool call is told with its id.
LEMMA SaidItemOK ==
  ASSUME UpstreamInv, ToldInv, NEW i \in Others, scripts[i].events # <<>>,
         scripts[i].events[Len(scripts[i].events)].type = "output_item.done"
  PROVE  /\ SaidItem(i).id = ItemId(i) /\ SaidItem(i).kind = scripts[i].kind
         /\ SaidItem(i).kind \notin ToolKinds /\ HasId(SaidItem(i)) /\ ItemWhole(SaidItem(i))
<1> DEFINE events == scripts[i].events
           n == Len(events)
           kind == scripts[i].kind
<1>1. i \in DOMAIN scripts /\ kind \notin ToolKinds
  BY DEF Others, Tools
<1>2. /\ IsSeq(events) /\ \A k \in DOMAIN events : OfScript(events[k], kind, i)
      /\ ItemDoneLast(events) /\ ItemId(i) # ""
  BY <1>1 DEF UpstreamInv, ScriptOK, ToldInv, ItemTold
<1>3. n \in DOMAIN events
  <2>1. n \in Nat /\ DOMAIN events = 1..n /\ (n = 0 => events = <<>>)
    BY <1>2, SeqOfElements, SameSeq, EmptyIsSeq
  <2> QED
    BY <2>1
<1> HIDE DEF events, n, kind
<1>4. OfItem(events[n], kind, i)
  BY <1>2, <1>3 DEF OfScript, OfFragment, events, n
<1>5. events[n].item.id = ItemId(i) /\ events[n].item.kind = kind /\ ItemWhole(events[n].item)
  BY <1>2, <1>3, <1>4 DEF OfItem, ItemDoneLast, events, n
<1>6. SaidItem(i) = events[n].item
  BY DEF SaidItem, events, n
<1> QED
  BY <1>1, <1>2, <1>5, <1>6 DEF HasId, kind

\* An event about another item.
LEMMA StandReceiveOther ==
  ASSUME UpstreamInv, IdsInv, PairInv, ToldInv, StandInv, endpoint = "responses", NEW i \in Others, Receive(i)
  PROVE  StandInv'
<1> DEFINE event == scripts[i].events[delivered[i] + 1]
           kind == scripts[i].kind
           b == Apply(acc, event)
           r == ResponsesEvents(writer, event, b, structured)
<1>1. /\ acc' = r.acc /\ writer' = r.stream /\ scripts' = scripts
      /\ endpoint' = endpoint /\ phase' = "streaming" /\ phase = "streaming"
  BY DEF Receive, Handle, WriteEvent
<1>2. /\ DOMAIN writer = StreamFields /\ CallsOK(acc, Tools) /\ AccShape(acc) /\ IsSeq(writer.out)
      /\ \A j \in Tools : AsTold(acc, j)
  BY <1>1 DEF PairInv, Told, GoesOn, CallsOK
<1>3. /\ \A j \in Tools : ToldCall(acc, j)
      /\ ItemsOK(acc.items) /\ SaidHeld(acc.items)
      /\ \A item \in DoneItems(writer.out) : Stood(item)
  BY <1>1 DEF StandInv
<1>4. /\ i \in DOMAIN scripts /\ kind \notin ToolKinds /\ i - 1 \in Nat /\ structured \in BOOLEAN
      /\ \A j \in Tools : j \in DOMAIN scripts \ {i}
  BY DEF Others, Tools, IdsInv, UpstreamInv
<1>5. OfScript(event, kind, i) /\ ~IsTerminal(event)
  BY <1>4, ReceivedEvent, NotTerminal
<1>6. /\ Said(i)' => event.type = "output_item.done" /\ SaidItem(i) = event.item
      /\ event.type = "output_item.done" => Said(i)'
      /\ \A j \in DOMAIN scripts \ {i} : (HasName(j)' <=> HasName(j)) /\ (Said(j)' <=> Said(j))
      /\ \A j : SaidItem(j)' = SaidItem(j)
  BY <1>4, ToldNextOf
<1>7. \A j \in DOMAIN scripts \ {i} : Closed(j)' <=> Closed(j)
  BY <1>4, ClosedNext
<1>8. /\ Tools' = Tools /\ Others' = Others
      /\ \A j : EndBody(j)' = EndBody(j) /\ ToolItem(j)' = ToolItem(j)
  BY <1>4, ConstantsNext
<1>9. \A item : Stood(item) => Stood(item)'
  BY <1>4, StoodNext
<1> HIDE DEF event, kind
<1>10. /\ event.item.kind \notin ToolKinds /\ event.output = <<>> /\ event.index \in Nat
       /\ event.type \notin {"arguments.delta", "arguments.done"}
  BY <1>4, <1>5, NoItemIsNoTool DEF OfScript, OfItem, OfFragment
<1>11. event.item # NoItem => HasId(event.item) /\ event.item.id = ItemId(i)
  <2>1. ItemId(i) # ""
    BY <1>4 DEF ToldInv
  <2>2. event.item # NoItem => OfItem(event, kind, i)
    BY <1>5 DEF OfScript, OfFragment
  <2> QED
    BY <2>1, <2>2 DEF OfItem, HasId
<1>12. SameCalls(acc, b)
  BY <1>2, <1>5, <1>10, ApplyPlain
<1>13. /\ ItemsOK(b.items)
       /\ event.item = NoItem => b.items = acc.items
       /\ event.item # NoItem => Holds(b.items, event.item) /\ HoldsOthers(acc.items, b.items, event.item.id)
  <2>1. event.item # NoItem => HasId(event.item) /\ event.index \in Nat
    BY <1>10, <1>11
  <2> QED
    BY <1>2, <1>3, <1>5, <1>10, <2>1, ApplyHolds
<1>14. ToolCallStateForEvent(b, event) = 0
  BY <1>10 DEF ToolCallStateForEvent
<1> HIDE DEF b
<1>15. \A j : (Known(b, j) <=> Known(acc, j)) /\ CallOf(b, j) = CallOf(acc, j)
  BY <1>2, <1>12, SameCallsOK
<1>16. /\ r.acc = b
       /\ event.type # "output_item.done" => DoneItems(r.stream.out) = DoneItems(writer.out)
       /\ event.type = "output_item.done" /\ HasId(event.item) /\ ItemWhole(event.item) =>
            DoneItems(r.stream.out) = DoneItems(writer.out) \union {event.item}
  BY <1>2, <1>4, <1>5, <1>14, PlainTells
<1> HIDE DEF r
<1>17. ASSUME event.type = "output_item.done"
       PROVE  Said(i)' /\ SaidItem(i) = event.item /\ HasId(event.item) /\ ItemWhole(event.item)
              /\ event.item # NoItem
  <2>1. Said(i)' /\ SaidItem(i) = event.item
    BY <1>6, <1>17
  <2>2. scripts[i].events # <<>> /\ scripts[i].events[Len(scripts[i].events)].type = "output_item.done"
    BY <1>1, <2>1 DEF Said
  <2>3. HasId(SaidItem(i)) /\ ItemWhole(SaidItem(i))
    BY <2>2, SaidItemOK
  <2> QED
    BY <2>1, <2>3, NoItemHasNoId
<1>18. ASSUME NEW j \in Tools PROVE ToldCall(acc, j)'
  <2>1. ToldCall(acc, j)
    BY <1>3
  <2>2. (Closed(j)' <=> Closed(j)) /\ (HasName(j)' <=> HasName(j))
    BY <1>4, <1>6, <1>7
  <2> QED
    BY <1>1, <1>8, <1>15, <1>16, <2>1, <2>2 DEF ToldCall, HasKind, IsNamed
<1>19. ASSUME NEW j \in Others, Said(j)' PROVE Holds(b.items, SaidItem(j))
  <2>1. CASE j = i
    <3>1. event.type = "output_item.done" /\ SaidItem(i) = event.item
      BY <1>6, <1>19, <2>1
    <3> QED
      BY <1>13, <1>17, <2>1, <3>1
  <2>2. CASE j # i
    <3>1. j \in DOMAIN scripts \ {i}
      BY <2>2 DEF Others
    <3>2. Said(j) /\ Holds(acc.items, SaidItem(j))
      BY <1>3, <1>6, <1>19, <3>1 DEF SaidHeld
    <3>3. SaidItem(j).id # ItemId(i)
      <4>1. SaidItem(j).id = ItemId(j)
        BY <3>2, SaidItemOK DEF Said
      <4>2. ItemId(j) # ItemId(i)
        BY <1>4, <3>1 DEF ToldInv
      <4> QED
        BY <4>1, <4>2
    <3>4. CASE event.item = NoItem
      BY <1>13, <3>2, <3>4
    <3>5. CASE event.item # NoItem
      BY <1>11, <1>13, <3>2, <3>3, <3>5 DEF HoldsOthers
    <3> QED
      BY <3>4, <3>5
  <2> QED
    BY <2>1, <2>2
<1>20. acc'.items = b.items /\ DoneItems(writer'.out) = DoneItems(r.stream.out)
  BY <1>1, <1>16
<1>21. ItemsOK(acc'.items) /\ SaidHeld(acc.items)'
  BY <1>6, <1>8, <1>13, <1>19, <1>20 DEF SaidHeld
<1>22. ASSUME NEW item \in DoneItems(writer'.out) PROVE Stood(item)'
  <2>1. item \in DoneItems(writer.out) \/ (event.type = "output_item.done" /\ item = event.item)
    BY <1>16, <1>17, <1>20, <1>22
  <2>2. CASE item \in DoneItems(writer.out)
    BY <1>3, <1>9, <2>2
  <2>3. CASE event.type = "output_item.done" /\ item = event.item
    <3>1. Said(i)' /\ SaidItem(i)' = item /\ i \in Others'
      BY <1>6, <1>8, <1>17, <2>3
    <3> QED
      BY <3>1 DEF Stood
  <2> QED
    BY <2>1, <2>2, <2>3
<1>23. DoneItemsStand'
  BY <1>1 DEF DoneItemsStand
<1>24. DoneItems(writer.out)' = DoneItems(writer'.out)
  BY DEF DoneItems, Indices
<1>25. \A j \in Tools' : ToldCall(acc, j)'
  BY <1>8, <1>18
<1> QED
  BY <1>1, <1>21, <1>22, <1>23, <1>24, <1>25 DEF StandInv

-----------------------------------------------------------------------------
(* The output of the terminal event, as it is told *)

\* An item of the output tells of item i what its events told.
TellsOf(item, i) ==
  /\ item.id = ItemId(i) /\ item.kind = scripts[i].kind
  /\ i \in Tools =>
       item.call = CallId(i) /\ item.name = ToolName(i) /\ (Closed(i) => item.body = EndBody(i))
  /\ i \in Others /\ Said(i) => item = SaidItem(i)

\* The output, if there is one, has every item whose end was told.
OutputTells(output) ==
  /\ \A n \in DOMAIN output : \E i \in DOMAIN scripts : TellsOf(output[n], i)
  /\ output # <<>> => \A i \in Others : Said(i) => \E n \in DOMAIN output : output[n].id = ItemId(i)

\* An item, however far it came.
LEMMA ItemAfterTells ==
  ASSUME UpstreamInv, ToldInv, NEW i \in DOMAIN scripts, NEW item, item = ItemAfter(scripts[i], i, delivered[i])
  PROVE  TellsOf(item, i)
<1> DEFINE script == scripts[i]
           events == script.events
           kind == script.kind
           m == delivered[i]
           said == {k \in 1..m : events[k].type = "output_item.done"}
           whole == m = Len(events) \/ \E k \in 1..m : events[k].body = Whole \/ events[k].sig # ""
           told == SelectSeq(SubSeq(events, 1, m), LAMBDA e : e.type # "output_item.added")
           parts == FlattenSeq([k \in DOMAIN told |-> told[k].body])
           complete == Item(script.kind, i, Whole, "completed")
           cut == Item(script.kind, i, parts, "incomplete")
<1>1. ScriptOK(script, i) /\ m \in 0..Len(events)
  BY DEF UpstreamInv
<1>2. DOMAIN events = 1..Len(events) /\ Len(events) \in Nat
  BY <1>1, SeqOfElements DEF ScriptOK
<1>3. \A k \in 1..m : k \in DOMAIN events /\ OfScript(events[k], kind, i)
  BY <1>1, <1>2 DEF ScriptOK
<1>4. /\ said # {} => item = events[CHOOSE k \in said : TRUE].item
      /\ said = {} /\ whole => item = complete
      /\ said = {} /\ ~whole => item = cut
  <2> HIDE DEF said, whole, parts
  <2> QED
    BY DEF ItemAfter, said, whole, parts
<1>5. ASSUME NEW body, NEW status
      PROVE  /\ Item(kind, i, body, status).kind = kind
             /\ Item(kind, i, body, status).id = ItemId(i)
             /\ kind \in ToolKinds => /\ Item(kind, i, body, status).call = CallId(i)
                                      /\ Item(kind, i, body, status).name = ToolName(i)
             /\ Item(kind, i, body, status).body = body
  BY DEF Item, NoItem
<1>6. i \in Tools <=> kind \in ToolKinds
  BY DEF Tools
<1>7. i \in Tools => \A k \in DOMAIN events : ToolEvent(events[k], i, EndBody(i))
  BY EndBodyOK DEF ToolTold
<1>8. i \in Others => ItemDoneLast(events)
  BY DEF ToldInv, ItemTold, Others, Tools
<1>9. Said(i) => m = Len(events) /\ m \in said
  <2>1. events # <<>> => Len(events) # 0
    BY <1>1, SameSeq, EmptyIsSeq DEF ScriptOK
  <2> QED
    BY <1>1, <1>2, <2>1 DEF Said, Finished
<1>10. Closed(i) <=> \E k \in 1..m : Closes(events[k])
  BY DEF Closed
<1>11. SaidItem(i) = events[Len(events)].item
  BY DEF SaidItem
<1> HIDE DEF events, m, parts, kind
<1>12. CASE said # {}
  <2>1. PICK k \in said : item = events[k].item
    BY <1>4, <1>12
  <2>2. k \in 1..m /\ events[k].type = "output_item.done" /\ k \in DOMAIN events
    BY <1>3, <2>1
  <2>3. OfItem(events[k], kind, i)
    BY <1>3, <2>2 DEF OfScript, OfFragment
  <2>4. item.kind = kind /\ item.id = ItemId(i)
    BY <2>1, <2>3 DEF OfItem
  <2>5. ASSUME i \in Tools PROVE item.call = CallId(i) /\ item.name = ToolName(i) /\ item.body = EndBody(i)
    <3>1. ToolEvent(events[k], i, EndBody(i))
      BY <1>7, <2>2, <2>5
    <3>2. item.kind \in ToolKinds
      BY <1>6, <2>4, <2>5
    <3>3. Closes(events[k]) /\ EndOf(events[k]) = item.body
      BY <2>1, <2>2 DEF Closes, EndOf
    <3> QED
      BY <2>1, <3>1, <3>2, <3>3 DEF ToolEvent
  <2>6. i \in Others => item = SaidItem(i)
    <3>1. i \in Others => k = Len(events)
      BY <1>8, <2>2 DEF ItemDoneLast
    <3> QED
      BY <1>11, <2>1, <3>1
  <2> QED
    BY <2>4, <2>5, <2>6 DEF TellsOf, kind
<1>13. CASE said = {}
  <2>1. ~Said(i)
    BY <1>9, <1>13
  <2>2. ASSUME i \in Tools, Closed(i) PROVE EndBody(i) = Whole /\ whole
    <3>1. PICK k \in 1..m : Closes(events[k])
      BY <1>10, <2>2
    <3>2. events[k].type = "arguments.done"
      BY <1>13, <3>1 DEF Closes
    <3>3. ToolEvent(events[k], i, EndBody(i))
      BY <1>3, <1>7, <2>2
    <3> QED
      BY <3>1, <3>2, <3>3 DEF ToolEvent, EndOf
  <2>3. CASE whole
    <3>1. item = complete
      BY <1>4, <1>13, <2>3
    <3>2. item.kind = kind /\ item.id = ItemId(i) /\ item.body = Whole
      BY <1>5, <3>1 DEF kind
    <3>3. i \in Tools => item.call = CallId(i) /\ item.name = ToolName(i)
      BY <1>5, <1>6, <3>1 DEF kind
    <3> QED
      BY <2>1, <2>2, <3>2, <3>3 DEF TellsOf, kind
  <2>4. CASE ~whole
    <3>1. item = cut
      BY <1>4, <1>13, <2>4
    <3>2. item.kind = kind /\ item.id = ItemId(i)
      BY <1>5, <3>1 DEF kind
    <3>3. i \in Tools => item.call = CallId(i) /\ item.name = ToolName(i)
      BY <1>5, <1>6, <3>1 DEF kind
    <3> QED
      BY <2>1, <2>2, <2>4, <3>2, <3>3 DEF TellsOf, kind
  <2> QED
    BY <2>3, <2>4
<1> QED
  BY <1>12, <1>13

\* There are more below a greater one.
LEMMA BelowGrows ==
  ASSUME NEW B \in SUBSET Nat, NEW j \in B, NEW k \in B, j < k
  PROVE  Below(B, j) \in SUBSET Below(B, k) /\ j \in Below(B, k) /\ j \notin Below(B, j)
<1>1. j \in Nat /\ k \in Nat
  OBVIOUS
<1>2. ASSUME NEW x \in B, x < j PROVE x < k
  <2>1. x \in Nat
    OBVIOUS
  <2> QED
    BY <1>1, <1>2, <2>1
<1>3. ~(j < j)
  BY <1>1
<1> QED
  BY <1>2, <1>3 DEF Below

\* Every item that was begun has its place.
LEMMA BegunIsNth ==
  ASSUME UpstreamInv, NEW i \in Begun
  PROVE  \E n \in 1..Cardinality(Begun) : NthBegun(n) = i
<1> DEFINE N == Len(scripts)
           Size(j) == Cardinality(Below(Begun, j))
<1>1. N \in Nat /\ Begun \in SUBSET (1..N)
  BY SeqOfElements DEF UpstreamInv, Begun
<1> HIDE DEF N
<1>2. IsFiniteSet(Begun) /\ Cardinality(Begun) \in Nat
  <2>1. IsFiniteSet(1..N)
    BY <1>1, FS_Interval
  <2>2. IsFiniteSet(Begun)
    BY <1>1, <2>1, FS_Subset
  <2> QED
    BY <2>2, FS_CardinalityType
<1>3. ASSUME NEW j \in Begun
      PROVE  IsFiniteSet(Below(Begun, j)) /\ Size(j) \in Nat /\ Size(j) < Cardinality(Begun)
  <2>1. Below(Begun, j) \in SUBSET Begun /\ j \notin Below(Begun, j)
    BY <1>1 DEF Below
  <2>2. IsFiniteSet(Below(Begun, j)) /\ Size(j) <= Cardinality(Begun)
    BY <1>2, <2>1, FS_Subset
  <2>3. Size(j) \in Nat
    BY <2>2, FS_CardinalityType
  <2>4. Size(j) # Cardinality(Begun)
    BY <1>2, <2>1, FS_Subset
  <2> QED
    BY <1>2, <2>2, <2>3, <2>4
<1>4. ASSUME NEW j \in Begun, NEW k \in Begun, j < k PROVE Size(j) # Size(k)
  <2>1. Below(Begun, j) \in SUBSET Below(Begun, k) /\ j \in Below(Begun, k) /\ j \notin Below(Begun, j)
    <3>1. Begun \in SUBSET Nat
      BY <1>1
    <3> QED
      BY <1>4, <3>1, BelowGrows
  <2>2. IsFiniteSet(Below(Begun, k))
    BY <1>3
  <2> QED
    BY <2>1, <2>2, FS_Subset
<1> DEFINE n == Size(i) + 1
<1>5. n \in 1..Cardinality(Begun) /\ n - 1 = Size(i)
  BY <1>2, <1>3
<1>6. NthBegun(n) \in Begun /\ Size(NthBegun(n)) = n - 1
  BY <1>5, NthBegunOK
<1> DEFINE k == NthBegun(n)
<1>7. k \in Begun /\ k \in 1..N /\ i \in 1..N /\ Size(k) = Size(i)
  BY <1>1, <1>5, <1>6
<1> HIDE DEF n, k, Size
<1>8. k = i
  <2>1. ~(k < i)
    BY <1>4, <1>7
  <2>2. ~(i < k)
    BY <1>4, <1>7
  <2> QED
    BY <1>1, <1>7, <2>1, <2>2
<1> QED
  BY <1>5, <1>8 DEF k

\* Whatever output the upstream may send.
LEMMA OutputsTell ==
  ASSUME UpstreamInv, ToldInv, NEW output \in Outputs
  PROVE  OutputTells(output)
<1>1. CASE output = <<>>
  BY <1>1, EmptyIsSeq DEF OutputTells
<1>2. CASE output = FullOutput
  <2>1. DOMAIN output = 1..Cardinality(Begun)
    BY <1>2 DEF FullOutput
  <2>2. ASSUME NEW n \in DOMAIN output PROVE NthBegun(n) \in DOMAIN scripts /\ TellsOf(output[n], NthBegun(n))
    <3> DEFINE i == NthBegun(n)
    <3>1. output[n] = ItemAfter(scripts[i], i, delivered[i])
      BY <1>2, <2>1 DEF FullOutput
    <3>2. i \in DOMAIN scripts
      BY <2>1, NthBegunOK DEF Begun
    <3> HIDE DEF i
    <3>3. TellsOf(output[n], i)
      BY <3>1, <3>2, ItemAfterTells
    <3> QED
      BY <3>2, <3>3 DEF i
  <2>3. ASSUME NEW i \in Others, Said(i) PROVE \E n \in DOMAIN output : output[n].id = ItemId(i)
    <3>1. i \in Begun
      <4>1. i \in DOMAIN scripts /\ Finished(i) /\ scripts[i].events # <<>>
        BY <2>3 DEF Others, Said
      <4>2. IsSeq(scripts[i].events)
        BY <4>1 DEF UpstreamInv, ScriptOK
      <4>3. Len(scripts[i].events) \in Nat /\ Len(scripts[i].events) # 0
        BY <4>1, <4>2, SeqOfElements, SameSeq, EmptyIsSeq
      <4> QED
        BY <4>1, <4>3 DEF Begun, Finished
    <3>2. PICK n \in 1..Cardinality(Begun) : NthBegun(n) = i
      BY <3>1, BegunIsNth
    <3> QED
      BY <2>1, <2>2, <3>2 DEF TellsOf
  <2> QED
    BY <2>2, <2>3 DEF OutputTells
<1> QED
  BY <1>1, <1>2 DEF Outputs

-----------------------------------------------------------------------------
(* The terminal event captures the output, and what was told stays *)

\* What was told of the calls is kept, and each has a place.
StandEnd(a) ==
  /\ CallsOK(a, Tools)
  /\ \A i \in Tools : ToldCall(a, i) /\ (Known(a, i) => CallOf(a, i).index \in Nat)

\* What is no call may change.
LEMMA SameCallsStand ==
  ASSUME NEW a, StandEnd(a), NEW b, SameCalls(a, b)
  PROVE  StandEnd(b)
<1>1. CallsOK(b, Tools)
  BY SameCallsOK DEF StandEnd
<1>2. \A i \in Tools : (Known(b, i) <=> Known(a, i)) /\ CallOf(b, i) = CallOf(a, i)
  BY SameCallsOK DEF StandEnd
<1>3. ASSUME NEW i \in Tools PROVE ToldCall(b, i)
  <2>1. (Known(b, i) <=> Known(a, i)) /\ CallOf(b, i) = CallOf(a, i) /\ ToldCall(a, i)
    BY <1>2 DEF StandEnd
  <2> QED
    BY <2>1 DEF ToldCall, HasKind, IsNamed
<1>4. \A i \in Tools : Known(b, i) => CallOf(b, i).index \in Nat
  BY <1>2 DEF StandEnd
<1> QED
  BY <1>1, <1>3, <1>4 DEF StandEnd

\* A tool call of the output is captured.
LEMMA CaptureToolStands ==
  ASSUME UpstreamInv, IdsInv, ToldInv, NEW a, StandEnd(a), NEW i \in Tools, NEW item, TellsOf(item, i),
         NEW n \in Nat, n > 0, NEW b, b = CaptureOutputItem(a, item, n - 1)
  PROVE  StandEnd(b) /\ b.items = a.items
<1>1. i \in DOMAIN scripts /\ scripts[i].kind \in ToolKinds
  BY DEF Tools
<1>2. /\ item.kind \in ToolKinds /\ item.id = ItemId(i) /\ item.call = CallId(i)
      /\ item.name = ToolName(i) /\ item.kind = scripts[i].kind /\ (Closed(i) => item.body = EndBody(i))
  BY <1>1 DEF TellsOf
<1>3. b = CaptureToolCall(a, item, n - 1)
  BY <1>2, CaptureTool
<1>4. n - 1 \in Nat /\ CallsOK(a, Tools) /\ Distinct(Tools)
  BY DEF StandEnd, IdsInv
<1>5. Amended(a, b, Tools, i, n - 1)
  BY <1>2, <1>3, <1>4, CaptureOK
<1>6. ToldOf(a, b, i, CallId(i), item.name, item.body) /\ HasKind(b, i, item.kind)
  BY <1>2, <1>3, <1>4, CaptureOK
<1>7. OnlyCall(a, b, Tools, i) /\ CallOf(b, i).index = n - 1 /\ b.items = a.items
  BY <1>5 DEF Amended
<1>8. ToldCall(b, i)
  <2>1. IsNamed(b, i)
    BY <1>2, <1>6 DEF ToldOf
  <2>2. Closed(i) => CallOf(b, i).body = EndBody(i)
    <3>1. EndBody(i) # <<>>
      BY EndBodyOK DEF ToolTold
    <3> QED
      BY <1>2, <1>6, <3>1 DEF ToldOf
  <2>3. HasKind(b, i, scripts[i].kind)
    BY <1>2, <1>6
  <2> QED
    BY <2>1, <2>2, <2>3 DEF ToldCall
<1>9. ASSUME NEW j \in Tools, j # i PROVE ToldCall(b, j) /\ (Known(b, j) => CallOf(b, j).index \in Nat)
  <2>1. (Known(b, j) <=> Known(a, j)) /\ (Known(a, j) => CallOf(b, j) = CallOf(a, j))
    BY <1>7, <1>9 DEF OnlyCall
  <2>2. ToldCall(a, j) /\ (Known(a, j) => CallOf(a, j).index \in Nat)
    BY DEF StandEnd
  <2>3. Closed(j) => HasName(j)
    BY ClosedIsNamed
  <2>4. HasName(j) => Known(a, j)
    BY <2>2 DEF ToldCall, IsNamed
  <2> QED
    BY <2>1, <2>2, <2>3, <2>4 DEF ToldCall, HasKind, IsNamed
<1>10. CallsOK(b, Tools)
  BY <1>7 DEF OnlyCall
<1> QED
  BY <1>4, <1>7, <1>8, <1>9, <1>10 DEF StandEnd

\* Any item of the output is captured.
LEMMA CaptureStands ==
  ASSUME UpstreamInv, IdsInv, ToldInv, NEW a, StandEnd(a), ItemsOK(a.items),
         NEW i \in DOMAIN scripts, NEW item, TellsOf(item, i),
         NEW n \in Nat, n > 0, NEW b, b = CaptureOutputItem(a, item, n - 1)
  PROVE  /\ StandEnd(b) /\ ItemsOK(b.items)
         /\ i \in Others /\ Said(i) => Holds(b.items, SaidItem(i))
         /\ \A j \in Others \ {i} : Said(j) /\ Holds(a.items, SaidItem(j)) => Holds(b.items, SaidItem(j))
<1>1. CASE i \in Tools
  <2>1. StandEnd(b) /\ b.items = a.items
    BY <1>1, CaptureToolStands
  <2>2. i \notin Others
    BY <1>1 DEF Others
  <2> QED
    BY <2>1, <2>2
<1>2. CASE i \notin Tools
  <2>1. item.kind \notin ToolKinds /\ i \in Others
    BY <1>2 DEF TellsOf, Tools, Others
  <2>2. item.id = ItemId(i) /\ ItemId(i) # ""
    BY DEF TellsOf, ToldInv
  <2>3. AccShape(a) /\ HasId(item) /\ n - 1 \in Nat
    <3>1. AccShape(a)
      BY DEF StandEnd, CallsOK
    <3>2. HasId(item)
      BY <2>2 DEF HasId
    <3>3. n - 1 \in Nat
      OBVIOUS
    <3> QED
      BY <3>1, <3>2, <3>3
  <2>4. SameCalls(a, b)
    BY <2>1, <2>3, CapturePlain
  <2>5. StandEnd(b)
    BY <2>4, SameCallsStand
  <2>6. ItemsOK(b.items) /\ Holds(b.items, item) /\ HoldsOthers(a.items, b.items, item.id)
    BY <2>1, <2>3, CaptureHolds
  <2>7. Said(i) => item = SaidItem(i)
    BY <2>1 DEF TellsOf
  <2>8. ASSUME NEW j \in Others \ {i}, Said(j), Holds(a.items, SaidItem(j))
        PROVE  Holds(b.items, SaidItem(j))
    <3>1. SaidItem(j).id = ItemId(j)
      BY <2>8, SaidItemOK DEF Said
    <3>2. SaidItem(j).id # item.id
      BY <2>2, <2>8, <3>1 DEF ToldInv, Others
    <3> QED
      BY <2>6, <2>8, <3>2 DEF HoldsOthers
  <2> QED
    BY <2>5, <2>6, <2>7, <2>8
<1> QED
  BY <1>1, <1>2

\* What was told as done is in the items captured so far, if it is in the output so far.
HeldOf(items, output, n) ==
  \A j \in Others : Said(j) /\ (\E k \in 1..n : output[k].id = ItemId(j)) => Holds(items, SaidItem(j))

\* The whole output is captured.
LEMMA ReplacedStands ==
  ASSUME UpstreamInv, IdsInv, ToldInv, NEW a, StandEnd(a), ItemsOK(a.items), SaidHeld(a.items),
         NEW output, IsSeq(output), OutputTells(output), NEW b, b = Replaced(a, output)
  PROVE  StandEnd(b) /\ ItemsOK(b.items) /\ SaidHeld(b.items)
<1> DEFINE n == Len(output)
           none == [a EXCEPT !.items = <<>>]
<1>1. DOMAIN output = 1..n
  BY SeqOfElements
<1>2. n \in Nat
  BY SeqOfElements
<1> HIDE DEF n
<1>3. PICK g : CaptureRun(g, a, output, n) /\ ReplaceOutputItems(a, output) = g[n]
  BY <1>1, <1>2, CaptureUnrolled
<1> DEFINE Good(k) == StandEnd(g[k]) /\ ItemsOK(g[k].items) /\ HeldOf(g[k].items, output, k)
           P == {k \in 0..n : Good(k)}
<1>4. 0 \in P
  <2>1. SameCalls(a, none) /\ none.items = <<>>
    BY EmptyIsSeq DEF StandEnd, CallsOK, SameCalls, AccShape, AccFields
  <2>2. g[0] = none
    BY <1>3 DEF CaptureRun
  <2> HIDE DEF none
  <2>3. StandEnd(g[0])
    BY <2>1, <2>2, SameCallsStand
  <2>4. ItemsOK(g[0].items)
    BY <2>1, <2>2, EmptyIsSeq DEF ItemsOK
  <2>5. HeldOf(g[0].items, output, 0)
    BY DEF HeldOf
  <2> QED
    BY <1>2, <2>3, <2>4, <2>5
<1>5. ASSUME NEW k \in 1..n, k - 1 \in P PROVE k \in P
  <2> HIDE DEF none
  <2>1. Good(k - 1)
    BY <1>5
  <2>2. g[k] = CaptureOutputItem(g[k - 1], output[k], k - 1)
    BY <1>3 DEF CaptureRun
  <2>3. k \in Nat /\ k > 0
    BY <1>2
  <2>4. PICK i \in DOMAIN scripts : TellsOf(output[k], i)
    BY <1>1 DEF OutputTells
  <2> DEFINE c == g[k - 1]
             d == g[k]
  <2>5. StandEnd(c) /\ ItemsOK(c.items) /\ HeldOf(c.items, output, k - 1)
    BY <2>1
  <2>6. d = CaptureOutputItem(c, output[k], k - 1)
    BY <2>2
  <2> HIDE DEF c, d, P, Good
  <2>7. /\ StandEnd(d) /\ ItemsOK(d.items)
        /\ i \in Others /\ Said(i) => Holds(d.items, SaidItem(i))
        /\ \A j \in Others \ {i} : Said(j) /\ Holds(c.items, SaidItem(j)) => Holds(d.items, SaidItem(j))
    BY <2>3, <2>4, <2>5, <2>6, CaptureStands
  <2>8. ASSUME NEW j \in Others, Said(j), NEW m \in 1..k, output[m].id = ItemId(j)
        PROVE  Holds(d.items, SaidItem(j))
    <3>1. CASE j = i
      BY <2>7, <2>8, <3>1
    <3>2. CASE j # i
      <4>1. output[k].id # ItemId(j)
        BY <2>4, <3>2 DEF TellsOf, ToldInv, Others
      <4>2. m # k
        BY <2>8, <4>1
      <4>3. m \in 1..(k - 1)
        BY <2>3, <2>8, <4>2
      <4>4. Holds(c.items, SaidItem(j))
        BY <2>5, <2>8, <4>3 DEF HeldOf
      <4> QED
        BY <2>7, <2>8, <3>2, <4>4
    <3> QED
      BY <3>1, <3>2
  <2>9. HeldOf(d.items, output, k)
    BY <2>8 DEF HeldOf
  <2>10. Good(k)
    BY <2>7, <2>9 DEF Good, d
  <2>11. k \in 0..n
    BY <1>2
  <2> QED
    BY <2>10, <2>11 DEF P
<1> HIDE DEF P
<1>6. n \in P
  BY <1>2, <1>4, <1>5, Steps
<1>7. Good(n)
  BY <1>6 DEF P
<1> HIDE DEF none
<1>8. CASE output = <<>>
  BY <1>8 DEF Replaced
<1>9. CASE output # <<>>
  <2>1. b = g[n]
    BY <1>3, <1>9 DEF Replaced
  <2>2. \A j \in Others : Said(j) => \E k \in 1..n : output[k].id = ItemId(j)
    BY <1>1, <1>9 DEF OutputTells
  <2>3. SaidHeld(b.items)
    BY <1>7, <2>1, <2>2 DEF HeldOf, SaidHeld
  <2> QED
    BY <1>7, <2>1, <2>3
<1> QED
  BY <1>8, <1>9

\* Apply, of the terminal event.
LEMMA TerminalStands ==
  ASSUME UpstreamInv, IdsInv, ToldInv, NEW a, StandEnd(a), ItemsOK(a.items), SaidHeld(a.items),
         NEW output, IsSeq(output), OutputTells(output),
         NEW type, NEW event, OfEnd(event, type, output), NEW b, b = Apply(a, event)
  PROVE  StandEnd(b) /\ ItemsOK(b.items) /\ SaidHeld(b.items)
<1> DEFINE named == [a EXCEPT !.id = IF event.response
                                       THEN FirstNonEmpty(event.responseId, @)
                                       ELSE FirstNonEmpty(@, event.responseId),
                              !.status = FirstNonEmpty(event.respStatus, @),
                              !.usage = IF event.usage # NoUsage THEN event.usage ELSE @]
           told == ApplyMetadata(a, event)
           ended == [told EXCEPT !.terminal = event.type, !.final = event]
<1>1. told = Replaced(named, output)
  BY DEF ApplyMetadata, OfEnd
<1>2. SameCalls(a, named) /\ named.items = a.items
  BY DEF SameCalls, AccShape, AccFields, StandEnd, CallsOK
<1> HIDE DEF named
<1>3. StandEnd(named)
  BY <1>2, SameCallsStand
<1>4. StandEnd(told) /\ ItemsOK(told.items) /\ SaidHeld(told.items)
  BY <1>1, <1>2, <1>3, ReplacedStands
<1>5. b = Replaced(ended, output)
  <2>1. ApplyText(told, event) = told
    BY DEF ApplyText, OfEnd
  <2>2. CaptureOutputItem(told, event.item, event.index) = told
    BY CaptureNothing DEF OfEnd
  <2>3. event.type \notin {"arguments.delta", "arguments.done"}
    BY DEF OfEnd
  <2>4. b = ApplyTerminal(told, event)
    <3> HIDE DEF told
    <3> QED
      BY <2>1, <2>2, <2>3 DEF Apply, told
  <2> HIDE DEF told
  <2> QED
    BY <2>4 DEF ApplyTerminal, OfEnd
<1> HIDE DEF told
<1>6. SameCalls(told, ended) /\ ended.items = told.items
  BY <1>4 DEF SameCalls, AccShape, AccFields, StandEnd, CallsOK
<1> HIDE DEF ended
<1>7. StandEnd(ended)
  BY <1>4, <1>6, SameCallsStand
<1> QED
  BY <1>4, <1>5, <1>6, <1>7, ReplacedStands

-----------------------------------------------------------------------------
(* The output of the terminal response *)

\* The calls of the accumulator are calls.
LEMMA CallsAreShaped ==
  ASSUME NEW a, NEW tools, CallsOK(a, tools)
  PROVE  /\ CallShapes(a)
         /\ \A at \in DOMAIN a.calls : \E j \in tools :
              Known(a, j) /\ Place(a, j) = at /\ CallOf(a, j) = a.calls[at] /\ CallOK(a.calls[at], j)
<1>1. AccShape(a)
  BY DEF CallsOK
<1>2. ASSUME NEW at \in DOMAIN a.calls
      PROVE  \E j \in tools :
               Known(a, j) /\ Place(a, j) = at /\ CallOf(a, j) = a.calls[at] /\ CallOK(a.calls[at], j)
  <2>1. PICK j \in tools : Known(a, j) /\ Place(a, j) = at
    BY DEF CallsOK
  <2>2. CallOf(a, j) = a.calls[at]
    BY <2>1 DEF CallOf
  <2>3. CallOK(CallOf(a, j), j)
    BY <2>1 DEF CallsOK
  <2> QED
    BY <2>1, <2>2, <2>3
<1>3. ASSUME NEW at \in DOMAIN a.calls PROVE DOMAIN a.calls[at] = CallFields
  BY <1>2 DEF CallOK
<1> QED
  BY <1>1, <1>2, <1>3 DEF CallShapes

\* An output has an item like this one.
HasLike(output, item) == \E x \in ToSet(output) : Alike(x, item)

\* What is no message is left by the conversion of a schema, and everything without one.
LEMMA PatchedHas ==
  ASSUME NEW raw, NEW tuple, NEW n \in DOMAIN raw, raw[n].kind # "message" \/ ~tuple
  PROVE  raw[n] \in ToSet(PatchedOutput(raw, tuple))
<1>1. DOMAIN PatchedOutput(raw, tuple) = DOMAIN raw /\ PatchedOutput(raw, tuple)[n] = raw[n]
  BY DEF PatchedOutput
<1> QED
  BY <1>1 DEF ToSet

\* All that was told, or is told now, as done is in the output.
LEMMA OutputStands ==
  ASSUME UpstreamInv, IdsInv, ToldInv, NEW a, StandEnd(a), ItemsOK(a.items), SaidHeld(a.items),
         NEW p, LeavesCalls(a, p), NEW tuple \in BOOLEAN,
         NEW out, out = PatchedOutput(ResponsesOutput(p), tuple), NEW item,
         Stood(item) \/ \E at \in DOMAIN a.calls : item = DoneItemOf(a.calls[at]),
         item.kind \in ToolKinds \/ ~tuple
  PROVE  HasLike(out, item)
<1> DEFINE raw == ResponsesOutput(p)
<1>1. CallsOK(a, Tools)
  BY DEF StandEnd
<1>2. CallShapes(p) /\ DOMAIN p.calls = DOMAIN a.calls /\ p.items = a.items
      /\ \A at \in DOMAIN a.calls : ToldFields(a.calls[at], p.calls[at])
  BY DEF LeavesCalls
<1>3. \A at \in DOMAIN a.calls : a.calls[at].index \in Nat /\ a.calls[at].tool \in ToolKinds
  <2> SUFFICES ASSUME NEW at \in DOMAIN a.calls
               PROVE  a.calls[at].index \in Nat /\ a.calls[at].tool \in ToolKinds
    OBVIOUS
  <2>1. PICK j \in Tools :
          Known(a, j) /\ Place(a, j) = at /\ CallOf(a, j) = a.calls[at] /\ CallOK(a.calls[at], j)
    BY <1>1, CallsAreShaped
  <2> QED
    BY <2>1 DEF StandEnd, CallOK
<1>4. \A at \in DOMAIN p.calls : p.calls[at].index \in Nat
  BY <1>2, <1>3 DEF ToldFields
<1>5. IsSeq(p.calls) /\ ItemsOK(p.items)
  BY <1>2 DEF CallShapes, AccShape
<1>6. /\ \A at \in DOMAIN p.calls : \E n \in DOMAIN raw : \E status : raw[n] = ResponseOutputItem(p.calls[at], status)
      /\ \A m \in DOMAIN p.items : \E n \in DOMAIN raw : \E text, ending :
           raw[n] = FilledItem(p.items[m].item, text, ending)
  BY <1>4, <1>5, OutputHasAll
<1> HIDE DEF raw
<1>7. ASSUME NEW at \in DOMAIN a.calls, NEW status
      PROVE  HasLike(out, ResponseOutputItem(a.calls[at], status))
  <2>1. PICK n \in DOMAIN raw : \E s : raw[n] = ResponseOutputItem(p.calls[at], s)
    BY <1>2, <1>6
  <2>2. PICK s : raw[n] = ResponseOutputItem(a.calls[at], s)
    BY <1>2, <2>1, SameItem
  <2>3. raw[n].kind \in ToolKinds
    <3>1. raw[n].kind = a.calls[at].tool
      BY <2>2 DEF ResponseOutputItem, NoItem
    <3> QED
      BY <1>3, <3>1
  <2>4. raw[n] \in ToSet(out)
    BY <2>3, PatchedHas DEF ToolKinds, raw
  <2>5. Alike(raw[n], ResponseOutputItem(a.calls[at], status))
    BY <2>2, CallsAlike
  <2> QED
    BY <2>4, <2>5 DEF HasLike
<1>8. CASE \E at \in DOMAIN a.calls : item = DoneItemOf(a.calls[at])
  BY <1>7, <1>8 DEF DoneItemOf
<1>9. CASE \E j \in Tools : Closed(j) /\ item = ToolItem(j)
  <2>1. PICK j \in Tools : Closed(j) /\ item = ToolItem(j)
    BY <1>9
  <2>2. ToldCall(a, j)
    BY DEF StandEnd
  <2>3. Known(a, j)
    BY <1>1, <2>1, <2>2, ToldCallItem
  <2>4. ResponseOutputItem(CallOf(a, j), "completed") = item
    BY <1>1, <2>1, <2>2, ToldCallItem DEF ToolItem
  <2>5. Place(a, j) \in DOMAIN a.calls /\ a.calls[Place(a, j)] = CallOf(a, j)
    BY <1>1, <2>3 DEF CallsOK, CallOf
  <2> QED
    BY <1>7, <2>4, <2>5
<1>10. CASE \E j \in Others : Said(j) /\ item = SaidItem(j)
  <2>1. PICK j \in Others : Said(j) /\ item = SaidItem(j)
    BY <1>10
  <2>2. item.kind \notin ToolKinds /\ ItemWhole(item)
    BY <2>1, SaidItemOK DEF Said
  <2>3. Holds(p.items, item)
    BY <1>2, <2>1 DEF SaidHeld
  <2>4. PICK m \in DOMAIN p.items : p.items[m].item = item
    BY <2>3 DEF Holds
  <2>5. PICK n \in DOMAIN raw : \E text, ending : raw[n] = FilledItem(item, text, ending)
    BY <1>6, <2>4
  <2>6. Alike(raw[n], item)
    BY <2>2, <2>5, FilledAlike DEF ItemWhole
  <2>7. raw[n] \in ToSet(out)
    BY <2>2, PatchedHas DEF raw
  <2> QED
    BY <2>6, <2>7 DEF HasLike
<1> QED
  BY <1>8, <1>9, <1>10 DEF Stood

\* The converted text is no item.
LEMMA ConvertedTells ==
  ASSUME NEW out, IsSeq(out), NEW body,
         NEW converted \in {<<>>, << Frame("output_text.delta", -1, NoItem, body) >>}
  PROVE  IsSeq(out \o converted) /\ DoneItems(out \o converted) = DoneItems(out)
<1> DEFINE e == Frame("output_text.delta", -1, NoItem, body)
<1>1. CASE converted = <<>>
  BY <1>1, NothingAdded
<1>2. CASE converted = <<e>>
  <2>1. e.type # "output_item.done"
    BY DEF Frame
  <2> HIDE DEF e
  <2>2. out \o converted = Append(out, e)
    BY <1>2, OneAdded
  <2>3. DoneItems(Append(out, e)) = DoneItems(out)
    BY <2>1, DoneItemsAppended
  <2>4. IsSeq(Append(out, e))
    BY Appended
  <2> QED
    BY <2>2, <2>3, <2>4
<1> QED
  BY <1>1, <1>2

\* What was told as done is in the last frame.
LastHas(out, tuple) ==
  \A item \in DoneItems(out) :
    item.kind \in ToolKinds \/ ~tuple => HasLike(out[Len(out)].output, item)

\* responsesStreamEvents, of the terminal event.
LEMMA ResponsesTerminalStands ==
  ASSUME UpstreamInv, IdsInv, ToldInv, NEW stream, DOMAIN stream = StreamFields, IsSeq(stream.out),
         \A item \in DoneItems(stream.out) : Stood(item),
         NEW a, StandEnd(a), ItemsOK(a.items), SaidHeld(a.items),
         NEW type, NEW output, NEW event, OfEnd(event, type, output), NEW tuple \in BOOLEAN,
         NEW r, r = ResponsesEvents(stream, event, a, tuple)
  PROVE  LastHas(r.stream.out, tuple)
<1> DEFINE pending == PendingToolCallCompletionEvents(a)
           body == ReconvertJSONText(stream.tupleText)
           converted == IF tuple /\ stream.tupleText # <<>>
                          THEN << Frame("output_text.delta", -1, NoItem, body) >> ELSE <<>>
           last == ResponseStreamPayload(event, pending.acc, tuple)
           more == stream.out \o converted
           longer == [stream EXCEPT !.out = @ \o converted \o pending.events \o <<last>>]
<1>1. /\ event.type # "output_text.delta" /\ event.type # "output_text.done"
      /\ IsTerminal(event) /\ ToolCallStateForEvent(a, event) = 0
  BY DEF OfEnd, ToolCallStateForEvent
<1>2. r.stream = longer
  BY <1>1 DEF ResponsesEvents
<1>3. longer.out = (more \o pending.events) \o <<last>>
  <2> HIDE DEF converted, pending, last
  <2> QED
    BY DEF StreamFields
<1>4. last.type # "output_item.done" /\ last.output = PatchedOutput(ResponsesOutput(pending.acc), tuple)
  <2> HIDE DEF pending
  <2> QED
    BY DEF ResponseStreamPayload, OfEnd
<1>5. converted \in {<<>>, << Frame("output_text.delta", -1, NoItem, body) >>}
  OBVIOUS
<1> HIDE DEF converted, last, longer, body
<1>6. IsSeq(more) /\ DoneItems(more) = DoneItems(stream.out)
  BY <1>5, ConvertedTells
<1> HIDE DEF more
<1>7. CallShapes(a)
  BY CallsAreShaped DEF StandEnd
<1>8. Tells(a, pending, {DoneItemOf(a.calls[at]) : at \in DOMAIN a.calls})
  BY <1>7, PendingTells
<1> HIDE DEF pending
<1>9. /\ LeavesCalls(a, pending.acc) /\ IsSeq(pending.events)
      /\ DoneItems(pending.events) \subseteq {DoneItemOf(a.calls[at]) : at \in DOMAIN a.calls}
  BY <1>8 DEF Tells
<1> DEFINE all == more \o pending.events
<1>10. IsSeq(all) /\ DoneItems(all) = DoneItems(more) \union DoneItems(pending.events)
  BY <1>6, <1>9, DoneItemsJoined, Concatenated
<1> HIDE DEF all
<1>11. all \o <<last>> = Append(all, last)
  BY <1>10, OneAdded
<1> DEFINE out == Append(all, last)
<1>12. DoneItems(out) = DoneItems(all)
  BY <1>4, <1>10, DoneItemsAppended
<1>13. out[Len(out)] = last
  <2>1. Len(out) = Len(all) + 1 /\ out[Len(all) + 1] = last
    BY <1>10, Appended
  <2> HIDE DEF out
  <2> QED
    BY <2>1
<1>14. r.stream.out = out
  BY <1>2, <1>3, <1>11 DEF all
<1> HIDE DEF out
<1>15. ASSUME NEW item \in DoneItems(out), item.kind \in ToolKinds \/ ~tuple
       PROVE  HasLike(last.output, item)
  <2>1. Stood(item) \/ \E at \in DOMAIN a.calls : item = DoneItemOf(a.calls[at])
    BY <1>6, <1>9, <1>10, <1>12, <1>15
  <2> QED
    BY <1>4, <1>9, <1>15, <2>1, OutputStands
<1> QED
  BY <1>13, <1>14, <1>15 DEF LastHas

-----------------------------------------------------------------------------
(* Responses: what was told as done stands, to the end *)

\* The terminal event comes to a Responses stream.
LEMMA StandEnds ==
  ASSUME UpstreamInv, IdsInv, PairInv, ToldInv, StandInv, endpoint = "responses", NEW output \in Outputs,
         Complete(output) \/ \E reason \in {"max_output_tokens", "content_filter"} : Cut(output, reason)
  PROVE  StandInv'
<1>1. PICK type \in {"completed", "incomplete"}, reason \in Reasons :
        /\ phase = "streaming" /\ Handle(TerminalEvent(type, output, reason)) /\ phase' = "ended"
        /\ type = "completed" => \A i \in DOMAIN scripts : Finished(i)
  BY EndingEvents
<1> DEFINE event == TerminalEvent(type, output, reason)
           b == Apply(acc, event)
           r == ResponsesEvents(writer, event, b, structured)
<1>2. writer' = r.stream /\ structured' = structured
  BY <1>1 DEF Handle, WriteEvent
<1>3. OfEnd(event, type, output)
  BY TerminalEvents DEF OfEnd
<1>4. OutputTells(output) /\ IsSeq(output)
  BY OutputsTell, OutputsAreSequences
<1>5. DOMAIN writer = StreamFields /\ Told(acc, writer.out, Tools) /\ \A i \in Tools : AsTold(acc, i)
  BY <1>1 DEF PairInv
<1>6. /\ \A i \in Tools : ToldCall(acc, i)
      /\ ItemsOK(acc.items) /\ SaidHeld(acc.items)
      /\ \A item \in DoneItems(writer.out) : Stood(item)
  BY <1>1 DEF StandInv
<1>7. StandEnd(acc)
  <2>1. ASSUME NEW i \in Tools, Known(acc, i) PROVE CallOf(acc, i).index \in Nat
    <3>1. CallOf(acc, i).index = i - 1
      BY <1>5, <2>1 DEF AsTold, AtIndex
    <3>2. i \in Nat \ {0}
      BY DEF IdsInv, Tools
    <3> QED
      BY <3>1, <3>2
  <2> QED
    BY <1>5, <1>6, <2>1 DEF StandEnd, Told
<1> HIDE DEF event
<1>8. StandEnd(b) /\ ItemsOK(b.items) /\ SaidHeld(b.items)
  BY <1>3, <1>4, <1>6, <1>7, TerminalStands
<1>9. structured \in BOOLEAN /\ IsSeq(writer.out)
  BY <1>5 DEF UpstreamInv, Told, GoesOn
<1> HIDE DEF b
<1>10. LastHas(r.stream.out, structured)
  BY <1>3, <1>5, <1>6, <1>8, <1>9, ResponsesTerminalStands
<1> HIDE DEF r
<1>11. LastHas(writer'.out, structured')
  BY <1>2, <1>10
<1>12. DoneItemsStand'
  <2> SUFFICES ASSUME NEW k \in Indices(writer'.out, "output_item.done"),
                      writer'.out[k].item.kind \in ToolKinds \/ ~structured'
               PROVE  \E item \in ToSet(writer'.out[Len(writer'.out)].output) :
                        [item EXCEPT !.status = ""] = [writer'.out[k].item EXCEPT !.status = ""]
    BY DEF DoneItemsStand, Written, Indices
  <2>1. writer'.out[k].item \in DoneItems(writer'.out)
    BY DEF DoneItems
  <2>2. HasLike(writer'.out[Len(writer'.out)].output, writer'.out[k].item)
    BY <1>11, <2>1 DEF LastHas
  <2> QED
    BY <2>2 DEF HasLike, Alike
<1> QED
  BY <1>1, <1>12 DEF StandInv

\* No step takes a Responses stream out of the invariant.
LEMMA StandNext ==
  ASSUME UpstreamInv, IdsInv, PairInv, ToldInv, StandInv, [Next]_vars
  PROVE  StandInv'
<1>1. endpoint' = endpoint
  BY DEF Next, Begin, Receive, Complete, Cut, Fail, Cancel, Handle, vars
<1>2. CASE endpoint # "responses"
  BY <1>1, <1>2 DEF StandInv
<1>3. CASE endpoint = "responses"
  <2>1. CASE Begin
    BY <1>3, <2>1, StandBegin
  <2>2. ASSUME NEW i \in DOMAIN scripts, Receive(i) PROVE StandInv'
    <3>1. CASE i \in Tools
      BY <1>3, <2>2, <3>1, StandReceiveTool
    <3>2. CASE i \in Others
      BY <1>3, <2>2, <3>2, StandReceiveOther
    <3> QED
      BY <3>1, <3>2 DEF Others
  <2>3. ASSUME NEW output \in Outputs,
               Complete(output) \/ \E reason \in {"max_output_tokens", "content_filter"} : Cut(output, reason)
        PROVE  StandInv'
    BY <1>3, <2>3, StandEnds
  <2>4. CASE Fail \/ Cancel
    <3>1. phase' # "streaming" /\ phase' # "ended"
      BY <2>4 DEF Fail, Cancel
    <3> QED
      BY <3>1 DEF StandInv, DoneItemsStand
  <2>5. CASE UNCHANGED vars
    <3>1. /\ writer' = writer /\ phase' = phase /\ acc' = acc /\ scripts' = scripts
          /\ delivered' = delivered /\ structured' = structured
      BY <2>5 DEF vars
    <3>2. Tools' = Tools /\ Others' = Others /\ DoneItemsStand' = DoneItemsStand
      BY <1>1, <3>1 DEF Tools, Others, DoneItemsStand, Written, Indices
    <3>3. \A i : ToldCall(acc, i)' <=> ToldCall(acc, i)
      BY <3>1 DEF ToldCall, HasName, Closed, EndBody, Known, CallOf, Place, HasKind, IsNamed
    <3>4. SaidHeld(acc.items)' <=> SaidHeld(acc.items)
      BY <3>1, <3>2 DEF SaidHeld, Said, SaidItem, Finished
    <3>5. \A item : Stood(item)' <=> Stood(item)
      BY <3>1, <3>2 DEF Stood, Said, SaidItem, Finished, Closed, ToolItem, EndBody
    <3>6. DoneItems(writer.out)' = DoneItems(writer.out) /\ (ItemsOK(acc.items)' <=> ItemsOK(acc.items))
      BY <3>1 DEF DoneItems, Indices, ItemsOK
    <3> QED
      BY <1>1, <3>1, <3>2, <3>3, <3>4, <3>5, <3>6 DEF StandInv
  <2> QED
    BY <2>1, <2>2, <2>3, <2>4, <2>5 DEF Next
<1> QED
  BY <1>2, <1>3

\* What output_item.done told the client of a Responses stream stands in the output of
\* its terminal response (responsesStreamEvents, responseStreamPayload): a call has the
\* id, the name and the body with which it ended, any other item is kept by its id,
\* whether or not the upstream repeats them.
THEOREM DoneItemsStay == Spec => []DoneItemsStand
<1>1. Init => UpstreamInv /\ IdsInv /\ PairInv /\ ToldInv /\ StandInv
  BY UpstreamInit, IdsInit, PairInit, ToldInit, StandInit
<1>2. UpstreamInv /\ IdsInv /\ PairInv /\ ToldInv /\ StandInv /\ [Next]_vars
      => UpstreamInv' /\ IdsInv' /\ PairInv' /\ ToldInv' /\ StandInv'
  BY UpstreamNext, IdsNext, PairNext, ToldNext, StandNext
<1>3. UpstreamInv /\ StandInv => DoneItemsStand
  BY DEF StandInv, DoneItemsStand
<1> QED
  BY <1>1, <1>2, <1>3, PTL DEF Spec
=============================================================================
