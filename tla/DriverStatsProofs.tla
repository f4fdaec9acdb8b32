------------------------- MODULE DriverStatsProofs -------------------------
(***************************************************************************)
(* The driver's statistics for any number of CPUs, any depth of the queue  *)
(* and of the timeline, and any number of pushes, resets and reads.        *)
(***************************************************************************)
EXTENDS DriverStats, FiniteSetTheorems, SequenceTheorems, TLAPS

-----------------------------------------------------------------------------
(* Numbers and counting. *)

\* What StatsAssumption says of each constant.
LEMMA Constants ==
  /\ NCpus \in Nat \ {0} /\ Depth \in Nat \ {0} /\ SAFETY_TIMELINE_DEPTH \in Nat \ {0}
  /\ MaxPushes \in Nat /\ MaxCalls \in Nat
BY StatsAssumption

\* The larger of two numbers (the new fifo_high_watermark).
LEMMA MaxOfTwo ==
  ASSUME NEW a \in Int, NEW b \in Int
  PROVE  Max({a, b}) = IF a >= b THEN a ELSE b
PROOF
  <1>1. \E x \in {a, b} : \A y \in {a, b} : x >= y
    <2>1. CASE a >= b
      BY <2>1
    <2>2. CASE b >= a
      BY <2>2
    <2> QED
      BY <2>1, <2>2
  <1>2. /\ Max({a, b}) \in {a, b}
        /\ \A y \in {a, b} : Max({a, b}) >= y
    BY <1>1 DEF Max
  <1> QED
    BY <1>2

\* The smaller of two numbers (the bound on timeline_filled).
LEMMA MinOfTwo ==
  ASSUME NEW a \in Int, NEW b \in Int
  PROVE  Min({a, b}) = IF a <= b THEN a ELSE b
PROOF
  <1>1. \E x \in {a, b} : \A y \in {a, b} : x <= y
    <2>1. CASE a >= b
      BY <2>1
    <2>2. CASE b >= a
      BY <2>2
    <2> QED
      BY <2>1, <2>2
  <1>2. /\ Min({a, b}) \in {a, b}
        /\ \A y \in {a, b} : Min({a, b}) <= y
    BY <1>1 DEF Min
  <1> QED
    BY <1>2

\* An index into the ring, at most once around it.
LEMMA AroundOnce ==
  ASSUME NEW d \in Nat \ {0}, NEW x \in 0 .. (2 * d - 1)
  PROVE  x % d = IF x < d THEN x ELSE x - d
  OBVIOUS

\* Counting one more on a CPU adds one to the sums it is in.
LEMMA SumOneMore ==
  ASSUME NEW f \in [Cpus -> Nat], NEW S \in SUBSET Cpus, NEW c \in Cpus,
         IsFiniteSet(Counted(f, S))
  PROVE  LET g == [f EXCEPT ![c] = @ + 1]
         IN  /\ IsFiniteSet(Counted(g, S))
             /\ Sum(g, S) = Sum(f, S) + IF c \in S THEN 1 ELSE 0
PROOF
  <1> DEFINE g == [f EXCEPT ![c] = @ + 1]
             p == <<c, f[c] + 1>>
  <1>1. g \in [Cpus -> Nat] /\ g[c] = f[c] + 1 /\ f[c] \in Nat
        /\ \A d \in Cpus : d # c => g[d] = f[d]
    OBVIOUS
  <1> SUFFICES /\ IsFiniteSet(Counted(g, S))
               /\ Sum(g, S) = Sum(f, S) + IF c \in S THEN 1 ELSE 0
    OBVIOUS
  <1> HIDE DEF g
  <1>2. CASE c \in S
    <2>1. 1 .. g[c] = (1 .. f[c]) \cup {f[c] + 1}
      BY <1>1
    <2>2. Counted(g, S) = Counted(f, S) \cup {p}
      <3>1. ASSUME NEW q \in Counted(g, S) PROVE q \in Counted(f, S) \cup {p}
        BY <1>1, <2>1 DEF Counted
      <3>2. ASSUME NEW q \in Counted(f, S) PROVE q \in Counted(g, S)
        BY <1>1, <2>1 DEF Counted
      <3>3. p \in Counted(g, S)
        BY <1>2, <2>1 DEF Counted
      <3> QED
        BY <3>1, <3>2, <3>3
    <2>3. p \notin Counted(f, S)
      <3>1. f[c] + 1 \notin 1 .. f[c]
        BY <1>1
      <3> QED
        BY <3>1 DEF Counted
    <2>4. /\ IsFiniteSet(Counted(f, S) \cup {p})
          /\ Cardinality(Counted(f, S) \cup {p}) = Cardinality(Counted(f, S)) + 1
      <3> HIDE DEF p
      <3> QED
        BY <2>3, FS_AddElement
    <2> QED
      BY <1>2, <2>2, <2>4 DEF Sum
  <1>3. CASE c \notin S
    <2>1. Counted(g, S) = Counted(f, S)
      BY <1>1, <1>3 DEF Counted
    <2>2. Cardinality(Counted(f, S)) \in Nat
      BY FS_CardinalityType
    <2> QED
      BY <1>3, <2>1, <2>2 DEF Sum
  <1> QED
    BY <1>2, <1>3

\* One more CPU adds its counter to the sum.
LEMMA SumOneCpuMore ==
  ASSUME NEW f \in [Cpus -> Nat], NEW S \in SUBSET Cpus, NEW c \in Cpus \ S,
         IsFiniteSet(Counted(f, S))
  PROVE  /\ IsFiniteSet(Counted(f, S \cup {c}))
         /\ Sum(f, S \cup {c}) = Sum(f, S) + f[c]
PROOF
  <1> DEFINE A == Counted(f, S)
             B == {c} \X (1 .. f[c])
  <1>1. Counted(f, S \cup {c}) = A \cup B
    BY DEF Counted
  <1>2. A \cap B = {}
    BY DEF Counted
  <1>3. IsFiniteSet(1 .. f[c]) /\ Cardinality(1 .. f[c]) = f[c] /\ f[c] \in Nat
    <2>1. f[c] \in Nat
      OBVIOUS
    <2> QED
      BY <2>1, FS_Interval
  <1>4. IsFiniteSet(B) /\ Cardinality(B) = f[c]
    <2>1. IsFiniteSet({c}) /\ Cardinality({c}) = 1
      BY FS_Singleton, Zenon
    <2>2. IsFiniteSet(B) /\ Cardinality(B) = Cardinality({c}) * Cardinality(1 .. f[c])
      BY <1>3, <2>1, FS_Product
    <2> QED
      BY <1>3, <2>1, <2>2
  <1>5. Cardinality(A) \in Nat
    BY FS_CardinalityType
  <1> HIDE DEF A, B
  <1>6. /\ IsFiniteSet(A \cup B)
        /\ Cardinality(A \cup B) = Cardinality(A) + Cardinality(B) - Cardinality(A \cap B)
    <2>1. IsFiniteSet(A)
      BY DEF A
    <2> QED
      BY <1>4, <2>1, FS_Union
  <1>7. Cardinality(A \cup B) = Cardinality(A) + f[c]
    <2>1. Cardinality(A \cap B) = 0
      BY <1>2, FS_EmptySet
    <2> QED
      BY <1>3, <1>4, <1>5, <1>6, <2>1
  <1> QED
    BY <1>1, <1>6, <1>7, Zenon DEF A, Sum

\* A sum depends on the counters of its CPUs only.
LEMMA SumOfSame ==
  ASSUME NEW f \in [Cpus -> Nat], NEW g \in [Cpus -> Nat], NEW S \in SUBSET Cpus,
         \A cpu \in S : g[cpu] = f[cpu]
  PROVE  Counted(g, S) = Counted(f, S) /\ Sum(g, S) = Sum(f, S)
BY DEF Counted, Sum

\* A sum is a number, and that of fewer CPUs is finite too.
LEMMA SumType ==
  ASSUME NEW f, NEW S, NEW T \in SUBSET S, IsFiniteSet(Counted(f, S))
  PROVE  /\ IsFiniteSet(Counted(f, T)) /\ Sum(f, T) \in Nat /\ Sum(f, S) \in Nat
PROOF
  <1>1. Counted(f, T) \in SUBSET Counted(f, S)
    BY DEF Counted
  <1> QED
    BY <1>1, FS_Subset, FS_CardinalityType DEF Sum

\* The contexts at one of the control points P, and how many they are.
At(P) == {c \in Contexts : pc[c] \in P}
N(P) == Cardinality(At(P))

\* There are four contexts that push into rx_fifo, and two into tx_fifo.
LEMMA ContextsFinite == IsFiniteSet(Contexts)
PROOF
  <1> DEFINE P == ((({} \cup {"linkd"}) \cup {"timer"}) \cup {"work"}) \cup {"ctl"}
  <1>1. IsFiniteSet({}) /\ Contexts = (P \cup {"loop"}) \cup {"worker"}
    BY FS_EmptySet DEF Contexts, Pushers, Writers
  <1>2. IsFiniteSet({} \cup {"linkd"})
    BY <1>1, FS_AddElement
  <1>3. IsFiniteSet(({} \cup {"linkd"}) \cup {"timer"})
    BY <1>2, FS_AddElement
  <1>4. IsFiniteSet((({} \cup {"linkd"}) \cup {"timer"}) \cup {"work"})
    BY <1>3, FS_AddElement
  <1>5. IsFiniteSet(P)
    BY <1>4, FS_AddElement
  <1> HIDE DEF P
  <1>6. IsFiniteSet(P \cup {"loop"})
    BY <1>5, FS_AddElement
  <1>7. IsFiniteSet((P \cup {"loop"}) \cup {"worker"})
    BY <1>6, FS_AddElement
  <1> QED
    BY <1>1, <1>7

\* Going from one control point to another (Goto).
LEMMA GotoCounts ==
  ASSUME NEW c \in Contexts, NEW p, NEW P, DOMAIN pc = Contexts, Goto(c, p)
  PROVE  /\ N(P) \in Nat /\ N(P)' \in Nat
         /\ N(P)' + (IF pc[c] \in P THEN 1 ELSE 0) = N(P) + (IF p \in P THEN 1 ELSE 0)
PROOF
  <1> DEFINE R == At(P) \ {c}
  <1>1. IsFiniteSet(Contexts)
    BY ContextsFinite
  <1>2. IsFiniteSet(R)
    <2>1. R \in SUBSET Contexts
      BY DEF At
    <2> QED
      BY <1>1, <2>1, FS_Subset
  <1>3. At(P) = (IF pc[c] \in P THEN R \cup {c} ELSE R)
    BY DEF At
  <1>4. At(P)' = (IF p \in P THEN R \cup {c} ELSE R)
    BY DEF At, Goto
  <1>5. c \notin R /\ Cardinality(R) \in Nat
    BY <1>2, FS_CardinalityType
  <1>6. Cardinality(R \cup {c}) = Cardinality(R) + 1
    BY <1>2, <1>5, FS_AddElement
  <1> HIDE DEF R
  <1> QED
    BY <1>3, <1>4, <1>5, <1>6 DEF N

-----------------------------------------------------------------------------
(* The timeline. *)

\* The ring holds the trail: while it is not full from index 0 on, then from
\* the head on, once around.
RingInv ==
  LET D == SAFETY_TIMELINE_DEPTH IN
  /\ timeline_head \in 0 .. (D - 1) /\ timeline_filled \in 0 .. D
  /\ timeline \in [0 .. (D - 1) -> TimelineEvent \cup {"NONE"}]
  /\ trail \in Seq(TimelineEvent) /\ Len(trail) = timeline_filled
  /\ timeline_filled < D => timeline_head = timeline_filled
  /\ timeline_filled < D => \A i \in 1 .. timeline_filled : trail[i] = timeline[i - 1]
  /\ timeline_filled = D =>
       \A i \in 1 .. D : trail[i] = timeline[(timeline_head + (i - 1)) % D]

\* The newest events after one more: all of them, or all but the oldest.
LEMMA NewestAfter ==
  ASSUME NEW s \in Seq(TimelineEvent), NEW e \in TimelineEvent,
         Len(s) <= SAFETY_TIMELINE_DEPTH
  PROVE  Newest(Append(s, e)) =
           IF Len(s) < SAFETY_TIMELINE_DEPTH THEN Append(s, e) ELSE Tail(Append(s, e))
PROOF
  <1> DEFINE D == SAFETY_TIMELINE_DEPTH
             t == Append(s, e)
  <1>1. t \in Seq(TimelineEvent) /\ Len(t) = Len(s) + 1 /\ Len(s) \in Nat
        /\ D \in Nat \ {0}
    BY AppendProperties, LenProperties, Constants
  <1> HIDE DEF t
  <1>2. Newest(t) = SubSeq(t, Len(t) - Min({Len(t), D}) + 1, Len(t))
    BY DEF Newest
  <1>3. Min({Len(t), D}) = IF Len(t) <= D THEN Len(t) ELSE D
    BY <1>1, MinOfTwo
  <1>4. CASE Len(s) < D
    <2>1. Len(t) - Min({Len(t), D}) + 1 = 1
      BY <1>1, <1>3, <1>4
    <2>2. SubSeq(t, 1, Len(t)) = t
      BY <1>1, SubSeqFull
    <2> QED
      BY <1>2, <1>4, <2>1, <2>2, Zenon DEF t
  <1>5. CASE ~(Len(s) < D)
    <2>1. Len(t) - Min({Len(t), D}) + 1 = 2 /\ Len(t) # 0
      BY <1>1, <1>3, <1>5
    <2>2. SubSeq(t, 2, Len(t)) = Tail(t)
      BY <1>1, <2>1, TailIsSubSeq
    <2> QED
      BY <1>2, <1>5, <2>1, <2>2, Zenon DEF t
  <1> QED
    BY <1>4, <1>5

\* safety_timeline_record_locked keeps the ring and the trail together.
LEMMA RecordKeepsRing ==
  ASSUME RingInv, NEW e \in TimelineEvent, TimelineRecord(e)
  PROVE  RingInv'
PROOF
  <1> DEFINE D == SAFETY_TIMELINE_DEPTH
             h == timeline_head
             n == timeline_filled
             t == Append(trail, e)
  <1>1. /\ D \in Nat \ {0} /\ h \in 0 .. (D - 1) /\ n \in 0 .. D
        /\ timeline \in [0 .. (D - 1) -> TimelineEvent \cup {"NONE"}]
        /\ trail \in Seq(TimelineEvent) /\ Len(trail) = n
        /\ n < D => h = n /\ \A i \in 1 .. n : trail[i] = timeline[i - 1]
        /\ n = D => \A i \in 1 .. D : trail[i] = timeline[(h + (i - 1)) % D]
    BY Constants DEF RingInv
  <1>2. /\ timeline' = [timeline EXCEPT ![h] = e]
        /\ timeline_head' = (h + 1) % D
        /\ timeline_filled' = Min({n + 1, D})
        /\ trail' = IF n < D THEN t ELSE Tail(t)
    BY <1>1, NewestAfter DEF TimelineRecord
  <1>3. timeline_filled' = IF n < D THEN n + 1 ELSE D
    <2>1. n + 1 \in Int /\ D \in Int
      BY <1>1
    <2>2. Min({n + 1, D}) = IF n + 1 <= D THEN n + 1 ELSE D
      BY <2>1, MinOfTwo
    <2> QED
      BY <1>1, <1>2, <2>2
  <1>4. timeline_head' = IF h + 1 < D THEN h + 1 ELSE 0
    <2>1. h + 1 \in 0 .. (2 * D - 1)
      BY <1>1
    <2>2. (h + 1) % D = IF h + 1 < D THEN h + 1 ELSE (h + 1) - D
      <3> HIDE DEF D, h
      <3> QED
        BY <1>1, <2>1, AroundOnce, Zenon
    <2> QED
      BY <1>1, <1>2, <2>2
  <1>5. /\ t \in Seq(TimelineEvent) /\ Len(t) = n + 1 /\ t[n + 1] = e
        /\ \A i \in 1 .. n : t[i] = trail[i]
    BY <1>1, AppendProperties
  <1>6. /\ timeline' \in [0 .. (D - 1) -> TimelineEvent \cup {"NONE"}]
        /\ timeline'[h] = e
        /\ \A i \in 0 .. (D - 1) : i # h => timeline'[i] = timeline[i]
    BY <1>1, <1>2
  <1> HIDE DEF t, D
  <1>7. CASE n < D
    <2>1. h = n /\ trail' = t /\ timeline_filled' = n + 1
          /\ timeline_head' = IF n + 1 < D THEN n + 1 ELSE 0
      BY <1>1, <1>2, <1>3, <1>4, <1>7
    <2>2. ASSUME NEW i \in 1 .. (n + 1) PROVE t[i] = timeline'[i - 1]
      <3>1. CASE i = n + 1
        <4>1. i - 1 = h
          BY <1>1, <2>1, <3>1
        <4> QED
          BY <1>5, <1>6, <3>1, <4>1
      <3>2. CASE i # n + 1
        <4>1. i \in 1 .. n /\ i - 1 \in 0 .. (D - 1) /\ i - 1 # h
          BY <1>1, <2>1, <3>2
        <4> QED
          BY <1>1, <1>5, <1>6, <1>7, <4>1
      <3> QED
        BY <3>1, <3>2
    <2>3. ASSUME n + 1 = D
          PROVE  \A i \in 1 .. D : t[i] = timeline'[(timeline_head' + (i - 1)) % D]
      <3> TAKE i \in 1 .. D
      <3>1. timeline_head' = 0 /\ i \in 1 .. (n + 1) /\ i - 1 \in 0 .. (2 * D - 1)
            /\ i - 1 < D
        BY <1>1, <2>1, <2>3
      <3>2. (i - 1) % D = i - 1
        BY <1>1, <3>1, AroundOnce, Zenon
      <3>3. timeline_head' + (i - 1) = i - 1
        BY <1>1, <3>1
      <3> QED
        BY <2>2, <3>1, <3>2, <3>3
    <2>4. timeline_head' \in 0 .. (D - 1) /\ timeline_filled' \in 0 .. D
          /\ (timeline_filled' < D => timeline_head' = timeline_filled')
      BY <1>1, <1>7, <2>1
    <2> QED
      BY <1>5, <1>6, <2>1, <2>2, <2>3, <2>4 DEF RingInv, D
  <1>8. CASE n = D
    <2>1. timeline_filled' = D /\ trail' = Tail(t) /\ t # <<>>
          /\ timeline_head' = IF h + 1 < D THEN h + 1 ELSE 0
      BY <1>1, <1>2, <1>3, <1>4, <1>5, <1>8, EmptySeq
    <2>2. /\ Tail(t) \in Seq(TimelineEvent) /\ Len(Tail(t)) = n
          /\ \A i \in 1 .. n : Tail(t)[i] = t[i + 1]
      <3>1. /\ Tail(t) \in Seq(TimelineEvent) /\ Len(Tail(t)) = Len(t) - 1
            /\ \A i \in 1 .. Len(Tail(t)) : Tail(t)[i] = t[i + 1]
        BY <1>5, <2>1, HeadTailProperties
      <3> QED
        BY <1>1, <1>5, <3>1
    <2>3. ASSUME NEW i \in 1 .. D
          PROVE  Tail(t)[i] = timeline'[(timeline_head' + (i - 1)) % D]
      <3> DEFINE x == timeline_head' + (i - 1)
                 y == h + i
      <3>0. x \in 0 .. (2 * D - 1)
        BY <1>1, <2>1
      <3>1. x % D = IF x < D THEN x ELSE x - D
        BY <1>1, <3>0, AroundOnce, Zenon
      <3>2. CASE i = D
        <4>1. x % D = h
          BY <1>1, <2>1, <3>1, <3>2
        <4>2. Tail(t)[i] = e
          BY <1>1, <1>5, <1>8, <2>2, <3>2
        <4> QED
          BY <1>6, <4>1, <4>2, Zenon
      <3>3. CASE i # D
        <4>1. y \in 0 .. (2 * D - 1) /\ i + 1 \in 1 .. D /\ i \in 1 .. n
              /\ i + 1 \in 1 .. n /\ (i + 1) - 1 = i
          BY <1>1, <1>8, <3>3
        <4>2. y % D = IF y < D THEN y ELSE y - D
          <5> HIDE DEF y
          <5> QED
            BY <1>1, <4>1, AroundOnce, Zenon
        <4>3. x % D = y % D /\ y % D # h /\ y % D \in 0 .. (D - 1)
          <5> DEFINE z == IF y < D THEN y ELSE y - D
          <5>1. h \in Nat /\ D \in Nat /\ i \in Nat /\ h < D /\ 0 < i /\ i < D
            BY <1>1, <3>3
          <5>2. (IF x < D THEN x ELSE x - D) = z
            <6>1. CASE h + 1 < D
              BY <2>1, <5>1, <6>1
            <6>2. CASE ~(h + 1 < D)
              BY <2>1, <5>1, <6>2
            <6> QED
              BY <6>1, <6>2
          <5>3. z # h /\ z \in 0 .. (D - 1)
            BY <5>1
          <5> QED
            BY <3>1, <4>2, <5>2, <5>3
        <4>4. Tail(t)[i] = trail[i + 1]
          BY <1>5, <2>2, <4>1
        <4>5. trail[i + 1] = timeline[y % D]
          BY <1>1, <1>8, <4>1
        <4> QED
          BY <1>6, <4>3, <4>4, <4>5, Zenon
      <3> QED
        BY <3>2, <3>3, Zenon
    <2>4. timeline_head' \in 0 .. (D - 1) /\ timeline_filled' \in 0 .. D
          /\ ~(timeline_filled' < D)
      BY <1>1, <2>1
    <2> QED
      BY <1>6, <1>8, <2>1, <2>2, <2>3, <2>4 DEF RingInv, D
  <1> QED
    BY <1>1, <1>7, <1>8 DEF D

\* Every step leaves the ring alone, records one event, or is the reset.
LEMMA RingSteps ==
  ASSUME [Next]_vars
  PROVE  \/ UNCHANGED ringVars
         \/ \E e \in TimelineEvent : TimelineRecord(e)
         \/ /\ timeline_head' = 0 /\ timeline_filled' = 0 /\ trail' = <<>>
            /\ timeline' = timeline
PROOF
  <1>1. CASE TimerFires \/ WorkRuns \/ \E c \in Writers : PushTx(c)
    <2>1. TimelineRecord("TIMEOUT") \/ TimelineRecord("RECOVERY") \/ UNCHANGED ringVars
      BY <1>1, Zenon DEF TimerFires, WorkRuns, PushTx, ringVars
    <2> QED
      BY <2>1, Zenon DEF TimelineEvent
  <1>2. ASSUME NEW c \in Pushers, FifoPush(c)
        PROVE  UNCHANGED ringVars \/ \E e \in TimelineEvent : TimelineRecord(e)
    <2>1. UNCHANGED ringVars \/ TimelineRecord(EventOf(c))
      BY <1>2, Zenon DEF FifoPush, ringVars
    <2>2. EventOf(c) \in TimelineEvent
      BY DEF EventOf, TimelineEvent, Contexts, Pushers, Writers
    <2> QED
      BY <2>1, <2>2, Zenon
  <1>3. CASE ResetLocked
    BY <1>3 DEF ResetLocked
  <1>4. CASE LinkdPushes \/ InjectFault \/ Heard \/ PopFrame \/ PopTx \/ ResetCpu
             \/ GetStats \/ PercpuStatsShow \/ ShowRow \/ SumCpu
             \/ \E c \in Contexts : IncRx(c) \/ RecordDrop(c) \/ IncDropped(c)
    BY <1>4 DEF LinkdPushes, InjectFault, Heard, PopFrame, PopTx, ResetCpu, GetStats,
         PercpuStatsShow, StartRead, ShowRow, SumCpu, IncRx, RecordDrop, IncDropped,
         ringVars
  <1>5. CASE UNCHANGED vars
    BY <1>5 DEF vars, ringVars
  <1> QED
    BY <1>1, <1>2, <1>3, <1>4, <1>5, Zenon DEF Next, Contexts

\* A full ring is shown from its head on, another one from index 0 on.
LEMMA RingShown == RingInv => TimelineShown
PROOF
  <1> SUFFICES ASSUME RingInv PROVE Shown = trail
    BY DEF TimelineShown
  <1> DEFINE D == SAFETY_TIMELINE_DEPTH
             n == timeline_filled
             start == IF n < D THEN 0 ELSE timeline_head
             s == [i \in 1 .. n |-> timeline[(start + i - 1) % D]]
  <1>1. D \in Nat \ {0} /\ n \in 0 .. D /\ trail \in Seq(TimelineEvent) /\ Len(trail) = n
        /\ timeline_head \in 0 .. (D - 1)
    BY Constants DEF RingInv
  <1>2. ASSUME NEW i \in 1 .. n PROVE timeline[(start + i - 1) % D] = trail[i]
    <2>1. CASE n < D
      <3>1. i - 1 \in 0 .. (2 * D - 1) /\ i - 1 < D /\ start + i - 1 = i - 1
        BY <1>1, <2>1
      <3>2. (i - 1) % D = i - 1
        BY <1>1, <3>1, AroundOnce, Zenon
      <3> QED
        BY <2>1, <3>1, <3>2 DEF RingInv
    <2>2. CASE n = D
      <3>1. start = timeline_head /\ start + i - 1 = timeline_head + (i - 1)
            /\ i \in 1 .. D
        BY <1>1, <2>2
      <3> QED
        BY <2>2, <3>1 DEF RingInv
    <2> QED
      BY <1>1, <2>1, <2>2
  <1>3. Shown = s
    BY DEF Shown
  <1>4. \A i \in 1 .. n : trail[i] \in TimelineEvent
    BY <1>1, ElementOfSeq
  <1>5. s \in [1 .. n -> TimelineEvent] /\ \A i \in 1 .. n : s[i] = trail[i]
    BY <1>2, <1>4
  <1> HIDE DEF s
  <1>6. s \in Seq(TimelineEvent) /\ Len(s) = n
    BY <1>1, <1>5
  <1>7. s = trail
    BY <1>1, <1>5, <1>6, SeqEqual
  <1> QED
    BY <1>3, <1>7

\* The ring holds the trail at all times.
LEMMA RingHolds == Spec => []RingInv
PROOF
  <1>1. Init => RingInv
    <2> SUFFICES ASSUME Init PROVE RingInv
      OBVIOUS
    <2>1. trail \in Seq(TimelineEvent) /\ Len(trail) = 0
      BY DEF Init
    <2> QED
      BY <2>1, Constants DEF Init, RingInv
  <1>2. RingInv /\ [Next]_vars => RingInv'
    <2> SUFFICES ASSUME RingInv, [Next]_vars PROVE RingInv'
      OBVIOUS
    <2>1. CASE UNCHANGED ringVars
      BY <2>1 DEF RingInv, ringVars
    <2>2. CASE \E e \in TimelineEvent : TimelineRecord(e)
      BY <2>2, RecordKeepsRing, Zenon
    <2>3. CASE /\ timeline_head' = 0 /\ timeline_filled' = 0 /\ trail' = <<>>
               /\ timeline' = timeline
      <3>1. trail' \in Seq(TimelineEvent) /\ Len(trail') = 0
        BY <2>3
      <3> QED
        BY <2>3, <3>1, Constants DEF RingInv
    <2> QED
      BY <2>1, <2>2, <2>3, RingSteps
  <1> QED
    BY <1>1, <1>2, PTL DEF Spec

\* What timeline_show prints is the newest events since the last RESET_STATS,
\* for every depth of the ring and however often it has wrapped.
THEOREM TimelineFaithful == Spec => []TimelineShown
BY RingHolds, RingShown, PTL

-----------------------------------------------------------------------------
(* The watermark. *)

\* rx_fifo holds no more than the high watermark, or than what was there at
\* the last RESET_STATS.
THEOREM WatermarkHolds == Spec => []WatermarkCovers
PROOF
  <1> DEFINE Inv == /\ rx_len \in Nat /\ fifo_high_watermark \in Nat /\ kept \in Nat
                    /\ rx_len <= fifo_high_watermark \/ rx_len <= kept
  <1>1. Init => Inv
    BY DEF Init
  <1>2. Inv /\ [Next]_vars => Inv'
    <2> SUFFICES ASSUME Inv, [Next]_vars PROVE Inv'
      OBVIOUS
    <2>1. ASSUME NEW c \in Contexts, FifoPush(c) PROVE Inv'
      <3>1. CASE UNCHANGED <<rx_len, fifo_high_watermark, kept>>
        BY <3>1
      <3>2. CASE /\ rx_len' = rx_len + 1 /\ kept' = kept
                 /\ fifo_high_watermark' = Max({rx_len + 1, fifo_high_watermark})
        <4>1. rx_len + 1 \in Int /\ fifo_high_watermark \in Int
          OBVIOUS
        <4>2. Max({rx_len + 1, fifo_high_watermark}) =
                IF rx_len + 1 >= fifo_high_watermark THEN rx_len + 1
                ELSE fifo_high_watermark
          BY <4>1, MaxOfTwo
        <4> QED
          BY <3>2, <4>2
      <3> QED
        BY <2>1, <3>1, <3>2 DEF FifoPush
    <2>2. CASE PopFrame
      BY <2>2 DEF PopFrame
    <2>3. CASE ResetLocked
      BY <2>3 DEF ResetLocked
    <2>4. CASE LinkdPushes \/ TimerFires \/ WorkRuns \/ InjectFault \/ Heard \/ PopTx
               \/ ResetCpu \/ GetStats \/ PercpuStatsShow \/ ShowRow \/ SumCpu
               \/ (\E c \in Writers : PushTx(c))
               \/ (\E c \in Contexts : IncRx(c) \/ RecordDrop(c) \/ IncDropped(c))
               \/ UNCHANGED vars
      <3>1. UNCHANGED fifoVars
        BY <2>4 DEF LinkdPushes, TimerFires, WorkRuns, InjectFault, Begin, Heard, PushTx,
             PopTx, ResetCpu, GetStats, PercpuStatsShow, StartRead, ShowRow, SumCpu, IncRx,
             RecordDrop, IncDropped, vars, fifoVars
      <3> QED
        BY <3>1, SMTT(30) DEF fifoVars
    <2> QED
      BY <2>1, <2>2, <2>3, <2>4, Zenon DEF Next, Contexts
  <1>3. Inv => WatermarkCovers
    <2> SUFFICES ASSUME Inv PROVE WatermarkCovers
      OBVIOUS
    <2>1. Max({fifo_high_watermark, kept}) =
            IF fifo_high_watermark >= kept THEN fifo_high_watermark ELSE kept
      BY MaxOfTwo
    <2> QED
      BY <2>1 DEF WatermarkCovers
  <1> QED
    BY <1>1, <1>2, <1>3, PTL DEF Spec

-----------------------------------------------------------------------------
(* Types, and what the counters can have reached. *)

Points == {"idle", "push", "inc_rx", "heard", "drop", "inc_dropped"}
Busy == Points \ {"idle"}
LinkdIn(P) == IF pc["linkd"] \in P THEN 1 ELSE 0

CounterTypes ==
  /\ rx_len \in 0 .. Depth /\ tx_len \in 0 .. Depth
  /\ fifo_high_watermark \in 0 .. Depth /\ kept \in 0 .. Depth
  /\ heartbeat_count \in Nat /\ dropped_frame_count \in Nat /\ raced \in Nat
  /\ rx_frames \in [Cpus -> Nat] /\ dropped \in [Cpus -> Nat]
  /\ pc \in [Contexts -> Points] /\ frame \in Frame
  /\ reset \in [step : {"idle", "clear"}, cpu : Cpus]
  /\ reader \in [step : {"idle", "row", "sum"}, cpu : Cpus]
  /\ pushes \in 0 .. MaxPushes /\ calls \in 0 .. MaxCalls /\ resets \in 0 .. MaxCalls
  /\ shown \in [heartbeat : Nat, rx_total : Nat, rows : Nat]
  /\ undisturbed \in BOOLEAN

\* Each push is counted at most once in each place: those counted and those
\* that may still be are not more than have begun.
Accounts ==
  /\ heartbeat_count + LinkdIn(Busy) <= pushes
  /\ dropped_frame_count + N({"push", "drop"}) <= pushes
  /\ N(Busy) <= pushes /\ raced <= pushes
  /\ \A cpu \in Cpus :
       /\ rx_frames[cpu] + N({"push", "inc_rx"}) <= pushes
       /\ dropped[cpu] + N({"push", "drop", "inc_dropped"}) <= pushes

\* A loop over the CPUs goes to the next one, or ends (for_each_possible_cpu).
LEMMA NextCpuType ==
  ASSUME NEW T, NEW at \in [step : T, cpu : Cpus], NEW s, NEW after
  PROVE  NextCpu(at, s, after) \in [step : {s, after}, cpu : Cpus]
BY Constants, SMTT(30) DEF NextCpu, Cpus

\* Every step keeps the types of the counters.
LEMMA CounterTypesStep == CounterTypes /\ [Next]_vars => CounterTypes'
PROOF
  <1> SUFFICES ASSUME CounterTypes, [Next]_vars PROVE CounterTypes'
    OBVIOUS
  <1> USE Constants DEF CounterTypes, fifoVars, countVars, pcpuVars, ctxVars, resetVars,
          readerVars, Goto
  <1>1. ASSUME NEW c \in Contexts, Begin(c), frame' \in Frame PROVE CounterTypes'
    BY <1>1 DEF Begin, Points
  <1>2. CASE LinkdPushes \/ TimerFires \/ WorkRuns \/ InjectFault
    <2>1. frame' \in Frame
      BY <1>2 DEF LinkdPushes, TimerFires, WorkRuns, InjectFault
    <2>2. \E c \in Contexts : Begin(c)
      BY <1>2 DEF LinkdPushes, TimerFires, WorkRuns, InjectFault, Contexts, Pushers, Writers
    <2> QED
      BY <1>1, <2>1, <2>2
  <1>3. ASSUME NEW c \in Contexts, FifoPush(c) PROVE CounterTypes'
    <2>1. /\ \E p \in Points : pc' = [pc EXCEPT ![c] = p]
          /\ UNCHANGED <<tx_len, kept, countVars, pcpuVars, frame, pushes, resetVars,
                         readerVars, raced, undisturbed>>
      BY <1>3 DEF FifoPush, Points
    <2>2. rx_len' \in 0 .. Depth /\ fifo_high_watermark' \in 0 .. Depth
      <3>1. CASE UNCHANGED <<rx_len, fifo_high_watermark>>
        BY <3>1
      <3>2. CASE /\ rx_len < Depth /\ rx_len' = rx_len + 1
                 /\ fifo_high_watermark' = Max({rx_len + 1, fifo_high_watermark})
        <4>1. rx_len + 1 \in Int /\ fifo_high_watermark \in Int
          OBVIOUS
        <4>2. Max({rx_len + 1, fifo_high_watermark}) =
                IF rx_len + 1 >= fifo_high_watermark THEN rx_len + 1
                ELSE fifo_high_watermark
          BY <4>1, MaxOfTwo
        <4> QED
          BY <3>2, <4>2
      <3> QED
        BY <1>3, <3>1, <3>2 DEF FifoPush
    <2> QED
      BY <2>1, <2>2
  <1>4. ASSUME NEW c \in Contexts, IncRx(c) \/ RecordDrop(c) \/ IncDropped(c)
        PROVE  CounterTypes'
    <2>1. \E p \in Points : pc' = [pc EXCEPT ![c] = p]
      BY <1>4 DEF IncRx, RecordDrop, IncDropped, Points
    <2>2. rx_frames' \in [Cpus -> Nat] /\ dropped' \in [Cpus -> Nat]
      BY <1>4, SMTT(30) DEF IncRx, RecordDrop, IncDropped
    <2>3. dropped_frame_count' \in Nat /\ heartbeat_count' \in Nat
      BY <1>4, SMTT(30) DEF IncRx, RecordDrop, IncDropped
    <2>4. UNCHANGED <<tx_len, fifoVars, frame, pushes, resetVars, readerVars, raced,
                      undisturbed>>
      BY <1>4 DEF IncRx, RecordDrop, IncDropped
    <2> QED
      BY <2>1, <2>2, <2>3, <2>4, SMTT(30)
  <1>5. CASE Heard \/ PopFrame \/ PopTx
    <2>1. pc' \in [Contexts -> Points]
      BY <1>5 DEF Heard, PopFrame, PopTx, Points, Contexts, Pushers, Writers
    <2> QED
      BY <1>5, <2>1 DEF Heard, PopFrame, PopTx
  <1>51. ASSUME NEW c \in Contexts, PushTx(c) PROVE CounterTypes'
    <2>1. pc' = pc \/ pc' = [pc EXCEPT ![c] = "drop"]
      BY <1>51 DEF PushTx
    <2>2. pc' \in [Contexts -> Points]
      BY <2>1 DEF Points
    <2>3. tx_len' \in 0 .. Depth /\ pushes' \in 0 .. MaxPushes /\ raced' \in Nat
      BY <1>51 DEF PushTx
    <2>4. UNCHANGED <<fifoVars, countVars, pcpuVars, frame, resetVars, readerVars, undisturbed>>
      BY <1>51 DEF PushTx
    <2> QED
      BY <2>2, <2>3, <2>4, SMTT(30)
  <1>6. CASE ResetLocked
    <2>1. raced' \in Nat
      <3>1. {c \in Contexts : pc[c] # "idle"} \in SUBSET Contexts
        OBVIOUS
      <3>2. IsFiniteSet({c \in Contexts : pc[c] # "idle"})
        BY <3>1, ContextsFinite, FS_Subset, SMTT(30)
      <3> QED
        BY <1>6, <3>2, FS_CardinalityType DEF ResetLocked
    <2>2. reset' \in [step : {"idle", "clear"}, cpu : Cpus]
      BY <1>6 DEF ResetLocked, Cpus
    <2>3. /\ resets < MaxCalls /\ resets' = resets + 1 /\ heartbeat_count' = 0
          /\ dropped_frame_count' = 0 /\ fifo_high_watermark' = 0 /\ kept' = rx_len
          /\ UNCHANGED <<rx_len, tx_len, rx_frames, dropped, pc, frame, pushes, reader, calls,
                         shown>>
      BY <1>6 DEF ResetLocked
    <2>4. undisturbed' \in BOOLEAN
      BY <1>6, Zenon DEF ResetLocked
    <2> QED
      BY <2>1, <2>2, <2>3, <2>4, SMTT(30)
  <1>7. CASE ResetCpu
    <2>1. reset' \in [step : {"idle", "clear"}, cpu : Cpus]
      <3>1. NextCpu(reset, "clear", "idle") \in [step : {"clear", "idle"}, cpu : Cpus]
        BY NextCpuType, Zenon
      <3> QED
        BY <1>7, <3>1 DEF ResetCpu
    <2> QED
      BY <1>7, <2>1 DEF ResetCpu
  <1>8. CASE GetStats \/ PercpuStatsShow
    <2>1. reader' \in [step : {"idle", "row", "sum"}, cpu : Cpus]
      <3>1. reader' = [step |-> "sum", cpu |-> 1] \/ reader' = [step |-> "row", cpu |-> 1]
        BY <1>8 DEF GetStats, PercpuStatsShow, StartRead
      <3>2. 1 \in Cpus
        BY DEF Cpus
      <3> QED
        BY <3>1, <3>2
    <2>2. shown' \in [heartbeat : Nat, rx_total : Nat, rows : Nat]
      BY <1>8 DEF GetStats, PercpuStatsShow, StartRead, Nothing
    <2>3. undisturbed' \in BOOLEAN
      BY <1>8, Zenon DEF GetStats, PercpuStatsShow, StartRead
    <2>4. /\ calls < MaxCalls /\ calls' = calls + 1
          /\ UNCHANGED <<tx_len, fifoVars, countVars, pcpuVars, ctxVars, resetVars, raced>>
      BY <1>8 DEF GetStats, PercpuStatsShow, StartRead
    <2> QED
      BY <2>1, <2>2, <2>3, <2>4, SMTT(30)
  <1>9. CASE ShowRow \/ SumCpu
    <2>1. reader' \in [step : {"idle", "row", "sum"}, cpu : Cpus]
      <3>1. /\ NextCpu(reader, "row", "sum") \in [step : {"row", "sum"}, cpu : Cpus]
            /\ NextCpu(reader, "sum", "idle") \in [step : {"sum", "idle"}, cpu : Cpus]
        BY NextCpuType, ZenonT(30)
      <3>2. reader' \in {NextCpu(reader, "row", "sum"), NextCpu(reader, "sum", "idle")}
        BY <1>9 DEF ShowRow, SumCpu
      <3> QED
        BY <3>1, <3>2
    <2>2. shown' \in [heartbeat : Nat, rx_total : Nat, rows : Nat]
      BY <1>9 DEF ShowRow, SumCpu
    <2> QED
      BY <1>9, <2>1, <2>2 DEF ShowRow, SumCpu
  <1>10. CASE UNCHANGED vars
    BY <1>10 DEF vars
  <1> QED
    BY <1>2, <1>3, <1>4, <1>5, <1>51, <1>6, <1>7, <1>8, <1>9, <1>10, ZenonT(30)
       DEF Next, Contexts

\* No context goes anywhere in a step that leaves pc alone.
LEMMA SamePlaces ==
  ASSUME NEW P, pc' = pc
  PROVE  N(P)' = N(P) /\ LinkdIn(P)' = LinkdIn(P)
BY DEF N, At, LinkdIn

\* How many contexts are somewhere is a number.
LEMMA PlacesType ==
  ASSUME NEW P
  PROVE  N(P) \in Nat /\ LinkdIn(P) \in 0 .. 1
PROOF
  <1>1. At(P) \in SUBSET Contexts
    BY DEF At
  <1> QED
    BY <1>1, ContextsFinite, FS_Subset, FS_CardinalityType DEF N, LinkdIn

\* linkd is at a control point that a context went to, or where it was.
LEMMA LinkdGoes ==
  ASSUME NEW c \in Contexts, NEW p, NEW P, DOMAIN pc = Contexts, Goto(c, p)
  PROVE  LinkdIn(P)' = IF c # "linkd" THEN LinkdIn(P) ELSE IF p \in P THEN 1 ELSE 0
BY DEF LinkdIn, Goto, Contexts, Pushers, Writers

\* The contexts that RESET_STATS finds at work.
LEMMA BusyOnes ==
  ASSUME CounterTypes
  PROVE  Cardinality({c \in Contexts : pc[c] # "idle"}) = N(Busy)
PROOF
  <1>1. {c \in Contexts : pc[c] # "idle"} = At(Busy)
    BY DEF CounterTypes, At, Busy
  <1> QED
    BY <1>1 DEF N

\* Every step keeps the accounts: a push that is counted somewhere is not
\* counted there again.
LEMMA AccountsStep == CounterTypes /\ Accounts /\ [Next]_vars => Accounts'
PROOF
  <1> SUFFICES ASSUME CounterTypes, Accounts, [Next]_vars PROVE Accounts'
    OBVIOUS
  <1> DEFINE A == {"push", "drop"}
             B == {"push", "inc_rx"}
             D == {"push", "drop", "inc_dropped"}
  <1>1. /\ heartbeat_count \in Nat /\ dropped_frame_count \in Nat /\ raced \in Nat
        /\ pushes \in Nat /\ rx_frames \in [Cpus -> Nat] /\ dropped \in [Cpus -> Nat]
        /\ pc \in [Contexts -> Points] /\ DOMAIN pc = Contexts
    BY Constants DEF CounterTypes
  <1>2. /\ N(A) \in Nat /\ N(B) \in Nat /\ N(D) \in Nat /\ N(Busy) \in Nat
        /\ LinkdIn(Busy) \in 0 .. 1
    BY PlacesType
  <1>3. /\ heartbeat_count + LinkdIn(Busy) <= pushes
        /\ dropped_frame_count + N(A) <= pushes
        /\ N(Busy) <= pushes /\ raced <= pushes
        /\ \A cpu \in Cpus : rx_frames[cpu] + N(B) <= pushes /\ dropped[cpu] + N(D) <= pushes
    BY SMTT(30) DEF Accounts
  <1>4. ASSUME
          /\ heartbeat_count' + LinkdIn(Busy)' <= pushes'
          /\ dropped_frame_count' + N(A)' <= pushes'
          /\ N(Busy)' <= pushes' /\ raced' <= pushes'
          /\ \A cpu \in Cpus :
               rx_frames'[cpu] + N(B)' <= pushes' /\ dropped'[cpu] + N(D)' <= pushes'
        PROVE Accounts'
    BY <1>4 DEF Accounts
  <1>5. ASSUME NEW c \in Contexts, NEW p, Goto(c, p)
        PROVE  /\ N(A)' \in Nat /\ N(B)' \in Nat /\ N(D)' \in Nat /\ N(Busy)' \in Nat
               /\ N(A)' + (IF pc[c] \in A THEN 1 ELSE 0) = N(A) + (IF p \in A THEN 1 ELSE 0)
               /\ N(B)' + (IF pc[c] \in B THEN 1 ELSE 0) = N(B) + (IF p \in B THEN 1 ELSE 0)
               /\ N(D)' + (IF pc[c] \in D THEN 1 ELSE 0) = N(D) + (IF p \in D THEN 1 ELSE 0)
               /\ N(Busy)' + (IF pc[c] \in Busy THEN 1 ELSE 0)
                    = N(Busy) + (IF p \in Busy THEN 1 ELSE 0)
               /\ LinkdIn(Busy)' = IF c # "linkd" THEN LinkdIn(Busy)
                                   ELSE IF p \in Busy THEN 1 ELSE 0
    <2>1. ASSUME NEW P
          PROVE  /\ N(P)' \in Nat
                 /\ N(P)' + (IF pc[c] \in P THEN 1 ELSE 0) = N(P) + (IF p \in P THEN 1 ELSE 0)
      BY <1>1, <1>5, GotoCounts
    <2>2. LinkdIn(Busy)' = IF c # "linkd" THEN LinkdIn(Busy)
                           ELSE IF p \in Busy THEN 1 ELSE 0
      BY <1>1, <1>5, LinkdGoes, Zenon
    <2> HIDE DEF A, B, D
    <2> QED
      BY <2>1, <2>2, ZenonT(30)
  <1>6. ASSUME pc' = pc
        PROVE  /\ N(A)' = N(A) /\ N(B)' = N(B) /\ N(D)' = N(D) /\ N(Busy)' = N(Busy)
               /\ LinkdIn(Busy)' = LinkdIn(Busy)
    BY <1>6, SamePlaces, SMTT(30)
  <1> USE DEF fifoVars, countVars, pcpuVars, ctxVars, resetVars, readerVars
  <1>7. CASE LinkdPushes \/ TimerFires \/ WorkRuns \/ InjectFault
    <2>1. PICK c \in Contexts : Begin(c)
      BY <1>7 DEF LinkdPushes, TimerFires, WorkRuns, InjectFault, Contexts, Pushers, Writers
    <2>2. /\ pushes' = pushes + 1 /\ raced' \in {raced, raced + 1}
          /\ UNCHANGED <<heartbeat_count, dropped_frame_count, rx_frames, dropped>>
      BY <1>1, <2>1 DEF Begin
    <2>3. pc[c] = "idle" /\ Goto(c, "push")
      BY <2>1, SMTT(30) DEF Begin
    <2>4. /\ N(A)' = N(A) + 1 /\ N(B)' = N(B) + 1 /\ N(D)' = N(D) + 1
          /\ N(Busy)' = N(Busy) + 1
          /\ LinkdIn(Busy)' \in {LinkdIn(Busy), LinkdIn(Busy) + 1}
      <3>1. "push" \in Busy /\ "idle" \notin Busy
        BY DEF Busy, Points
      <3>2. c = "linkd" => LinkdIn(Busy) = 0
        BY <2>3, <3>1 DEF LinkdIn
      <3> QED
        BY <1>2, <1>5, <2>3, <3>1, <3>2
    <2> HIDE DEF A, B, D
    <2>5. \A cpu \in Cpus :
            rx_frames'[cpu] + N(B)' <= pushes' /\ dropped'[cpu] + N(D)' <= pushes'
      BY <1>1, <1>2, <1>3, <2>2, <2>4, SMTT(30)
    <2> QED
      BY <1>1, <1>2, <1>3, <1>4, <2>2, <2>4, <2>5
  <1>8. ASSUME NEW c \in Contexts, FifoPush(c) PROVE Accounts'
    <2>1. UNCHANGED <<heartbeat_count, dropped_frame_count, rx_frames, dropped, pushes, raced>>
      BY <1>8 DEF FifoPush
    <2>2. pc[c] = "push" /\ \E p \in {"inc_rx", "drop"} : Goto(c, p)
      BY <1>8 DEF FifoPush
    <2>3. /\ N(A)' <= N(A) /\ N(B)' <= N(B) /\ N(D)' <= N(D) /\ N(Busy)' = N(Busy)
          /\ LinkdIn(Busy)' = LinkdIn(Busy)
      <3>1. "push" \in Busy /\ "inc_rx" \in Busy /\ "drop" \in Busy
        BY DEF Busy, Points
      <3>2. c = "linkd" => LinkdIn(Busy) = 1
        BY <2>2, <3>1 DEF LinkdIn
      <3> QED
        BY <1>2, <1>5, <2>2, <3>1, <3>2
    <2>4. /\ N(A)' \in Nat /\ N(B)' \in Nat /\ N(D)' \in Nat /\ N(Busy)' \in Nat
      BY <1>5, <2>2
    <2> QED
      BY <1>1, <1>2, <1>3, <1>4, <2>1, <2>3, <2>4, SMTT(30)
  <1>9. ASSUME NEW c \in Contexts, IncRx(c) PROVE Accounts'
    <2>1. UNCHANGED <<heartbeat_count, dropped_frame_count, dropped, pushes, raced>>
      BY <1>9 DEF IncRx
    <2>2. pc[c] = "inc_rx" /\ \E p \in {"heard", "idle"} : Goto(c, p)
      BY <1>9 DEF IncRx
    <2>3. \A cpu \in Cpus : rx_frames'[cpu] <= rx_frames[cpu] + 1 /\ rx_frames'[cpu] \in Nat
      BY <1>1, <1>9, SMTT(30) DEF IncRx
    <2>4. /\ N(A)' = N(A) /\ N(B)' + 1 = N(B) /\ N(D)' = N(D) /\ N(Busy)' <= N(Busy)
          /\ LinkdIn(Busy)' <= LinkdIn(Busy) /\ LinkdIn(Busy)' \in 0 .. 1
          /\ N(B)' \in Nat /\ N(Busy)' \in Nat
      <3>1. "inc_rx" \in Busy /\ "heard" \in Busy /\ "idle" \notin Busy
        BY DEF Busy, Points
      <3>2. c = "linkd" => LinkdIn(Busy) = 1
        BY <2>2, <3>1 DEF LinkdIn
      <3> QED
        BY <1>2, <1>5, <2>2, <3>1, <3>2
    <2> QED
      BY <1>1, <1>2, <1>3, <1>4, <2>1, <2>3, <2>4, SMTT(30)
  <1>10. CASE Heard
    <2>1. /\ heartbeat_count' = heartbeat_count + 1
          /\ UNCHANGED <<dropped_frame_count, rx_frames, dropped, pushes, raced>>
      BY <1>10 DEF Heard
    <2>2. "linkd" \in Contexts /\ pc["linkd"] = "heard" /\ Goto("linkd", "idle")
      BY <1>10 DEF Heard, Contexts, Pushers, Writers
    <2>3. /\ N(A)' = N(A) /\ N(B)' = N(B) /\ N(D)' = N(D) /\ N(Busy)' + 1 = N(Busy)
          /\ LinkdIn(Busy) = 1 /\ LinkdIn(Busy)' = 0 /\ N(Busy)' \in Nat
      <3>1. "heard" \in Busy /\ "idle" \notin Busy
        BY DEF Busy, Points
      <3>2. LinkdIn(Busy) = 1
        BY <2>2, <3>1, SMTT(30) DEF LinkdIn
      <3> QED
        BY <1>2, <1>5, <2>2, <3>1, <3>2, SMTT(30)
    <2> QED
      BY <1>1, <1>2, <1>3, <1>4, <2>1, <2>3, SMTT(30)
  <1>11. ASSUME NEW c \in Contexts, RecordDrop(c) PROVE Accounts'
    <2>1. /\ dropped_frame_count' = dropped_frame_count + 1
          /\ UNCHANGED <<heartbeat_count, rx_frames, dropped, pushes, raced>>
      BY <1>11 DEF RecordDrop
    <2>2. pc[c] = "drop" /\ Goto(c, "inc_dropped")
      BY <1>11 DEF RecordDrop
    <2>3. /\ N(A)' + 1 = N(A) /\ N(B)' = N(B) /\ N(D)' = N(D) /\ N(Busy)' = N(Busy)
          /\ LinkdIn(Busy)' = LinkdIn(Busy) /\ N(A)' \in Nat
      <3>1. "drop" \in Busy /\ "inc_dropped" \in Busy
        BY DEF Busy, Points
      <3>2. c = "linkd" => LinkdIn(Busy) = 1
        BY <2>2, <3>1, SMTT(30) DEF LinkdIn
      <3> QED
        BY <1>2, <1>5, <2>2, <3>1, <3>2
    <2> QED
      BY <1>1, <1>2, <1>3, <1>4, <2>1, <2>3, SMTT(30)
  <1>12. ASSUME NEW c \in Contexts, IncDropped(c) PROVE Accounts'
    <2>1. UNCHANGED <<heartbeat_count, dropped_frame_count, rx_frames, pushes, raced>>
      BY <1>12 DEF IncDropped
    <2>2. pc[c] = "inc_dropped" /\ Goto(c, "idle")
      BY <1>12 DEF IncDropped
    <2>3. \A cpu \in Cpus : dropped'[cpu] <= dropped[cpu] + 1 /\ dropped'[cpu] \in Nat
      BY <1>1, <1>12 DEF IncDropped
    <2>4. /\ N(A)' = N(A) /\ N(B)' = N(B) /\ N(D)' + 1 = N(D) /\ N(Busy)' <= N(Busy)
          /\ LinkdIn(Busy)' <= LinkdIn(Busy) /\ LinkdIn(Busy)' \in 0 .. 1
          /\ N(D)' \in Nat /\ N(Busy)' \in Nat
      <3>1. "inc_dropped" \in Busy /\ "idle" \notin Busy
        BY DEF Busy, Points
      <3> QED
        BY <1>2, <1>5, <2>2, <3>1
    <2> QED
      BY <1>1, <1>2, <1>3, <1>4, <2>1, <2>3, <2>4, SMTT(30)
  <1>13. ASSUME NEW c \in Writers, PushTx(c) PROVE Accounts'
    <2>1. /\ pushes' = pushes + 1 /\ raced' \in {raced, raced + 1}
          /\ UNCHANGED <<heartbeat_count, dropped_frame_count, rx_frames, dropped>>
      BY <1>1, <1>13 DEF PushTx
    <2>2. c \in Contexts /\ c # "linkd" /\ pc[c] = "idle" /\ (pc' = pc \/ Goto(c, "drop"))
      BY <1>13 DEF PushTx, Contexts, Writers
    <2>3. CASE pc' = pc
      BY <1>1, <1>2, <1>3, <1>4, <1>6, <2>1, <2>3, SMTT(30)
    <2>4. CASE Goto(c, "drop")
      <3>1. "drop" \in Busy /\ "idle" \notin Busy
        BY DEF Busy, Points
      <3>2. /\ N(A)' = N(A) + 1 /\ N(B)' = N(B) /\ N(D)' = N(D) + 1
            /\ N(Busy)' = N(Busy) + 1 /\ LinkdIn(Busy)' = LinkdIn(Busy)
        BY <1>2, <1>5, <2>2, <2>4, <3>1
      <3> HIDE DEF A, B, D
      <3>3. \A cpu \in Cpus :
              rx_frames'[cpu] + N(B)' <= pushes' /\ dropped'[cpu] + N(D)' <= pushes'
        BY <1>1, <1>2, <1>3, <2>1, <3>2, SMTT(30)
      <3> QED
        BY <1>1, <1>2, <1>3, <1>4, <2>1, <3>2, <3>3
    <2> QED
      BY <2>2, <2>3, <2>4
  <1>14. CASE ResetLocked
    <2>1. raced' = N(Busy)
      BY <1>14, BusyOnes DEF ResetLocked
    <2>2. /\ heartbeat_count' = 0 /\ dropped_frame_count' = 0
          /\ UNCHANGED <<pc, pushes, rx_frames, dropped>>
      BY <1>14, SMTT(30) DEF ResetLocked
    <2> QED
      BY <1>1, <1>2, <1>3, <1>4, <1>6, <2>1, <2>2, SMTT(30)
  <1>15. CASE ResetCpu
    <2>1. UNCHANGED <<heartbeat_count, dropped_frame_count, pc, pushes, raced>>
      BY <1>15 DEF ResetCpu
    <2>2. \A cpu \in Cpus : /\ rx_frames'[cpu] \in Nat /\ rx_frames'[cpu] <= rx_frames[cpu]
                            /\ dropped'[cpu] \in Nat /\ dropped'[cpu] <= dropped[cpu]
      BY <1>1, <1>15, SMTT(30) DEF ResetCpu
    <2> QED
      BY <1>1, <1>2, <1>3, <1>4, <1>6, <2>1, <2>2, SMTT(30)
  <1>16. CASE PopFrame \/ PopTx \/ GetStats \/ PercpuStatsShow \/ ShowRow \/ SumCpu \/ UNCHANGED vars
    <2>1. UNCHANGED <<heartbeat_count, dropped_frame_count, rx_frames, dropped, pc, pushes, raced>>
      BY <1>16 DEF PopFrame, PopTx, GetStats, PercpuStatsShow, StartRead, ShowRow, SumCpu, vars
    <2> QED
      BY <1>3, <1>4, <1>6, <2>1, SMTT(30)
  <1> QED
    BY <1>7, <1>8, <1>9, <1>10, <1>11, <1>12, <1>13, <1>14, <1>15, <1>16, ZenonT(30) DEF Next, Contexts

\* The types and the accounts hold at all times.
LEMMA StatsAccounts == Spec => [](CounterTypes /\ Accounts)
PROOF
  <1>1. Init => CounterTypes
    <2> SUFFICES ASSUME Init PROVE CounterTypes
      OBVIOUS
    <2>1. 1 \in Cpus
      BY Constants DEF Cpus
    <2>2. undisturbed \in BOOLEAN
      BY Zenon DEF Init
    <2> QED
      BY <2>1, <2>2, Constants DEF Init, CounterTypes, Points, Frame, Idle, Nothing
  <1>2. Init => Accounts
    <2> SUFFICES ASSUME Init PROVE Accounts
      OBVIOUS
    <2>1. ASSUME NEW P, "idle" \notin P PROVE N(P) = 0
      <3>1. At(P) = {}
        BY <2>1 DEF Init, At
      <3> QED
        BY <3>1, FS_EmptySet DEF N
    <2>2. N({"push", "drop"}) = 0 /\ N({"push", "inc_rx"}) = 0 /\ N(Busy) = 0
          /\ N({"push", "drop", "inc_dropped"}) = 0
      BY <2>1 DEF Busy
    <2>3. LinkdIn(Busy) = 0
      BY DEF Init, LinkdIn, Busy, Contexts, Pushers, Writers
    <2> QED
      BY <2>2, <2>3 DEF Init, Accounts
  <1> QED
    BY <1>1, <1>2, CounterTypesStep, AccountsStep, PTL DEF Spec

\* Every counter, index and control point keeps its type, for every depth and
\* number of CPUs; no counter exceeds the number of frames pushed.
THEOREM StatsTypeCorrect == Spec => []TypeOK
PROOF
  <1>1. CounterTypes /\ Accounts /\ RingInv => TypeOK
    <2> SUFFICES ASSUME CounterTypes, Accounts, RingInv PROVE TypeOK
      OBVIOUS
    <2>1. /\ pushes \in 0 .. MaxPushes /\ heartbeat_count \in Nat /\ dropped_frame_count \in Nat
          /\ rx_frames \in [Cpus -> Nat] /\ dropped \in [Cpus -> Nat] /\ raced \in Nat
      BY DEF CounterTypes
    <2>2. /\ heartbeat_count <= pushes /\ dropped_frame_count <= pushes /\ raced <= pushes
          /\ \A cpu \in Cpus : rx_frames[cpu] <= pushes /\ dropped[cpu] <= pushes
      <3>1. \A P : N(P) \in Nat /\ LinkdIn(P) \in 0 .. 1
        BY PlacesType
      <3> QED
        BY <2>1, <3>1, Constants DEF Accounts
    <2>3. heartbeat_count \in 0 .. MaxPushes /\ dropped_frame_count \in 0 .. MaxPushes
          /\ raced \in 0 .. MaxPushes
      BY <2>1, <2>2, Constants
    <2>4. rx_frames \in [Cpus -> 0 .. MaxPushes] /\ dropped \in [Cpus -> 0 .. MaxPushes]
      BY <2>1, <2>2, Constants
    <2>5. /\ trail \in Seq(TimelineEvent) /\ Len(trail) <= SAFETY_TIMELINE_DEPTH
          /\ timeline \in [0..(SAFETY_TIMELINE_DEPTH - 1) -> TimelineEvent \cup {"NONE"}]
          /\ timeline_head \in 0..(SAFETY_TIMELINE_DEPTH - 1)
          /\ timeline_filled \in 0..SAFETY_TIMELINE_DEPTH
      BY Constants DEF RingInv
    <2>6. undisturbed \in BOOLEAN
      BY Zenon DEF CounterTypes
    <2> QED
      BY <2>3, <2>4, <2>5, <2>6, Zenon DEF CounterTypes, TypeOK, Points
  <1> QED
    BY <1>1, StatsAccounts, RingHolds, PTL

-----------------------------------------------------------------------------
(* The drops. *)

\* The CPUs whose counters count since the last RESET_STATS: while
\* safety_percpu_reset runs, those it has been to.
Cleared == IF reset.step = "idle" THEN Cpus ELSE 1 .. (reset.cpu - 1)

\* Every push that is at work while RESET_STATS runs may still be counted on
\* one side only.
DropInv ==
  /\ N({"inc_dropped"}) + Sum(dropped, Cleared) <= dropped_frame_count + raced
  /\ dropped_frame_count + (IF reset.step = "idle" THEN 0 ELSE N(Busy))
       <= raced + (N({"inc_dropped"}) + Sum(dropped, Cleared))

\* What the CPUs counted is finite: no CPU counted more than has been pushed.
LEMMA FiniteCounts ==
  ASSUME NEW f \in [Cpus -> Nat], NEW m \in Nat, \A cpu \in Cpus : f[cpu] <= m,
         NEW S \in SUBSET Cpus
  PROVE  IsFiniteSet(Counted(f, S)) /\ Sum(f, S) \in Nat
PROOF
  <1>1. IsFiniteSet(Cpus) /\ IsFiniteSet(1 .. m)
    BY Constants, FS_Interval DEF Cpus
  <1>2. IsFiniteSet(Cpus \X (1 .. m))
    BY <1>1, FS_Product
  <1>3. Counted(f, Cpus) \in SUBSET (Cpus \X (1 .. m))
    <2> SUFFICES ASSUME NEW q \in Counted(f, Cpus) PROVE q \in Cpus \X (1 .. m)
      OBVIOUS
    <2>1. PICK cpu \in Cpus : q \in {cpu} \X (1 .. f[cpu])
      BY DEF Counted
    <2>2. 1 .. f[cpu] \subseteq 1 .. m
      BY <2>1
    <2> QED
      BY <2>1, <2>2
  <1>4. IsFiniteSet(Counted(f, Cpus))
    BY <1>2, <1>3, FS_Subset
  <1> QED
    BY <1>4, SumType

\* So the sums of the driver's counters are numbers.
LEMMA StatsSums ==
  ASSUME CounterTypes, Accounts, NEW S \in SUBSET Cpus
  PROVE  /\ IsFiniteSet(Counted(rx_frames, S)) /\ Sum(rx_frames, S) \in Nat
         /\ IsFiniteSet(Counted(dropped, S)) /\ Sum(dropped, S) \in Nat
PROOF
  <1>1. rx_frames \in [Cpus -> Nat] /\ dropped \in [Cpus -> Nat] /\ pushes \in Nat
    BY Constants DEF CounterTypes
  <1>2. \A cpu \in Cpus : rx_frames[cpu] <= pushes /\ dropped[cpu] <= pushes
    <2>1. \A P : N(P) \in Nat
      BY PlacesType
    <2> QED
      BY <1>1, <2>1 DEF Accounts
  <1> QED
    BY <1>1, <1>2, FiniteCounts

\* Fewer control points, fewer contexts at them.
LEMMA FewerPlaces ==
  ASSUME NEW Q, NEW P \in SUBSET Q
  PROVE  N(P) <= N(Q)
PROOF
  <1>1. IsFiniteSet(At(Q))
    <2>1. At(Q) \in SUBSET Contexts
      BY DEF At
    <2> QED
      BY <2>1, ContextsFinite, FS_Subset
  <1>2. At(P) \in SUBSET At(Q)
    BY DEF At
  <1> QED
    BY <1>1, <1>2, FS_Subset DEF N

\* The CPUs a reset has been to are CPUs; at its begin there are none.
LEMMA ClearedCpus ==
  ASSUME CounterTypes
  PROVE  /\ Cleared \in SUBSET Cpus
         /\ reset.step = "idle" => Cleared = Cpus
         /\ reset.step # "idle" => reset.cpu \in Cpus \ Cleared
PROOF
  <1>1. reset.cpu \in 1 .. NCpus /\ NCpus \in Nat
    BY Constants DEF CounterTypes, Cpus
  <1>2. CASE reset.step = "idle"
    BY <1>2 DEF Cleared
  <1>3. CASE reset.step # "idle"
    <2>1. 1 .. (reset.cpu - 1) \in SUBSET (1 .. NCpus)
          /\ reset.cpu \notin 1 .. (reset.cpu - 1)
      BY <1>1
    <2> QED
      BY <1>1, <1>3, <2>1 DEF Cleared, Cpus
  <1> QED
    BY <1>2, <1>3

\* A turn of safety_percpu_reset adds a CPU that has counted nothing.
LEMMA TurnOfReset ==
  ASSUME CounterTypes, ResetCpu,
         NEW f \in [Cpus -> Nat], NEW m \in Nat, \A cpu \in Cpus : f[cpu] <= m
  PROVE  /\ Cleared' = Cleared \cup {reset.cpu}
         /\ Sum([f EXCEPT ![reset.cpu] = 0], Cleared') = Sum(f, Cleared)
PROOF
  <1> DEFINE n == reset.cpu
             g == [f EXCEPT ![n] = 0]
  <1>1. reset.step = "clear" /\ n \in Cpus \ Cleared /\ Cleared \in SUBSET Cpus
    BY ClearedCpus DEF ResetCpu
  <1>2. Cleared' = Cleared \cup {n}
    <2>1. n \in 1 .. NCpus /\ NCpus \in Nat
      BY Constants DEF CounterTypes, Cpus
    <2>2. Cleared = 1 .. (n - 1)
      BY <1>1 DEF Cleared
    <2>3. (1 .. (n - 1)) \cup {n} = 1 .. n
      BY <2>1
    <2>4. CASE n < NCpus
      <3>1. reset' = [step |-> "clear", cpu |-> n + 1]
        BY <2>4 DEF ResetCpu, NextCpu
      <3>2. (n + 1) - 1 = n
        BY <2>1
      <3> QED
        BY <2>2, <2>3, <3>1, <3>2, Zenon DEF Cleared
    <2>5. CASE ~(n < NCpus)
      <3>1. reset' = [step |-> "idle", cpu |-> 1]
        BY <2>5 DEF ResetCpu, NextCpu
      <3>2. n = NCpus
        BY <2>1, <2>5
      <3> QED
        BY <2>2, <2>3, <3>1, <3>2 DEF Cleared, Cpus
    <2> QED
      BY <2>4, <2>5
  <1>3. g \in [Cpus -> Nat] /\ g[n] = 0 /\ \A cpu \in Cpus : cpu # n => g[cpu] = f[cpu]
    BY <1>1
  <1>4. \A cpu \in Cpus : g[cpu] <= m
    BY <1>3
  <1> HIDE DEF g, n
  <1>5. Sum(g, Cleared) = Sum(f, Cleared)
    <2>1. \A cpu \in Cleared : g[cpu] = f[cpu]
      BY <1>1, <1>3
    <2> QED
      BY <1>1, <1>3, <2>1, SumOfSame
  <1>6. IsFiniteSet(Counted(g, Cleared)) /\ Sum(g, Cleared) \in Nat
    BY <1>1, <1>3, <1>4, FiniteCounts
  <1>7. Sum(g, Cleared \cup {n}) = Sum(g, Cleared) + g[n]
    BY <1>1, <1>3, <1>6, SumOneCpuMore
  <1>8. Sum(g, Cleared') = Sum(f, Cleared)
    BY <1>2, <1>3, <1>5, <1>6, <1>7
  <1> QED
    BY <1>2, <1>8 DEF g, n

\* Every step keeps the drops together.
LEMMA DropStep ==
  ASSUME CounterTypes, Accounts, DropInv, [Next]_vars
  PROVE  DropInv'
PROOF
  <1> DEFINE K == {"inc_dropped"}
             s == Sum(dropped, Cleared)
             still == reset.step = "idle"
  <1>1. /\ dropped_frame_count \in Nat /\ raced \in Nat /\ pushes \in Nat
        /\ dropped \in [Cpus -> Nat] /\ DOMAIN pc = Contexts
        /\ Cleared \in SUBSET Cpus
    BY Constants, ClearedCpus DEF CounterTypes
  <1>2. N(K) \in Nat /\ N(Busy) \in Nat
    BY PlacesType
  <1>3. s \in Nat /\ IsFiniteSet(Counted(dropped, Cleared))
    BY <1>1, StatsSums
  <1>4. /\ N(K) + s <= dropped_frame_count + raced
        /\ dropped_frame_count + (IF still THEN 0 ELSE N(Busy)) <= raced + (N(K) + s)
    BY DEF DropInv
  <1>5. ASSUME /\ N(K)' + s' <= dropped_frame_count' + raced'
               /\ dropped_frame_count' + (IF still' THEN 0 ELSE N(Busy)') <= raced' + (N(K)' + s')
        PROVE  DropInv'
    BY <1>5 DEF DropInv
  <1>6. ASSUME NEW c \in Contexts, NEW p, Goto(c, p)
        PROVE  /\ N(K)' \in Nat /\ N(Busy)' \in Nat
               /\ N(K)' + (IF pc[c] \in K THEN 1 ELSE 0) = N(K) + (IF p \in K THEN 1 ELSE 0)
               /\ N(Busy)' + (IF pc[c] \in Busy THEN 1 ELSE 0)
                    = N(Busy) + (IF p \in Busy THEN 1 ELSE 0)
    <2>1. ASSUME NEW P
          PROVE  /\ N(P)' \in Nat
                 /\ N(P)' + (IF pc[c] \in P THEN 1 ELSE 0) = N(P) + (IF p \in P THEN 1 ELSE 0)
      BY <1>1, <1>6, GotoCounts
    <2> HIDE DEF K
    <2> QED
      BY <2>1, Zenon
  <1>7. UNCHANGED <<dropped, reset>> => s' = s /\ still' = still
    BY DEF Cleared
  <1> HIDE DEF s
  <1>8. CASE LinkdPushes \/ TimerFires \/ WorkRuns \/ InjectFault
    <2>1. PICK c \in Contexts : Begin(c)
      BY <1>8 DEF LinkdPushes, TimerFires, WorkRuns, InjectFault, Contexts, Pushers, Writers
    <2>2. /\ raced' = raced + (IF still THEN 0 ELSE 1)
          /\ UNCHANGED <<dropped_frame_count, dropped, reset>>
      BY <2>1 DEF Begin, countVars, pcpuVars, resetVars
    <2>3. pc[c] = "idle" /\ Goto(c, "push")
      BY <2>1 DEF Begin
    <2>4. N(K)' = N(K) /\ N(Busy)' = N(Busy) + 1
      <3>1. "push" \in Busy /\ "idle" \notin Busy
        BY DEF Busy, Points
      <3> QED
        BY <1>2, <1>6, <2>3, <3>1
    <2> HIDE DEF K, still
    <2> QED
      BY <1>1, <1>2, <1>3, <1>4, <1>5, <1>7, <2>2, <2>4
  <1>9. ASSUME NEW c \in Contexts, FifoPush(c) \/ IncRx(c) \/ (c = "linkd" /\ Heard)
        PROVE  DropInv'
    <2>1. UNCHANGED <<dropped_frame_count, dropped, reset, raced>>
      BY <1>9 DEF FifoPush, IncRx, Heard, countVars, pcpuVars, resetVars
    <2>2. /\ pc[c] \in Busy \ K
          /\ \E p \in Points \ K : Goto(c, p)
      BY <1>9 DEF FifoPush, IncRx, Heard, Busy, Points
    <2>3. N(K)' = N(K) /\ N(Busy)' <= N(Busy) /\ N(Busy)' \in Nat
      BY <1>2, <1>6, <2>2
    <2> HIDE DEF K, still
    <2> QED
      BY <1>1, <1>2, <1>3, <1>4, <1>5, <1>7, <2>1, <2>3, SMTT(30)
  <1>10. ASSUME NEW c \in Contexts, RecordDrop(c) PROVE DropInv'
    <2>1. /\ dropped_frame_count' = dropped_frame_count + 1
          /\ UNCHANGED <<dropped, reset, raced>>
      BY <1>10 DEF RecordDrop, pcpuVars, resetVars
    <2>2. pc[c] = "drop" /\ Goto(c, "inc_dropped")
      BY <1>10 DEF RecordDrop
    <2>3. N(K)' = N(K) + 1 /\ N(Busy)' = N(Busy)
      <3>1. "drop" \in Busy /\ "inc_dropped" \in Busy
        BY DEF Busy, Points
      <3> QED
        BY <1>2, <1>6, <2>2, <3>1
    <2> HIDE DEF K, still
    <2> QED
      BY <1>1, <1>2, <1>3, <1>4, <1>5, <1>7, <2>1, <2>3
  <1>11. ASSUME NEW c \in Contexts, IncDropped(c) PROVE DropInv'
    <2>1. PICK cpu \in Cpus : dropped' = [dropped EXCEPT ![cpu] = @ + 1]
      BY <1>11, Zenon DEF IncDropped
    <2>2. UNCHANGED <<dropped_frame_count, reset, raced>>
      BY <1>11 DEF IncDropped, countVars, resetVars
    <2>3. pc[c] = "inc_dropped" /\ Goto(c, "idle")
      BY <1>11 DEF IncDropped
    <2>4. N(K)' + 1 = N(K) /\ N(Busy)' + 1 = N(Busy) /\ N(K)' \in Nat /\ N(Busy)' \in Nat
      <3>1. "inc_dropped" \in Busy /\ "idle" \notin Busy
        BY DEF Busy, Points
      <3> QED
        BY <1>2, <1>6, <2>3, <3>1
    <2>5. s' = s + (IF cpu \in Cleared THEN 1 ELSE 0)
      <3>1. Cleared' = Cleared
        BY <2>2 DEF Cleared
      <3>2. Sum([dropped EXCEPT ![cpu] = @ + 1], Cleared)
              = Sum(dropped, Cleared) + (IF cpu \in Cleared THEN 1 ELSE 0)
        BY <1>1, <1>3, SumOneMore, Zenon
      <3> QED
        BY <2>1, <3>1, <3>2 DEF s
    <2>6. still => cpu \in Cleared
      BY <2>1 DEF Cleared
    <2>7. still' = still
      BY <2>2
    <2> HIDE DEF K, still
    <2> QED
      BY <1>1, <1>2, <1>3, <1>4, <1>5, <2>2, <2>4, <2>5, <2>6, <2>7
  <1>12. CASE ResetLocked
    <2>1. /\ dropped_frame_count' = 0 /\ pc' = pc /\ ~still' /\ Cleared' = {}
          /\ raced' = N(Busy)
      BY <1>12, BusyOnes DEF ResetLocked, ctxVars, Cleared
    <2>2. s' = 0
      <3>1. Counted(dropped', {}) = {}
        BY DEF Counted
      <3> QED
        BY <2>1, <3>1, FS_EmptySet DEF s, Sum
    <2>3. N(K)' = N(K) /\ N(Busy)' = N(Busy)
      BY <2>1, SamePlaces
    <2>4. N(K) <= N(Busy)
      <3>1. K \in SUBSET Busy
        BY DEF Busy, Points
      <3> QED
        BY <3>1, FewerPlaces
    <2> HIDE DEF K, still
    <2> QED
      BY <1>2, <1>5, <2>1, <2>2, <2>3, <2>4, SMTT(30)
  <1>13. CASE ResetCpu
    <2>1. /\ UNCHANGED <<dropped_frame_count, raced, pc>> /\ ~still
          /\ dropped' = [dropped EXCEPT ![reset.cpu] = 0]
      BY <1>13 DEF ResetCpu, countVars, ctxVars
    <2>2. s' = s
      <3>1. \A cpu \in Cpus : dropped[cpu] <= pushes
        <4>1. N({"push", "drop", "inc_dropped"}) \in Nat
          BY PlacesType
        <4> QED
          BY <1>1, <4>1 DEF Accounts
      <3> QED
        BY <1>1, <1>13, <2>1, <3>1, TurnOfReset, Zenon DEF s
    <2>3. N(K)' = N(K) /\ N(Busy)' = N(Busy)
      BY <2>1, SamePlaces
    <2> HIDE DEF K, still
    <2> QED
      BY <1>1, <1>2, <1>3, <1>4, <1>5, <2>1, <2>2, <2>3
  <1>81. ASSUME NEW c \in Writers, PushTx(c) PROVE DropInv'
    <2>1. /\ raced' = raced + (IF still THEN 0 ELSE 1)
          /\ UNCHANGED <<dropped_frame_count, dropped, reset>>
      BY <1>81 DEF PushTx, countVars, pcpuVars, resetVars
    <2>2. c \in Contexts /\ pc[c] = "idle" /\ (pc' = pc \/ Goto(c, "drop"))
      BY <1>81 DEF PushTx, Contexts
    <2>3. N(K)' = N(K) /\ N(Busy)' \in {N(Busy), N(Busy) + 1}
      <3>1. CASE pc' = pc
        BY <3>1, SamePlaces
      <3>2. CASE Goto(c, "drop")
        <4>1. "drop" \in Busy /\ "idle" \notin Busy
          BY DEF Busy, Points
        <4> QED
          BY <1>2, <1>6, <2>2, <3>2, <4>1
      <3> QED
        BY <2>2, <3>1, <3>2
    <2> HIDE DEF K, still
    <2> QED
      BY <1>1, <1>2, <1>3, <1>4, <1>5, <1>7, <2>1, <2>3, SMTT(30)
  <1>14. CASE PopFrame \/ PopTx \/ GetStats \/ PercpuStatsShow \/ ShowRow \/ SumCpu
              \/ UNCHANGED vars
    <2>1. UNCHANGED <<dropped_frame_count, dropped, pc, reset, raced>>
      BY <1>14 DEF PopFrame, PopTx, GetStats, PercpuStatsShow, StartRead, ShowRow, SumCpu,
           vars, countVars, pcpuVars, ctxVars, resetVars
    <2>2. N(K)' = N(K) /\ N(Busy)' = N(Busy)
      BY <2>1, SamePlaces
    <2> QED
      BY <1>4, <1>5, <1>7, <2>1, <2>2
  <1> QED
    <2>1. CASE Heard
      <3>1. "linkd" \in Contexts
        BY DEF Contexts, Pushers, Writers
      <3> QED
        BY <1>9, <2>1, <3>1
    <2> QED
      BY <1>8, <1>81, <1>9, <1>10, <1>11, <1>12, <1>13, <1>14, <2>1, ZenonT(30)
         DEF Next, Contexts

\* Nothing has been dropped or cleared at first.
LEMMA NothingCounted ==
  ASSUME Init
  PROVE  /\ \A P : "idle" \notin P => N(P) = 0
         /\ \A S \in SUBSET Cpus : Sum(rx_frames, S) = 0 /\ Sum(dropped, S) = 0
PROOF
  <1>1. ASSUME NEW P, "idle" \notin P PROVE N(P) = 0
    <2>1. At(P) = {}
      BY <1>1 DEF Init, At
    <2> QED
      BY <2>1, FS_EmptySet DEF N
  <1>2. ASSUME NEW S \in SUBSET Cpus PROVE Sum(rx_frames, S) = 0 /\ Sum(dropped, S) = 0
    <2>1. Counted(rx_frames, S) = {} /\ Counted(dropped, S) = {}
      BY DEF Init, Counted
    <2> QED
      BY <2>1, FS_EmptySet DEF Sum
  <1> QED
    BY <1>1, <1>2

\* The counter under dev->lock and the counters of the CPUs agree about the
\* drops, but for pushes that overlap the last RESET_STATS and those between
\* the two counters, for every number of CPUs.
THEOREM DropsCounted == Spec => []DropsAgree
PROOF
  <1>1. Init => DropInv
    <2> SUFFICES ASSUME Init PROVE DropInv
      OBVIOUS
    <2>1. N({"inc_dropped"}) = 0 /\ reset.step = "idle" /\ Cleared = Cpus
          /\ dropped_frame_count = 0 /\ raced = 0
      BY NothingCounted DEF Init, Idle, Cleared
    <2>2. Sum(dropped, Cleared) = 0
      BY <2>1, NothingCounted
    <2> QED
      BY <2>1, <2>2 DEF DropInv
  <1>2. CounterTypes /\ Accounts /\ DropInv => DropsAgree
    <2> SUFFICES ASSUME CounterTypes, Accounts, DropInv, reset.step = "idle"
                 PROVE  LET between == Cardinality({c \in Contexts : pc[c] = "inc_dropped"})
                            gap == dropped_frame_count - (between + Total(dropped))
                        IN  -raced <= gap /\ gap <= raced
      BY DEF DropsAgree
    <2>1. Cardinality({c \in Contexts : pc[c] = "inc_dropped"}) = N({"inc_dropped"})
      <3>1. {c \in Contexts : pc[c] = "inc_dropped"} = At({"inc_dropped"})
        BY DEF At
      <3> QED
        BY <3>1 DEF N
    <2>2. Cleared = Cpus /\ Total(dropped) = Sum(dropped, Cleared)
      BY DEF Cleared, Total
    <2>3. N({"inc_dropped"}) \in Nat /\ Sum(dropped, Cleared) \in Nat
          /\ dropped_frame_count \in Nat /\ raced \in Nat
      BY <2>2, PlacesType, StatsSums DEF CounterTypes
    <2> QED
      BY <2>1, <2>2, <2>3 DEF DropInv
  <1>3. CounterTypes /\ Accounts /\ DropInv /\ [Next]_vars => DropInv'
    BY DropStep
  <1> QED
    BY <1>1, <1>2, <1>3, StatsAccounts, PTL DEF Spec

-----------------------------------------------------------------------------
(* The reads. *)

\* linkd may still count a heartbeat whose frame is counted, or will be lost
\* to the reset.
Owed == IF reset.step = "idle" THEN LinkdIn({"heard"}) ELSE LinkdIn(Busy)

\* A frame is counted on its CPU before it is counted as a heartbeat.
BeatInv == heartbeat_count + Owed <= Sum(rx_frames, Cleared) + raced

\* linkd counts among those at work.
LEMMA LinkdAmongThem ==
  ASSUME NEW P
  PROVE  LinkdIn(P) <= N(P)
PROOF
  <1>1. CASE pc["linkd"] \in P
    <2>1. {"linkd"} \in SUBSET At(P) /\ At(P) \in SUBSET Contexts
      BY <1>1 DEF At, Contexts, Pushers, Writers
    <2>2. IsFiniteSet(At(P))
      BY <2>1, ContextsFinite, FS_Subset
    <2>3. Cardinality({"linkd"}) <= Cardinality(At(P)) /\ Cardinality({"linkd"}) = 1
      BY <2>1, <2>2, FS_Subset, FS_Singleton
    <2> QED
      BY <1>1, <2>3 DEF N, LinkdIn
  <1>2. CASE pc["linkd"] \notin P
    BY <1>2, PlacesType DEF LinkdIn
  <1> QED
    BY <1>1, <1>2

\* Every step keeps the heartbeats covered by the frames.
LEMMA BeatStep ==
  ASSUME CounterTypes, Accounts, BeatInv, [Next]_vars
  PROVE  BeatInv'
PROOF
  <1> DEFINE s == Sum(rx_frames, Cleared)
  <1>1. /\ heartbeat_count \in Nat /\ raced \in Nat /\ pushes \in Nat
        /\ rx_frames \in [Cpus -> Nat] /\ DOMAIN pc = Contexts
        /\ Cleared \in SUBSET Cpus
    BY Constants, ClearedCpus DEF CounterTypes
  <1>2. PICK o \in Nat, n \in Nat : o = Owed /\ n = Owed' /\ n <= 1
    <2>1. Owed \in {0, 1} /\ Owed' \in {0, 1}
      BY DEF Owed, LinkdIn
    <2> QED
      BY <2>1
  <1>3. s \in Nat /\ IsFiniteSet(Counted(rx_frames, Cleared))
    BY <1>1, StatsSums
  <1>21. n <= o + 1
    BY <1>2
  <1>31. heartbeat_count \in Nat /\ raced \in Nat /\ s \in Nat
    BY <1>1, <1>3
  <1>4. heartbeat_count + o <= s + raced
    BY <1>2, Zenon DEF BeatInv
  <1>5. ASSUME heartbeat_count' + n <= s' + raced' PROVE BeatInv'
    BY <1>2, <1>5, Zenon DEF BeatInv
  <1>6. UNCHANGED <<rx_frames, reset>> => s' = s
    BY DEF Cleared
  <1>7. pc' = pc /\ reset' = reset => n = o
    BY <1>2 DEF Owed, LinkdIn
  <1>8. "heard" \in Busy /\ "push" \in Busy /\ "inc_rx" \in Busy /\ "drop" \in Busy
        /\ "inc_dropped" \in Busy /\ "idle" \notin Busy
    BY DEF Busy, Points
  <1> HIDE DEF s
  <1>9. CASE LinkdPushes \/ TimerFires \/ WorkRuns \/ InjectFault
    <2>1. PICK c \in Contexts : Begin(c)
      BY <1>9 DEF LinkdPushes, TimerFires, WorkRuns, InjectFault, Contexts, Pushers, Writers
    <2>2. /\ raced' = raced + (IF reset.step = "idle" THEN 0 ELSE 1)
          /\ UNCHANGED <<heartbeat_count, rx_frames, reset>>
      BY <2>1 DEF Begin, countVars, pcpuVars, resetVars
    <2>3. pc' = [pc EXCEPT ![c] = "push"] /\ pc[c] = "idle"
      BY <2>1 DEF Begin, Goto
    <2>4. CASE reset.step = "idle"
      <3>1. n = o
        BY <1>1, <1>2, <2>2, <2>3, <2>4 DEF Owed, LinkdIn, Contexts, Pushers, Writers
      <3> QED
        BY <1>1, <1>2, <1>3, <1>4, <1>5, <1>6, <2>2, <2>4, <3>1, SMTT(30)
    <2>5. CASE reset.step # "idle"
      <3>1. heartbeat_count + n <= s + (raced + 1)
        BY <1>21, <1>31, <1>4
      <3> QED
        BY <1>5, <1>6, <2>2, <2>5, <3>1
    <2> QED
      BY <2>4, <2>5
  <1>10. ASSUME NEW c \in Contexts, FifoPush(c) \/ RecordDrop(c) \/ IncDropped(c)
         PROVE  BeatInv'
    <2>1. UNCHANGED <<heartbeat_count, rx_frames, reset, raced>>
      BY <1>10 DEF FifoPush, RecordDrop, IncDropped, countVars, pcpuVars, resetVars
    <2>2. /\ pc[c] \in Busy \ {"heard"}
          /\ \E p \in Points \ {"heard"} : pc' = [pc EXCEPT ![c] = p]
      BY <1>10 DEF FifoPush, RecordDrop, IncDropped, Goto, Busy, Points
    <2>3. n <= o
      <3>1. LinkdIn({"heard"})' = LinkdIn({"heard"})
        BY <1>1, <2>2 DEF LinkdIn, Contexts, Pushers, Writers
      <3>2. LinkdIn(Busy)' <= LinkdIn(Busy)
        BY <1>1, <2>2 DEF LinkdIn, Contexts, Pushers, Writers
      <3>3. LinkdIn({"heard"}) \in 0 .. 1
        BY PlacesType
      <3> QED
        BY <1>2, <2>1, <3>1, <3>2, <3>3 DEF Owed
    <2> QED
      <3>1. heartbeat_count + n <= s + raced
        BY <1>31, <1>4, <2>3
      <3> QED
        BY <1>5, <1>6, <2>1, <3>1
  <1>11. ASSUME NEW c \in Contexts, IncRx(c) PROVE BeatInv'
    <2>1. PICK cpu \in Cpus : rx_frames' = [rx_frames EXCEPT ![cpu] = @ + 1]
      BY <1>11, Zenon DEF IncRx
    <2>2. UNCHANGED <<heartbeat_count, reset, raced>>
      BY <1>11 DEF IncRx, countVars, resetVars
    <2>3. pc[c] = "inc_rx" /\ \E p \in {"heard", "idle"} : pc' = [pc EXCEPT ![c] = p]
      BY <1>11, Zenon DEF IncRx, Goto
    <2>4. s' = s + (IF cpu \in Cleared THEN 1 ELSE 0)
      <3>1. Cleared' = Cleared
        BY <2>2 DEF Cleared
      <3>2. Sum([rx_frames EXCEPT ![cpu] = @ + 1], Cleared)
              = Sum(rx_frames, Cleared) + (IF cpu \in Cleared THEN 1 ELSE 0)
        BY <1>1, <1>3, SumOneMore, Zenon
      <3> QED
        BY <2>1, <3>1, <3>2 DEF s
    <2>5. CASE reset.step = "idle"
      <3>1. cpu \in Cleared
        BY <2>1, <2>5 DEF Cleared
      <3> QED
        <4>1. heartbeat_count + n <= (s + 1) + raced
          BY <1>21, <1>31, <1>4
        <4> QED
          BY <1>5, <2>2, <2>4, <3>1, <4>1
    <2>6. CASE reset.step # "idle"
      <3>1. n <= o
        BY <1>1, <1>2, <1>8, <2>2, <2>3, <2>6 DEF Owed, LinkdIn, Contexts, Pushers, Writers
      <3> QED
        <4>1. /\ heartbeat_count + n <= s + raced
              /\ heartbeat_count + n <= (s + 1) + raced
          BY <1>31, <1>4, <3>1
        <4>2. s' = s \/ s' = s + 1
          BY <1>31, <2>4
        <4> QED
          BY <1>5, <2>2, <4>1, <4>2
    <2> QED
      BY <2>5, <2>6
  <1>12. CASE Heard
    <2>1. /\ heartbeat_count' = heartbeat_count + 1
          /\ UNCHANGED <<rx_frames, reset, raced>>
      BY <1>12 DEF Heard, pcpuVars, resetVars
    <2>2. pc["linkd"] = "heard" /\ pc' = [pc EXCEPT !["linkd"] = "idle"]
      BY <1>12 DEF Heard, Goto
    <2>3. o = 1 /\ n = 0
      BY <1>1, <1>2, <1>8, <2>1, <2>2 DEF Owed, LinkdIn, Contexts, Pushers, Writers
    <2> QED
      BY <1>1, <1>3, <1>4, <1>5, <1>6, <2>1, <2>3
  <1>13. CASE ResetLocked
    <2>1. /\ heartbeat_count' = 0 /\ pc' = pc /\ reset'.step # "idle" /\ Cleared' = {}
          /\ raced' = N(Busy)
      BY <1>13, BusyOnes DEF ResetLocked, ctxVars, Cleared
    <2>2. s' = 0
      <3>1. Counted(rx_frames', {}) = {}
        BY DEF Counted
      <3> QED
        BY <2>1, <3>1, FS_EmptySet DEF s, Sum
    <2>3. n = LinkdIn(Busy)
      BY <1>2, <2>1 DEF Owed, LinkdIn
    <2>4. LinkdIn(Busy) <= N(Busy) /\ N(Busy) \in Nat
      BY LinkdAmongThem, PlacesType
    <2> QED
      BY <1>2, <1>5, <2>1, <2>2, <2>3, <2>4
  <1>14. CASE ResetCpu
    <2>1. /\ UNCHANGED <<heartbeat_count, raced, pc>> /\ reset.step # "idle"
          /\ rx_frames' = [rx_frames EXCEPT ![reset.cpu] = 0]
      BY <1>14 DEF ResetCpu, countVars, ctxVars
    <2>2. s' = s
      <3>1. \A cpu \in Cpus : rx_frames[cpu] <= pushes
        <4>1. N({"push", "inc_rx"}) \in Nat
          BY PlacesType
        <4> QED
          BY <1>1, <4>1 DEF Accounts
      <3> QED
        BY <1>1, <1>14, <2>1, <3>1, TurnOfReset, Zenon DEF s
    <2>3. n <= o
      BY <1>2, <1>8, <2>1 DEF Owed, LinkdIn
    <2> QED
      <3>1. heartbeat_count + n <= s + raced
        BY <1>31, <1>4, <2>3
      <3> QED
        BY <1>5, <2>1, <2>2, <3>1
  <1>91. ASSUME NEW c \in Writers, PushTx(c) PROVE BeatInv'
    <2>1. /\ raced' \in {raced, raced + 1}
          /\ UNCHANGED <<heartbeat_count, rx_frames, reset>>
      BY <1>31, <1>91 DEF PushTx, countVars, pcpuVars, resetVars
    <2>2. pc'["linkd"] = pc["linkd"]
      BY <1>1, <1>91 DEF PushTx, Goto, Contexts, Pushers, Writers
    <2>3. n = o
      BY <1>2, <2>1, <2>2 DEF Owed, LinkdIn
    <2>4. heartbeat_count + n <= s + raced /\ heartbeat_count + n <= s + (raced + 1)
      BY <1>31, <1>4, <2>3
    <2> QED
      BY <1>5, <1>6, <2>1, <2>4
  <1>15. CASE PopFrame \/ PopTx \/ GetStats \/ PercpuStatsShow \/ ShowRow \/ SumCpu
              \/ UNCHANGED vars
    <2>1. UNCHANGED <<heartbeat_count, rx_frames, pc, reset, raced>>
      BY <1>15 DEF PopFrame, PopTx, GetStats, PercpuStatsShow, StartRead, ShowRow, SumCpu,
           vars, countVars, pcpuVars, ctxVars, resetVars
    <2> QED
      BY <1>4, <1>5, <1>6, <1>7, <2>1
  <1> QED
    BY <1>9, <1>91, <1>10, <1>11, <1>12, <1>13, <1>14, <1>15, ZenonT(30) DEF Next, Contexts

\* While no reset comes into it, a read stays behind what the CPUs it has yet
\* to visit, or visits again, will show.
ReadInv ==
  undisturbed =>
    /\ reset.step = "idle"
    /\ reader.step = "row" =>
         /\ shown.rows <= Sum(rx_frames, 1 .. (reader.cpu - 1))
         /\ shown.heartbeat = 0 /\ shown.rx_total = 0
    /\ reader.step = "sum" =>
         /\ shown.rows <= shown.rx_total + Sum(rx_frames, reader.cpu .. NCpus)
         /\ shown.heartbeat <= (shown.rx_total + Sum(rx_frames, reader.cpu .. NCpus)) + raced
    /\ reader.step = "idle" =>
         /\ shown.rows <= shown.rx_total
         /\ shown.heartbeat <= shown.rx_total + raced

\* Numbers carried over to larger ones.
LEMMA CarriedOver ==
  ASSUME NEW a \in Nat, NEW t \in Nat, NEW s \in Nat, NEW s2 \in Nat,
         NEW r \in Nat, NEW r2 \in Nat, s <= s2, r <= r2
  PROVE  /\ a <= s => a <= s2
         /\ a <= t + s => a <= t + s2
         /\ a <= (t + s) + r => a <= (t + s2) + r2
         /\ a <= t + r => a <= t + r2
  OBVIOUS

\* The counters of the CPUs from one on: that one and the rest.
LEMMA SumFirst ==
  ASSUME CounterTypes, Accounts, NEW n \in Cpus
  PROVE  Sum(rx_frames, n .. NCpus) = Sum(rx_frames, (n + 1) .. NCpus) + rx_frames[n]
PROOF
  <1> DEFINE T == (n + 1) .. NCpus
  <1>1. n \in Nat /\ NCpus \in Nat /\ 1 <= n /\ n <= NCpus
    BY Constants DEF Cpus
  <1>2. T \in SUBSET Cpus /\ n \in Cpus \ T /\ T \cup {n} = n .. NCpus
    BY <1>1 DEF Cpus
  <1>3. rx_frames \in [Cpus -> Nat]
    BY DEF CounterTypes
  <1> HIDE DEF T
  <1>4. IsFiniteSet(Counted(rx_frames, T))
    BY <1>2, StatsSums
  <1>5. Sum(rx_frames, T \cup {n}) = Sum(rx_frames, T) + rx_frames[n]
    BY <1>2, <1>3, <1>4, SumOneCpuMore
  <1>6. Sum(rx_frames, n .. NCpus) = Sum(rx_frames, T) + rx_frames[n]
    BY <1>2, <1>5, Zenon
  <1> QED
    BY <1>6 DEF T

\* The counters of the CPUs up to one: those before and that one.
LEMMA SumLast ==
  ASSUME CounterTypes, Accounts, NEW n \in Cpus
  PROVE  Sum(rx_frames, 1 .. n) = Sum(rx_frames, 1 .. (n - 1)) + rx_frames[n]
PROOF
  <1> DEFINE T == 1 .. (n - 1)
  <1>1. n \in Nat /\ NCpus \in Nat /\ 1 <= n /\ n <= NCpus
    BY Constants DEF Cpus
  <1>2. T \in SUBSET Cpus /\ n \in Cpus \ T /\ T \cup {n} = 1 .. n
    BY <1>1 DEF Cpus
  <1>3. rx_frames \in [Cpus -> Nat]
    BY DEF CounterTypes
  <1> HIDE DEF T
  <1>4. IsFiniteSet(Counted(rx_frames, T))
    BY <1>2, StatsSums
  <1>5. Sum(rx_frames, T \cup {n}) = Sum(rx_frames, T) + rx_frames[n]
    BY <1>2, <1>3, <1>4, SumOneCpuMore
  <1>6. Sum(rx_frames, 1 .. n) = Sum(rx_frames, T) + rx_frames[n]
    BY <1>2, <1>5, Zenon
  <1> QED
    BY <1>6 DEF T

\* What a push does to what a read relies on: the CPUs count more, never less.
LEMMA PushesOnlyAdd ==
  ASSUME CounterTypes, Accounts,
         \/ LinkdPushes \/ TimerFires \/ WorkRuns \/ InjectFault
         \/ \E c \in Contexts : FifoPush(c) \/ IncRx(c) \/ RecordDrop(c) \/ IncDropped(c)
         \/ (\E c \in Writers : PushTx(c)) \/ Heard \/ PopFrame \/ PopTx \/ UNCHANGED vars
  PROVE  /\ UNCHANGED <<reader, shown, undisturbed, reset>>
         /\ raced' \in Nat /\ raced <= raced'
         /\ \A S \in SUBSET Cpus :
              Sum(rx_frames', S) \in Nat /\ Sum(rx_frames, S) <= Sum(rx_frames', S)
PROOF
  <1>1. UNCHANGED <<reader, shown, undisturbed, reset>>
    BY Zenon DEF LinkdPushes, TimerFires, WorkRuns, InjectFault, Begin, FifoPush, IncRx,
         RecordDrop, IncDropped, Heard, PopFrame, PopTx, PushTx, vars, resetVars, readerVars
  <1>2. raced \in Nat /\ rx_frames \in [Cpus -> Nat]
    BY SMTT(30) DEF CounterTypes
  <1>3. raced' = raced \/ raced' = raced + (IF reset.step = "idle" THEN 0 ELSE 1)
    BY DEF LinkdPushes, TimerFires, WorkRuns, InjectFault, Begin, FifoPush, IncRx,
         RecordDrop, IncDropped, Heard, PopFrame, PopTx, PushTx, vars
  <1>4. raced' \in Nat /\ raced <= raced'
    BY <1>2, <1>3, SMTT(30)
  <1>5. \/ rx_frames' = rx_frames
        \/ \E cpu \in Cpus : rx_frames' = [rx_frames EXCEPT ![cpu] = @ + 1]
    BY DEF LinkdPushes, TimerFires, WorkRuns, InjectFault, Begin, FifoPush, IncRx,
         RecordDrop, IncDropped, Heard, PopFrame, PopTx, PushTx, vars, pcpuVars
  <1>6. ASSUME NEW S \in SUBSET Cpus
        PROVE  Sum(rx_frames', S) \in Nat /\ Sum(rx_frames, S) <= Sum(rx_frames', S)
    <2>1. IsFiniteSet(Counted(rx_frames, S)) /\ Sum(rx_frames, S) \in Nat
      BY StatsSums
    <2>2. CASE rx_frames' = rx_frames
      BY <2>1, <2>2
    <2>3. ASSUME NEW cpu \in Cpus, rx_frames' = [rx_frames EXCEPT ![cpu] = @ + 1]
          PROVE  Sum(rx_frames', S) \in Nat /\ Sum(rx_frames, S) <= Sum(rx_frames', S)
      <3>1. Sum([rx_frames EXCEPT ![cpu] = @ + 1], S)
              = Sum(rx_frames, S) + (IF cpu \in S THEN 1 ELSE 0)
        BY <1>2, <2>1, SumOneMore, Zenon
      <3> QED
        BY <2>1, <2>3, <3>1
    <2> QED
      BY <1>5, <2>2, <2>3
  <1> QED
    BY <1>1, <1>4, <1>6

\* Every step keeps an undisturbed read behind.
LEMMA ReadStep ==
  ASSUME CounterTypes, Accounts, BeatInv, ReadInv, [Next]_vars
  PROVE  ReadInv'
PROOF
  <1> SUFFICES ASSUME undisturbed'
               PROVE  /\ reset'.step = "idle"
                      /\ reader'.step = "row" =>
                           /\ shown'.rows <= Sum(rx_frames', 1 .. (reader'.cpu - 1))
                           /\ shown'.heartbeat = 0 /\ shown'.rx_total = 0
                      /\ reader'.step = "sum" =>
                           /\ shown'.rows
                                <= shown'.rx_total + Sum(rx_frames', reader'.cpu .. NCpus)
                           /\ shown'.heartbeat
                                <= (shown'.rx_total + Sum(rx_frames', reader'.cpu .. NCpus))
                                   + raced'
                      /\ reader'.step = "idle" =>
                           /\ shown'.rows <= shown'.rx_total
                           /\ shown'.heartbeat <= shown'.rx_total + raced'
    BY DEF ReadInv
  <1> DEFINE n == reader.cpu
             Before == Sum(rx_frames, 1 .. (n - 1))
             After == Sum(rx_frames, n .. NCpus)
  <1>1. /\ n \in 1 .. NCpus /\ n \in Cpus /\ NCpus \in Nat /\ NCpus \in Cpus
        /\ rx_frames[n] \in Nat /\ raced \in Nat /\ heartbeat_count \in Nat
        /\ shown.rows \in Nat /\ shown.rx_total \in Nat /\ shown.heartbeat \in Nat
    BY Constants DEF CounterTypes, Cpus
  <1>2. /\ 1 .. (n - 1) \in SUBSET Cpus /\ n .. NCpus \in SUBSET Cpus
        /\ (n + 1) .. NCpus \in SUBSET Cpus /\ 1 .. n \in SUBSET Cpus
    BY <1>1 DEF Cpus
  <1>3. Before \in Nat /\ After \in Nat /\ Sum(rx_frames, (n + 1) .. NCpus) \in Nat
        /\ Sum(rx_frames, Cpus) \in Nat
    BY <1>2, StatsSums, Zenon
  <1>4. ASSUME \/ LinkdPushes \/ TimerFires \/ WorkRuns \/ InjectFault
               \/ \E c \in Contexts : FifoPush(c) \/ IncRx(c) \/ RecordDrop(c) \/ IncDropped(c)
               \/ (\E c \in Writers : PushTx(c)) \/ Heard \/ PopFrame \/ PopTx \/ UNCHANGED vars
        PROVE  ReadInv'
    <2>1. /\ UNCHANGED <<reader, shown, undisturbed, reset>>
          /\ raced' \in Nat /\ raced <= raced'
          /\ \A S \in SUBSET Cpus :
               Sum(rx_frames', S) \in Nat /\ Sum(rx_frames, S) <= Sum(rx_frames', S)
      BY <1>4, PushesOnlyAdd, Zenon
    <2> DEFINE Before2 == Sum(rx_frames', 1 .. (n - 1))
               After2 == Sum(rx_frames', n .. NCpus)
    <2>2. Before2 \in Nat /\ After2 \in Nat /\ Before <= Before2 /\ After <= After2
      BY <1>2, <2>1, Zenon
    <2> HIDE DEF Before, Before2, After, After2
    <2>3. /\ shown.rows <= Before => shown.rows <= Before2
          /\ shown.rows <= shown.rx_total + After => shown.rows <= shown.rx_total + After2
          /\ shown.heartbeat <= (shown.rx_total + After) + raced
               => shown.heartbeat <= (shown.rx_total + After2) + raced'
          /\ shown.heartbeat <= shown.rx_total + raced
               => shown.heartbeat <= shown.rx_total + raced'
      <3>1. shown.rows <= Before => shown.rows <= Before2
        BY <1>1, <1>3, <2>2
      <3>2. shown.rows <= shown.rx_total + After => shown.rows <= shown.rx_total + After2
        BY <1>1, <1>3, <2>2
      <3>3. shown.heartbeat <= (shown.rx_total + After) + raced
              => shown.heartbeat <= (shown.rx_total + After2) + raced'
        BY <1>1, <1>3, <2>1, <2>2, CarriedOver, ZenonT(30)
      <3>4. shown.heartbeat <= shown.rx_total + raced
              => shown.heartbeat <= shown.rx_total + raced'
        BY <1>1, <2>1
      <3> QED
        BY <3>1, <3>2, <3>3, <3>4
    <2>4. undisturbed /\ reader' = reader /\ shown' = shown /\ reset' = reset
      BY <2>1
    <2> QED
      BY <2>3, <2>4 DEF ReadInv, Before, Before2, After, After2
  <1>5. CASE ResetLocked
    BY <1>5, Zenon DEF ResetLocked
  <1>6. CASE ResetCpu
    <2>1. undisturbed /\ reset.step = "clear"
      BY <1>6 DEF ResetCpu
    <2> QED
      BY <2>1 DEF ReadInv
  <1>7. CASE GetStats
    <2>1. /\ reset.step = "idle" /\ reset' = reset
          /\ reader' = [step |-> "sum", cpu |-> 1]
          /\ shown' = [heartbeat |-> heartbeat_count, rx_total |-> 0, rows |-> 0]
          /\ rx_frames' = rx_frames /\ raced' = raced
      BY <1>7, Zenon DEF GetStats, StartRead, Nothing, pcpuVars, resetVars
    <2>2. Cleared = Cpus /\ 1 .. NCpus = Cpus
      BY <2>1 DEF Cleared, Cpus
    <2>3. PICK o \in Nat : o = Owed
      BY DEF Owed, LinkdIn
    <2>4. heartbeat_count + o <= Sum(rx_frames, Cpus) + raced
      BY <2>2, <2>3, Zenon DEF BeatInv
    <2>5. heartbeat_count <= (0 + Sum(rx_frames, Cpus)) + raced
      BY <1>1, <1>3, <2>4
    <2>6. reader'.step = "sum" /\ reader'.cpu = 1
      BY <2>1
    <2>7. shown'.heartbeat = heartbeat_count /\ shown'.rx_total = 0 /\ shown'.rows = 0
      BY <2>1
    <2>8. 0 <= 0 + Sum(rx_frames, Cpus)
      BY <1>3
    <2> QED
      BY <2>1, <2>2, <2>5, <2>6, <2>7, <2>8
  <1>8. CASE PercpuStatsShow
    <2>1. /\ reset.step = "idle" /\ reset' = reset
          /\ reader' = [step |-> "row", cpu |-> 1]
          /\ shown' = [heartbeat |-> 0, rx_total |-> 0, rows |-> 0]
      BY <1>8, Zenon DEF PercpuStatsShow, StartRead, Nothing, resetVars
    <2>2. Sum(rx_frames', 1 .. (1 - 1)) = 0
      <3>1. 1 .. (1 - 1) = {}
        OBVIOUS
      <3>2. Counted(rx_frames', {}) = {}
        BY DEF Counted
      <3> QED
        BY <3>1, <3>2, FS_EmptySet DEF Sum
    <2> QED
      BY <2>1, <2>2
  <1>9. CASE ShowRow
    <2>1. /\ reader.step = "row" /\ undisturbed /\ reset' = reset /\ raced' = raced
          /\ shown' = [shown EXCEPT !.rows = @ + rx_frames[n]]
          /\ reader' = NextCpu(reader, "row", "sum") /\ rx_frames' = rx_frames
      BY <1>9 DEF ShowRow, pcpuVars, resetVars
    <2>2. /\ reset.step = "idle" /\ shown.rows <= Before
          /\ shown.heartbeat = 0 /\ shown.rx_total = 0
      BY <2>1 DEF ReadInv
    <2>3. shown'.rows = shown.rows + rx_frames[n] /\ shown'.heartbeat = 0 /\ shown'.rx_total = 0
      BY <2>1, <2>2 DEF CounterTypes
    <2>4. Sum(rx_frames, 1 .. n) = Before + rx_frames[n]
      BY <1>1, SumLast
    <2> HIDE DEF Before
    <2>5. shown'.rows <= Sum(rx_frames, 1 .. n) /\ Sum(rx_frames, 1 .. n) \in Nat
      BY <1>1, <1>3, <2>2, <2>3, <2>4
    <2>6. CASE n < NCpus
      <3>1. reader'.step = "row" /\ reader'.cpu - 1 = n
        BY <1>1, <2>1, <2>6 DEF NextCpu
      <3> QED
        BY <2>1, <2>2, <2>3, <2>5, <3>1
    <2>7. CASE ~(n < NCpus)
      <3>1. reader'.step = "sum" /\ reader'.cpu = 1 /\ n = NCpus
        BY <1>1, <2>1, <2>7 DEF NextCpu
      <3>2. /\ shown'.rows <= 0 + Sum(rx_frames, 1 .. NCpus)
            /\ 0 <= (0 + Sum(rx_frames, 1 .. NCpus)) + raced
        BY <1>1, <2>5, <3>1
      <3> QED
        BY <2>1, <2>2, <2>3, <3>1, <3>2
    <2> QED
      BY <2>6, <2>7
  <1>10. CASE SumCpu
    <2> DEFINE Rest == Sum(rx_frames, (n + 1) .. NCpus)
    <2>1. /\ reader.step = "sum" /\ undisturbed /\ reset' = reset /\ raced' = raced
          /\ shown' = [shown EXCEPT !.rx_total = @ + rx_frames[n]]
          /\ reader' = NextCpu(reader, "sum", "idle") /\ rx_frames' = rx_frames
      BY <1>10 DEF SumCpu, pcpuVars, resetVars
    <2>2. /\ reset.step = "idle" /\ shown.rows <= shown.rx_total + After
          /\ shown.heartbeat <= (shown.rx_total + After) + raced
      BY <2>1 DEF ReadInv
    <2>3. shown'.rows = shown.rows /\ shown'.heartbeat = shown.heartbeat
          /\ shown'.rx_total = shown.rx_total + rx_frames[n]
      BY <2>1 DEF CounterTypes
    <2>4. After = Rest + rx_frames[n]
      BY <1>1, SumFirst
    <2>5. Rest \in Nat
      BY <1>3
    <2> HIDE DEF After, Rest
    <2>6. shown.rx_total + After = shown'.rx_total + Rest
      BY <1>1, <2>3, <2>4, <2>5
    <2>7. /\ shown'.rows <= shown'.rx_total + Rest
          /\ shown'.heartbeat <= (shown'.rx_total + Rest) + raced
      BY <2>2, <2>3, <2>6
    <2>8. CASE n < NCpus
      <3>1. reader'.step = "sum" /\ reader'.cpu = n + 1
        BY <2>1, <2>8 DEF NextCpu
      <3> QED
        BY <2>1, <2>2, <2>7, <3>1 DEF Rest
    <2>9. CASE ~(n < NCpus)
      <3>1. reader'.step = "idle"
        BY <2>1, <2>9 DEF NextCpu
      <3>2. Rest = 0
        <4>1. (n + 1) .. NCpus = {}
          BY <1>1, <2>9
        <4>2. Counted(rx_frames, {}) = {}
          BY DEF Counted
        <4> QED
          BY <4>1, <4>2, FS_EmptySet, Zenon DEF Rest, Sum
      <3>3. shown'.rx_total \in Nat /\ shown'.rx_total + Rest = shown'.rx_total
        BY <1>1, <2>3, <3>2, SMTT(30)
      <3> QED
        BY <2>1, <2>2, <2>7, <3>1, <3>3
    <2> QED
      BY <2>8, <2>9
  <1>11. CASE ReadInv'
    BY <1>11 DEF ReadInv
  <1> QED
    BY <1>4, <1>5, <1>6, <1>7, <1>8, <1>9, <1>10, <1>11, ZenonT(30) DEF Next, Contexts

\* An undisturbed read adds up: percpu_stats shows no less in total than in
\* its rows, and GET_STATS no more heartbeats than frames but for the pushes
\* that overlapped the last RESET_STATS, for every number of CPUs.
THEOREM ReadsHold == Spec => []ReadsAddUp
PROOF
  <1>1. Init => BeatInv /\ ReadInv
    <2> SUFFICES ASSUME Init PROVE BeatInv /\ ReadInv
      OBVIOUS
    <2>1. /\ reset.step = "idle" /\ Cleared = Cpus /\ heartbeat_count = 0 /\ raced = 0
          /\ LinkdIn({"heard"}) = 0
      BY DEF Init, Idle, Cleared, LinkdIn, Contexts, Pushers, Writers
    <2>2. Sum(rx_frames, Cleared) = 0
      BY <2>1, NothingCounted
    <2>3. BeatInv
      BY <2>1, <2>2 DEF BeatInv, Owed
    <2>4. ReadInv
      <3>1. reader.step = "idle" /\ shown.rows = 0 /\ shown.rx_total = 0 /\ shown.heartbeat = 0
        BY DEF Init, Idle, Nothing
      <3>2. shown.rows <= shown.rx_total /\ shown.heartbeat <= shown.rx_total + raced
        BY <2>1, <3>1
      <3> QED
        BY <2>1, <3>1, <3>2 DEF ReadInv
    <2> QED
      BY <2>3, <2>4
  <1>2. ReadInv => ReadsAddUp
    BY DEF ReadInv, ReadsAddUp
  <1>3. CounterTypes /\ Accounts /\ BeatInv /\ ReadInv /\ [Next]_vars => BeatInv' /\ ReadInv'
    BY BeatStep, ReadStep
  <1> QED
    BY <1>1, <1>2, <1>3, StatsAccounts, PTL DEF Spec
=============================================================================
