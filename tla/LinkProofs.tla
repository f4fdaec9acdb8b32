----------------------------- MODULE LinkProofs -----------------------------
(***************************************************************************)
(* The serial link for queues and lines of any size, any number of frames  *)
(* and any setting of the injector: each direction implements              *)
(* LossyChannel, and a frame discarded as a duplicate is explained.        *)
(***************************************************************************)
EXTENDS Link, SequenceTheorems, TLAPS

-----------------------------------------------------------------------------
(* Sequences.  The frames of one direction are a concatenation of queues;  *)
(* each step of the link changes it at the place where two of them meet.   *)

\* The two parts of a concatenation are its subsequences.
LEMMA SubSeqParts ==
  ASSUME NEW S, NEW s \in Seq(S), NEW t \in Seq(S)
  PROVE  /\ SubSeq(s \o t, 1, Len(s)) = s
         /\ SubSeq(s \o t, Len(s) + 1, Len(s \o t)) = t
PROOF
  <1> DEFINE c == s \o t
             a == SubSeq(c, 1, Len(s))
             b == SubSeq(c, Len(s) + 1, Len(c))
  <1>1. Len(s) \in Nat /\ Len(t) \in Nat
    BY LenProperties
  <1>2. /\ c \in Seq(S) /\ Len(c) = Len(s) + Len(t)
        /\ \A i \in 1 .. Len(s) + Len(t) :
             c[i] = IF i <= Len(s) THEN s[i] ELSE t[i - Len(s)]
    BY ConcatProperties
  <1>3. \A i \in 1 .. Len(c) : c[i] \in S
    BY <1>2, ElementOfSeq
  <1> HIDE DEF c
  <1>4. /\ a \in Seq(S) /\ Len(a) = Len(s)
        /\ \A i \in 1 .. Len(s) : a[i] = s[i]
    <2>1. \A i \in 1 .. Len(s) : c[i] \in S
      BY <1>1, <1>2, <1>3
    <2>2. /\ a \in Seq(S) /\ Len(a) = IF 1 <= Len(s) THEN Len(s) - 1 + 1 ELSE 0
          /\ \A i \in 1 .. Len(s) - 1 + 1 : a[i] = c[1 + i - 1]
      BY <1>1, <2>1, SubSeqProperties
    <2> QED
      BY <1>1, <1>2, <2>2
  <1>5. /\ b \in Seq(S) /\ Len(b) = Len(t)
        /\ \A i \in 1 .. Len(t) : b[i] = t[i]
    <2>1. \A i \in Len(s) + 1 .. Len(c) : c[i] \in S
      BY <1>1, <1>3
    <2>2. /\ b \in Seq(S)
          /\ Len(b) = IF Len(s) + 1 <= Len(c) THEN Len(c) - (Len(s) + 1) + 1 ELSE 0
          /\ \A i \in 1 .. Len(c) - (Len(s) + 1) + 1 : b[i] = c[(Len(s) + 1) + i - 1]
      <3>1. Len(s) + 1 \in Int /\ Len(c) \in Int
        BY <1>1, <1>2
      <3> QED
        BY <2>1, <3>1, SubSeqProperties
    <2>3. Len(b) = Len(t)
      BY <1>1, <1>2, <2>2
    <2>4. ASSUME NEW i \in 1 .. Len(t) PROVE b[i] = t[i]
      <3>1. i \in 1 .. Len(c) - (Len(s) + 1) + 1 /\ Len(s) + i \in 1 .. Len(s) + Len(t)
            /\ (Len(s) + 1) + i - 1 = Len(s) + i /\ ~(Len(s) + i <= Len(s))
            /\ (Len(s) + i) - Len(s) = i
        BY <1>1, <1>2
      <3> QED
        BY <1>2, <2>2, <3>1
    <2> QED
      BY <2>2, <2>3, <2>4
  <1>6. a = s
    BY <1>4, SeqEqual
  <1>7. b = t
    BY <1>5, SeqEqual
  <1> QED
    BY <1>6, <1>7 DEF c

\* Moving the first element of a sequence to the end of the one before it
\* leaves their concatenation as it is (the bridge and safety-linkd pass on).
LEMMA MoveFirst ==
  ASSUME NEW S, NEW s \in Seq(S), NEW t \in Seq(S), t # <<>>
  PROVE  /\ Append(s, Head(t)) \o Tail(t) = s \o t
         /\ t = <<Head(t)>> \o Tail(t)
PROOF
  <1>1. Head(t) \in S /\ Tail(t) \in Seq(S) /\ Len(t) \in Nat \ {0}
    BY HeadTailProperties, EmptySeq
  <1>2. t = <<Head(t)>> \o Tail(t)
    <2>1. 1 \in 1 .. Len(t) /\ Len(t) \in 1 .. Len(t)
      BY <1>1
    <2>2. SubSeq(t, 1, Len(t)) = <<t[1]>> \o SubSeq(t, 1 + 1, Len(t))
      BY <2>1, SubSeqRecursiveFirst
    <2>3. SubSeq(t, 1, Len(t)) = t
      BY SubSeqFull
    <2>4. Tail(t) = SubSeq(t, 2, Len(t)) /\ 1 + 1 = 2 /\ Head(t) = t[1]
      BY TailIsSubSeq
    <2> QED
      BY <2>2, <2>3, <2>4
  <1>3. Append(s, Head(t)) = s \o <<Head(t)>>
    BY <1>1, AppendIsConcat
  <1>4. <<Head(t)>> \in Seq(S)
    BY <1>1
  <1>5. (s \o <<Head(t)>>) \o Tail(t) = s \o (<<Head(t)>> \o Tail(t))
    BY <1>1, <1>4, ConcatAssociative
  <1> QED
    BY <1>2, <1>3, <1>5

\* Appending to the last of two sequences appends to the whole (a frame goes
\* into the queue at the near end).
LEMMA AppendLast ==
  ASSUME NEW S, NEW s \in Seq(S), NEW t \in Seq(S), NEW e \in S
  PROVE  s \o Append(t, e) = Append(s \o t, e)
PROOF
  <1>1. <<e>> \in Seq(S) /\ s \o t \in Seq(S)
    BY ConcatProperties
  <1>2. Append(t, e) = t \o <<e>> /\ Append(s \o t, e) = (s \o t) \o <<e>>
    BY <1>1, AppendIsConcat
  <1> QED
    BY <1>1, <1>2, ConcatAssociative

\* The first element of the first of two sequences (a frame comes out).
LEMMA TakeFirst ==
  ASSUME NEW S, NEW s \in Seq(S), NEW t \in Seq(S), s # <<>>
  PROVE  /\ s \o t # <<>>
         /\ Head(s \o t) = Head(s)
         /\ Tail(s \o t) = Tail(s) \o t
PROOF
  <1>1. /\ Head(s) \in S /\ Tail(s) \in Seq(S) /\ <<>> \in Seq(S)
        /\ Len(s) \in Nat \ {0} /\ Len(t) \in Nat
    BY HeadTailProperties, EmptySeq, LenProperties
  <1>2. /\ s \o t \in Seq(S) /\ Len(s \o t) = Len(s) + Len(t)
        /\ (s \o t)[1] = s[1]
    <2>1. 1 \in 1 .. Len(s) + Len(t) /\ 1 <= Len(s)
      BY <1>1
    <2> QED
      BY <2>1, ConcatProperties
  <1>3. s \o t # <<>>
    BY <1>1, <1>2
  <1>4. Head(s \o t) = Head(s)
    BY <1>1, <1>2, <1>3
  <1>5. s \o t = Append(<<>>, Head(s)) \o (Tail(s) \o t)
    <2>1. <<Head(s)>> \in Seq(S) /\ Append(<<>>, Head(s)) = <<Head(s)>>
      BY <1>1
    <2>2. s = <<Head(s)>> \o Tail(s)
      BY <1>1, MoveFirst
    <2>3. (<<Head(s)>> \o Tail(s)) \o t = <<Head(s)>> \o (Tail(s) \o t)
      BY <1>1, <2>1, ConcatAssociative
    <2> QED
      BY <2>1, <2>2, <2>3
  <1>6. s \o t = <<Head(s)>> \o Tail(s \o t)
    BY <1>2, <1>3, <1>4, MoveFirst
  <1>7. <<Head(s)>> \o Tail(s \o t) = <<Head(s)>> \o (Tail(s) \o t)
    BY <1>1, <1>5, <1>6
  <1>8. /\ <<Head(s)>> \in Seq(S) /\ Tail(s \o t) \in Seq(S)
        /\ Tail(s) \o t \in Seq(S)
    BY <1>1, <1>2, <1>3, HeadTailProperties, ConcatProperties
  <1>9. Tail(s \o t) = Tail(s) \o t
    BY <1>7, <1>8, ConcatSimplifications
  <1> QED
    BY <1>3, <1>4, <1>9

\* A sequence without its k-th element, with x there instead, and with x put
\* in before it (Without, EXCEPT and With in LossyChannel).
Without(c, k) == SubSeq(c, 1, k - 1) \o SubSeq(c, k + 1, Len(c))
Changed(c, k, x) == [c EXCEPT ![k] = x]
With(c, k, x) == SubSeq(c, 1, k - 1) \o <<x>> \o SubSeq(c, k, Len(c))

\* Losing the first element of the second sequence is Without on the whole
\* (a frame is dropped, or refused by the next queue).
LEMMA LoseMiddle ==
  ASSUME NEW S, NEW s \in Seq(S), NEW t \in Seq(S), t # <<>>
  PROVE  /\ Len(s) + 1 \in DOMAIN (s \o t)
         /\ s \o Tail(t) = Without(s \o t, Len(s) + 1)
PROOF
  <1>1. /\ Head(t) \in S /\ Tail(t) \in Seq(S)
        /\ Len(s) \in Nat /\ Len(t) \in Nat \ {0}
    BY HeadTailProperties, EmptySeq, LenProperties
  <1>2. /\ s \o t \in Seq(S) /\ Len(s \o t) = Len(s) + Len(t)
    BY ConcatProperties
  <1>3. Len(s) + 1 \in DOMAIN (s \o t)
    <2>1. DOMAIN (s \o t) = 1 .. Len(s) + Len(t)
      BY <1>2, LenProperties
    <2> QED
      BY <1>1, <2>1
  <1>4. SubSeq(s \o t, 1, (Len(s) + 1) - 1) = s
    <2>1. (Len(s) + 1) - 1 = Len(s)
      BY <1>1
    <2> QED
      BY <2>1, SubSeqParts
  <1>5. SubSeq(s \o t, (Len(s) + 1) + 1, Len(s \o t)) = Tail(t)
    <2> DEFINE u == Append(s, Head(t))
    <2>1. u \in Seq(S) /\ Len(u) = Len(s) + 1
      BY <1>1, AppendProperties
    <2>2. u \o Tail(t) = s \o t
      BY MoveFirst
    <2> HIDE DEF u
    <2> QED
      BY <1>1, <2>1, <2>2, SubSeqParts
  <1>6. Without(s \o t, Len(s) + 1) =
          SubSeq(s \o t, 1, (Len(s) + 1) - 1) \o SubSeq(s \o t, (Len(s) + 1) + 1,
          Len(s \o t))
    BY DEF Without
  <1>7. s \o Tail(t) = Without(s \o t, Len(s) + 1)
    BY <1>4, <1>5, <1>6
  <1> QED
    BY <1>3, <1>7

\* Changing that element on its way to the end of the first sequence changes
\* the whole at that place (the injector damages the frame it passes on).
LEMMA ChangeMiddle ==
  ASSUME NEW S, NEW s \in Seq(S), NEW t \in Seq(S), t # <<>>, NEW x \in S
  PROVE  /\ (s \o t)[Len(s) + 1] = Head(t)
         /\ Append(s, x) \o Tail(t) = Changed(s \o t, Len(s) + 1, x)
PROOF
  <1> DEFINE c == s \o t
             k == Len(s) + 1
             d == Append(s, x) \o Tail(t)
             e == [c EXCEPT ![k] = x]
  <1>1. /\ Head(t) \in S /\ Tail(t) \in Seq(S) /\ Len(Tail(t)) = Len(t) - 1
        /\ \A i \in 1 .. Len(Tail(t)) : Tail(t)[i] = t[i + 1]
        /\ Len(s) \in Nat /\ Len(t) \in Nat \ {0}
    BY HeadTailProperties, EmptySeq, LenProperties
  <1>2. /\ c \in Seq(S) /\ Len(c) = Len(s) + Len(t)
        /\ \A i \in 1 .. Len(s) + Len(t) :
             c[i] = IF i <= Len(s) THEN s[i] ELSE t[i - Len(s)]
    BY ConcatProperties
  <1>3. k \in 1 .. Len(c) /\ k \in Nat
    BY <1>1, <1>2
  <1>4. c[k] = Head(t)
    <2>1. k \in 1 .. Len(s) + Len(t) /\ ~(k <= Len(s)) /\ k - Len(s) = 1
      BY <1>1
    <2>2. Head(t) = t[1]
      BY <1>1
    <2> QED
      BY <1>2, <2>1, <2>2
  <1>5. /\ e \in Seq(S) /\ Len(e) = Len(c)
        /\ \A j \in 1 .. Len(c) : e[j] = IF j = k THEN x ELSE c[j]
    <2> HIDE DEF c, k
    <2> QED
      BY <1>2, <1>3, ExceptSeq
  <1>6. /\ Append(s, x) \in Seq(S) /\ Len(Append(s, x)) = Len(s) + 1
        /\ \A i \in 1 .. Len(s) : Append(s, x)[i] = s[i]
        /\ Append(s, x)[Len(s) + 1] = x
    BY AppendProperties
  <1>7. /\ d \in Seq(S) /\ Len(d) = Len(s) + 1 + Len(Tail(t))
        /\ \A i \in 1 .. Len(s) + 1 + Len(Tail(t)) :
             d[i] = IF i <= Len(s) + 1 THEN Append(s, x)[i]
                    ELSE Tail(t)[i - (Len(s) + 1)]
    BY <1>1, <1>6, ConcatProperties
  <1>8. Len(d) = Len(e)
    BY <1>1, <1>2, <1>5, <1>7
  <1>9. ASSUME NEW i \in 1 .. Len(d) PROVE d[i] = e[i]
    <2>0. i \in Nat /\ i \in 1 .. Len(s) + Len(t) /\ i \in 1 .. Len(c)
          /\ i \in 1 .. Len(s) + 1 + Len(Tail(t))
      BY <1>1, <1>2, <1>7
    <2>1. CASE i <= Len(s)
      <3>1. d[i] = s[i] /\ i # k /\ c[i] = s[i]
        BY <1>1, <1>2, <1>6, <1>7, <2>0, <2>1
      <3> QED
        BY <1>5, <2>0, <3>1
    <2>2. CASE i = k
      <3>1. d[i] = x
        BY <1>1, <1>6, <1>7, <2>0, <2>2
      <3> QED
        BY <1>5, <2>0, <2>2, <3>1
    <2>3. CASE i > k
      <3>1. /\ ~(i <= Len(s) + 1) /\ ~(i <= Len(s)) /\ i # k
            /\ i - (Len(s) + 1) \in 1 .. Len(Tail(t))
            /\ i - (Len(s) + 1) + 1 = i - Len(s)
        BY <1>1, <2>0, <2>3
      <3>2. d[i] = t[i - Len(s)]
        BY <1>1, <1>7, <2>0, <3>1
      <3>3. c[i] = t[i - Len(s)]
        BY <1>2, <2>0, <3>1
      <3> QED
        BY <1>5, <2>0, <3>1, <3>2, <3>3
    <2> QED
      BY <1>1, <2>0, <2>1, <2>2, <2>3
  <1>10. d = e
    <2> HIDE DEF d, e
    <2> QED
      BY <1>5, <1>7, <1>8, <1>9, SeqEqual
  <1> QED
    BY <1>4, <1>10, Zenon DEF Changed

\* Appending to the first of two sequences is With on the whole (the
\* driver queues a frame of its own).
LEMMA JoinMiddle ==
  ASSUME NEW S, NEW s \in Seq(S), NEW t \in Seq(S), NEW x \in S
  PROVE  /\ Len(s) + 1 \in 1 .. (Len(s \o t) + 1)
         /\ Append(s, x) \o t = With(s \o t, Len(s) + 1, x)
PROOF
  <1>1. Len(s) \in Nat /\ Len(t) \in Nat /\ Len(s \o t) = Len(s) + Len(t)
    BY LenProperties, ConcatProperties
  <1>2. (Len(s) + 1) - 1 = Len(s) /\ Len(s) + 1 \in 1 .. (Len(s \o t) + 1)
    BY <1>1
  <1>3. Append(s, x) = s \o <<x>>
    BY AppendIsConcat
  <1>4. /\ SubSeq(s \o t, 1, Len(s)) = s
        /\ SubSeq(s \o t, Len(s) + 1, Len(s \o t)) = t
    BY SubSeqParts
  <1>5. With(s \o t, Len(s) + 1, x) =
          SubSeq(s \o t, 1, (Len(s) + 1) - 1) \o <<x>>
            \o SubSeq(s \o t, Len(s) + 1, Len(s \o t))
    BY DEF With
  <1>6. Append(s, x) \o t = With(s \o t, Len(s) + 1, x)
    BY <1>2, <1>3, <1>4, <1>5
  <1> QED
    BY <1>2, <1>6

-----------------------------------------------------------------------------
(* Types. *)

\* The constants are numbers; the sizes are positive.
LEMMA Constants ==
  /\ SeqNumbers \in Nat \ {0} /\ RxDepth \in Nat \ {0} /\ TxDepth \in Nat \ {0}
  /\ LineSize \in Nat \ {0} /\ MaxSent \in Nat /\ MaxSynth \in Nat
  /\ MaxCommands \in Nat /\ drop_every \in Nat /\ corrupt_every \in Nat
PROOF
  BY LinkAssumption

\* What TypeOK says of the four lines, one by one.
LinesOK ==
  /\ line["fw_out"] \in Seq(UpFrame) /\ Len(line["fw_out"]) <= LineSize
  /\ line["host_in"] \in Seq(UpFrame) /\ Len(line["host_in"]) <= LineSize
  /\ line["host_out"] \in Seq(DownFrame) /\ Len(line["host_out"]) <= LineSize
  /\ line["fw_in"] \in Seq(DownFrame) /\ Len(line["fw_in"]) <= LineSize

\* The lines that lead to the host carry frames for the host, the other two
\* carry commands.
LEMMA TypeOfLines ==
  (\A l \in Lines : line[l] \in Seq(FrameOn(l)) /\ Len(line[l]) <= LineSize)
    <=> LinesOK
PROOF
  <1>1. FrameOn("fw_out") = UpFrame /\ FrameOn("host_in") = UpFrame
        /\ FrameOn("host_out") = DownFrame /\ FrameOn("fw_in") = DownFrame
    BY DEF FrameOn
  <1> QED
    BY <1>1, Zenon DEF Lines, LinesOK

\* One frame passed on by the bridge, on lines of one kind of frame: what
\* Forward does to the two lines.
LEMMA ForwardLines ==
  ASSUME NEW S, NEW from \in Lines, NEW to \in Lines, from # to,
         DOMAIN line = Lines, frame_counter \in Nat,
         line[from] \in Seq(S), Len(line[from]) <= LineSize,
         line[to] \in Seq(S), Len(line[to]) <= LineSize,
         \A f \in S : \A k \in Nat : PassedOn(f, k) \in S,
         Forward(from, to)
  PROVE  /\ line[from] # <<>> /\ Head(line[from]) \in S
         /\ DOMAIN line' = Lines /\ frame_counter' \in Nat
         /\ line'[from] = Tail(line[from])
         /\ \/ line'[to] = line[to]
            \/ /\ Len(line[to]) < LineSize
               /\ line'[to] = Append(line[to], PassedOn(Head(line[from]), frame_counter'))
         /\ \A l \in Lines : l \notin {from, to} => line'[l] = line[l]
         /\ line'[from] \in Seq(S) /\ Len(line'[from]) <= LineSize
         /\ line'[to] \in Seq(S) /\ Len(line'[to]) <= LineSize
PROOF
  <1> DEFINE f == Head(line[from])
             rest == [line EXCEPT ![from] = Tail(line[from])]
  <1>1. line[from] # <<>> /\ f \in S
    BY HeadTailProperties DEF Forward
  <1>2. frame_counter' \in Nat
    BY DEF Forward
  <1>3. /\ DOMAIN rest = Lines /\ rest[from] = Tail(line[from]) /\ rest[to] = line[to]
        /\ \A l \in Lines : l # from => rest[l] = line[l]
    OBVIOUS
  <1>4. \/ line' = rest
        \/ /\ Len(line[to]) < LineSize
           /\ line' = [rest EXCEPT ![to] = Append(rest[to], PassedOn(f, frame_counter'))]
    BY DEF Forward
  <1> HIDE DEF rest, f
  <1>5. /\ DOMAIN line' = Lines /\ line'[from] = Tail(line[from])
        /\ \/ line'[to] = line[to]
           \/ /\ Len(line[to]) < LineSize
              /\ line'[to] = Append(line[to], PassedOn(f, frame_counter'))
        /\ \A l \in Lines : l \notin {from, to} => line'[l] = line[l]
    BY <1>3, <1>4
  <1>6. line'[from] \in Seq(S) /\ Len(line'[from]) <= LineSize
    <2>1. /\ Tail(line[from]) \in Seq(S) /\ Len(line[from]) \in Nat
          /\ Len(Tail(line[from])) = Len(line[from]) - 1
      BY <1>1, HeadTailProperties, LenProperties
    <2> QED
      BY <1>5, <2>1, Constants
  <1>7. line'[to] \in Seq(S) /\ Len(line'[to]) <= LineSize
    <2>1. PassedOn(f, frame_counter') \in S
      BY <1>1, <1>2
    <2>2. /\ Append(line[to], PassedOn(f, frame_counter')) \in Seq(S)
          /\ Len(Append(line[to], PassedOn(f, frame_counter'))) = Len(line[to]) + 1
          /\ Len(line[to]) \in Nat
      BY <2>1, AppendProperties, LenProperties
    <2>3. Len(line[to]) < LineSize => Len(line[to]) + 1 <= LineSize
      BY <2>2, Constants
    <2> QED
      BY <1>5, <2>2, <2>3, Zenon
  <1> QED
    BY <1>1, <1>2, <1>5, <1>6, <1>7 DEF f

\* The injector keeps the kind of a frame.
LEMMA PassedOnType ==
  /\ \A f \in UpFrame : \A k \in Nat : PassedOn(f, k) \in UpFrame
  /\ \A f \in DownFrame : \A k \in Nat : PassedOn(f, k) \in DownFrame
PROOF
  BY DEF PassedOn, UpFrame, DownFrame

\* send_out adds at most one frame to tx_fifo, and none to a full one.
LEMMA SendOutType ==
  ASSUME TypeOK, NEW type \in {"COMMAND", "ACK", "NACK"}, NEW n \in Nat,
         SendOut(type, n)
  PROVE  tx_fifo' \in Seq(DownFrame) /\ Len(tx_fifo') <= TxDepth
PROOF
  <1> DEFINE f == [type |-> type, origin |-> "supervisor", n |-> n, ok |-> TRUE]
  <1>1. f \in DownFrame
    BY DEF DownFrame
  <1>2. tx_fifo' = tx_fifo \/ (Len(tx_fifo) < TxDepth /\ tx_fifo' = Append(tx_fifo, f))
    BY DEF SendOut
  <1> HIDE DEF f
  <1>3. tx_fifo \in Seq(DownFrame) /\ Len(tx_fifo) <= TxDepth /\ Len(tx_fifo) \in Nat
    BY LenProperties DEF TypeOK
  <1>4. /\ Append(tx_fifo, f) \in Seq(DownFrame)
        /\ Len(Append(tx_fifo, f)) = Len(tx_fifo) + 1
    BY <1>1, <1>3, AppendProperties
  <1>5. Len(tx_fifo) < TxDepth => Len(tx_fifo) + 1 <= TxDepth
    BY <1>3, Constants
  <1> QED
    BY <1>2, <1>3, <1>4, <1>5, Zenon

\* An answer is one frame, with the next number, or there is none.
LEMMA AnswerType ==
  ASSUME TypeOK, NEW f, Answer(f)
  PROVE  /\ commands' \in 0..MaxCommands
         /\ requests \subseteq 0..(commands' - 1)
         /\ tx_fifo' \in Seq(DownFrame) /\ Len(tx_fifo') <= TxDepth
PROOF
  <1>1. commands \in 0..MaxCommands /\ requests \subseteq 0..(commands - 1)
    BY DEF TypeOK
  <1>2. CASE Answered(f) /\ commands < MaxCommands /\ commands' = commands + 1
             /\ SendOut(IF f.ok THEN "ACK" ELSE "NACK", commands)
    <2>1. PICK type \in {"COMMAND", "ACK", "NACK"} : SendOut(type, commands)
      <3>1. CASE f.ok
        BY <1>2, <3>1
      <3>2. CASE ~f.ok
        BY <1>2, <3>2
      <3> QED
        BY <3>1, <3>2
    <2>2. tx_fifo' \in Seq(DownFrame) /\ Len(tx_fifo') <= TxDepth
      BY <1>1, <2>1, Constants, SendOutType
    <2>3. commands' \in 0..MaxCommands /\ 0..(commands - 1) \subseteq 0..(commands' - 1)
      BY <1>1, <1>2, Constants
    <2> QED
      BY <1>1, <2>2, <2>3
  <1>3. CASE UNCHANGED <<commands, tx_fifo>>
    BY <1>1, <1>3 DEF TypeOK
  <1> QED
    BY <1>2, <1>3 DEF Answer

\* Every step of the link keeps the types, and no queue and no line grows past
\* its size.
THEOREM LinkTypeCorrect == Spec => []TypeOK
PROOF
  <1>1. Init => TypeOK
    <2> SUFFICES ASSUME Init PROVE TypeOK
      OBVIOUS
    <2>1. <<>> \in Seq(UpFrame) /\ <<>> \in Seq(DownFrame) /\ Len(<<>>) = 0
      BY EmptySeq
    <2>2. DOMAIN line = Lines /\ \A l \in Lines : line[l] = <<>>
      BY DEF Init
    <2>3. LinesOK
      <3>1. /\ line["fw_out"] = <<>> /\ line["host_in"] = <<>>
            /\ line["host_out"] = <<>> /\ line["fw_in"] = <<>>
        BY <2>2 DEF Lines
      <3>2. 0 <= LineSize
        BY Constants
      <3> QED
        BY <2>1, <3>1, <3>2, Zenon DEF LinesOK
    <2>4. \A l \in Lines : line[l] \in Seq(FrameOn(l)) /\ Len(line[l]) <= LineSize
      BY <2>3, TypeOfLines
    <2>5. /\ tx_sequence \in 0..MaxSent /\ number \in [Tasks -> -1..MaxSent]
          /\ synth_seq \in 0..MaxSynth /\ synth \in [Makers -> -1..MaxSynth]
          /\ commands \in 0..MaxCommands /\ requests \subseteq 0..(commands - 1)
          /\ frame_counter \in Nat
      BY Constants DEF Init
    <2>6. /\ rx_fifo \in Seq(UpFrame) /\ Len(rx_fifo) <= RxDepth
          /\ tx_fifo \in Seq(DownFrame) /\ Len(tx_fifo) <= TxDepth
          /\ linkd \in LinkdAt /\ held \in Seq(DownFrame) /\ Len(held) = HeldAt(linkd)
      BY <2>1, Constants DEF Init, LinkdAt, HeldAt
    <2>7. /\ seen \subseteq {"HEARTBEAT", "FAULT_EVENT"} \X (0..(SeqNumbers - 1))
          /\ accepted \subseteq UpFrame /\ discarded \in UpFrame \cup {None}
      BY DEF Init
    <2>8. got \in [up : UpFrame \cup {None}, down : DownFrame \cup {None}]
      BY DEF Init
    <2> QED
      BY <2>2, <2>4, <2>5, <2>6, <2>7, <2>8, Zenon DEF TypeOK
  <1>2. TypeOK /\ [Next]_vars => TypeOK'
    <2> SUFFICES ASSUME TypeOK, [Next]_vars PROVE TypeOK'
      OBVIOUS
    <2>0. DOMAIN line = Lines /\ LinesOK
      BY TypeOfLines DEF TypeOK
    <2>1. LinesOK' => (\A l \in Lines : line[l] \in Seq(FrameOn(l))
                                         /\ Len(line[l]) <= LineSize)'
      BY TypeOfLines, PTL
    <2>2. ASSUME NEW t \in Tasks, TakeNumber(t) PROVE TypeOK'
      <3>1. number' \in [Tasks -> -1..MaxSent] /\ tx_sequence' \in 0..MaxSent
        BY <2>2, Constants DEF TakeNumber, TypeOK
      <3> QED
        BY <2>2, <3>1, Zenon DEF TakeNumber, TypeOK, superVars, drvVars, loopVars, FrameOn
    <2>3. ASSUME NEW t \in Tasks, SendFrame(t) PROVE TypeOK'
      <3> DEFINE f == [type |-> TypeSent[t], origin |-> "firmware",
                       n |-> number[t], ok |-> TRUE]
      <3>1. f \in UpFrame /\ number' \in [Tasks -> -1..MaxSent]
        BY <2>3, Constants DEF SendFrame, TypeOK, UpFrame, TypeSent, Tasks
      <3> HIDE DEF f
      <3>2. /\ DOMAIN line' = Lines /\ line'["fw_out"] = Append(line["fw_out"], f)
            /\ \A l \in Lines : l # "fw_out" => line'[l] = line[l]
            /\ Len(line["fw_out"]) < LineSize
        BY <2>0, <2>3 DEF SendFrame, f, Lines
      <3>3. /\ line'["fw_out"] \in Seq(UpFrame)
            /\ Len(line'["fw_out"]) = Len(line["fw_out"]) + 1
            /\ Len(line["fw_out"]) \in Nat
        BY <2>0, <3>1, <3>2, AppendProperties, LenProperties DEF LinesOK
      <3>4. LinesOK'
        BY <2>0, <3>2, <3>3, Constants DEF LinesOK, Lines
      <3> QED
        BY <2>1, <2>3, <3>1, <3>2, <3>4, Zenon DEF SendFrame, TypeOK, superVars, drvVars,
             loopVars
    <2>4. CASE FirmwareReceives
      <3>1. /\ DOMAIN line' = Lines /\ line'["fw_in"] = Tail(line["fw_in"])
            /\ \A l \in Lines : l # "fw_in" => line'[l] = line[l]
            /\ line["fw_in"] # <<>>
        BY <2>0, <2>4 DEF FirmwareReceives, Lines
      <3>2. /\ Head(line["fw_in"]) \in DownFrame /\ line'["fw_in"] \in Seq(DownFrame)
            /\ Len(line'["fw_in"]) = Len(line["fw_in"]) - 1
            /\ Len(line["fw_in"]) \in Nat
        BY <2>0, <3>1, HeadTailProperties, LenProperties DEF LinesOK
      <3>3. LinesOK'
        BY <2>0, <3>1, <3>2, Constants DEF LinesOK, Lines
      <3>4. got' \in [up : UpFrame \cup {None}, down : DownFrame \cup {None}]
        BY <2>4, <3>2 DEF FirmwareReceives, TypeOK
      <3> QED
        BY <2>1, <2>4, <3>1, <3>3, <3>4, Zenon
           DEF FirmwareReceives, TypeOK, superVars, fwVars, drvVars, loopVars
    <2>5. CASE Forward("fw_out", "host_in") \/ Forward("host_out", "fw_in")
      <3>0. /\ {"fw_out", "host_in", "host_out", "fw_in"} \subseteq Lines
            /\ frame_counter \in Nat /\ DOMAIN line = Lines
        BY DEF Lines, TypeOK
      <3>1. CASE Forward("fw_out", "host_in")
        <4>1. /\ line["fw_out"] \in Seq(UpFrame) /\ Len(line["fw_out"]) <= LineSize
              /\ line["host_in"] \in Seq(UpFrame) /\ Len(line["host_in"]) <= LineSize
          BY <2>0 DEF LinesOK
        <4>2. \A f \in UpFrame : \A k \in Nat : PassedOn(f, k) \in UpFrame
          BY PassedOnType
        <4>3. /\ DOMAIN line' = Lines /\ frame_counter' \in Nat
              /\ \A l \in Lines : l \notin {"fw_out", "host_in"} => line'[l] = line[l]
              /\ line'["fw_out"] \in Seq(UpFrame) /\ Len(line'["fw_out"]) <= LineSize
              /\ line'["host_in"] \in Seq(UpFrame) /\ Len(line'["host_in"]) <= LineSize
          BY <3>0, <3>1, <4>1, <4>2, ForwardLines
        <4>4. LinesOK'
          BY <2>0, <3>0, <4>3 DEF LinesOK
        <4> QED
          BY <2>1, <3>1, <4>3, <4>4, Zenon DEF Forward, TypeOK, superVars, fwVars,
               drvVars, loopVars
      <3>2. CASE Forward("host_out", "fw_in")
        <4>1. /\ line["host_out"] \in Seq(DownFrame) /\ Len(line["host_out"]) <= LineSize
              /\ line["fw_in"] \in Seq(DownFrame) /\ Len(line["fw_in"]) <= LineSize
          BY <2>0 DEF LinesOK
        <4>2. \A f \in DownFrame : \A k \in Nat : PassedOn(f, k) \in DownFrame
          BY PassedOnType
        <4>3. /\ DOMAIN line' = Lines /\ frame_counter' \in Nat
              /\ \A l \in Lines : l \notin {"host_out", "fw_in"} => line'[l] = line[l]
              /\ line'["host_out"] \in Seq(DownFrame) /\ Len(line'["host_out"]) <= LineSize
              /\ line'["fw_in"] \in Seq(DownFrame) /\ Len(line'["fw_in"]) <= LineSize
          BY <3>0, <3>2, <4>1, <4>2, ForwardLines
        <4>4. LinesOK'
          BY <2>0, <3>0, <4>3 DEF LinesOK
        <4> QED
          BY <2>1, <3>2, <4>3, <4>4, Zenon DEF Forward, TypeOK, superVars, fwVars,
               drvVars, loopVars
      <3> QED
        BY <2>5, <3>1, <3>2
    <2>6. CASE LinkdPushes
      <3>0. line["host_in"] \in Seq(UpFrame) /\ Len(line["host_in"]) <= LineSize
            /\ line["host_in"] # <<>>
        BY <2>0, <2>6 DEF LinesOK, LinkdPushes
      <3>1. /\ DOMAIN line' = Lines /\ line'["host_in"] = Tail(line["host_in"])
            /\ \A l \in Lines : l # "host_in" => line'[l] = line[l]
        BY <2>0, <2>6 DEF LinkdPushes, Lines
      <3>2. /\ Head(line["host_in"]) \in UpFrame /\ line'["host_in"] \in Seq(UpFrame)
            /\ Len(line'["host_in"]) = Len(line["host_in"]) - 1
            /\ Len(line["host_in"]) \in Nat
        BY <3>0, <3>1, HeadTailProperties, LenProperties
      <3>3. LinesOK'
        BY <2>0, <3>1, <3>2, Constants DEF LinesOK, Lines
      <3>4. rx_fifo' \in Seq(UpFrame) /\ Len(rx_fifo') <= RxDepth
        <4>1. rx_fifo \in Seq(UpFrame) /\ Len(rx_fifo) <= RxDepth /\ Len(rx_fifo) \in Nat
          BY LenProperties DEF TypeOK
        <4>2. /\ Append(rx_fifo, Head(line["host_in"])) \in Seq(UpFrame)
              /\ Len(Append(rx_fifo, Head(line["host_in"]))) = Len(rx_fifo) + 1
          BY <3>2, <4>1, AppendProperties
        <4>3. Len(rx_fifo) < RxDepth => Len(rx_fifo) + 1 <= RxDepth
          BY <4>1, Constants
        <4> QED
          BY <2>6, <4>1, <4>2, <4>3, Zenon DEF LinkdPushes
      <3> QED
        BY <2>1, <2>6, <3>1, <3>3, <3>4, Zenon
           DEF LinkdPushes, LinkdUnchanged, TypeOK, superVars, fwVars, drvVars, loopVars
    <2>7. CASE LinkdPops
      <3>1. /\ tx_fifo \in Seq(DownFrame) /\ tx_fifo # <<>>
            /\ Len(tx_fifo) <= TxDepth /\ Len(tx_fifo) \in Nat
        BY <2>7, LenProperties DEF LinkdPops, TypeOK
      <3>2. /\ Head(tx_fifo) \in DownFrame /\ Tail(tx_fifo) \in Seq(DownFrame)
            /\ Len(Tail(tx_fifo)) = Len(tx_fifo) - 1
        BY <3>1, HeadTailProperties
      <3>3. Len(Tail(tx_fifo)) <= TxDepth
        BY <3>1, <3>2, Constants
      <3>4. <<Head(tx_fifo)>> \in Seq(DownFrame) /\ Len(<<Head(tx_fifo)>>) = 1
        BY <3>2
      <3>5. tx_fifo' = Tail(tx_fifo) /\ held' = <<Head(tx_fifo)>> /\ linkd' = "write"
        BY <2>7 DEF LinkdPops
      <3>6. linkd' \in LinkdAt /\ held' \in Seq(DownFrame) /\ Len(held') = HeldAt(linkd')
        BY <3>4, <3>5 DEF LinkdAt, HeldAt
      <3>7. /\ line' = line /\ rx_fifo' = rx_fifo /\ tx_sequence' = tx_sequence
            /\ number' = number /\ synth_seq' = synth_seq /\ synth' = synth
            /\ commands' = commands /\ requests' = requests
            /\ frame_counter' = frame_counter /\ seen' = seen /\ got' = got
            /\ accepted' = accepted /\ discarded' = discarded
        BY <2>7 DEF LinkdPops, LinkdUnchanged, fwVars, superVars, drvVars, loopVars
      <3>8. tx_fifo' \in Seq(DownFrame) /\ Len(tx_fifo') <= TxDepth
        BY <3>2, <3>3, <3>5
      <3> QED
        BY <3>2, <3>3, <3>6, <3>7, <3>8, Zenon DEF TypeOK
    <2>8. CASE LinkdWrites
      <3>1. /\ held \in Seq(DownFrame) /\ Len(held) = 1
            /\ line["host_out"] \in Seq(DownFrame) /\ Len(line["host_out"]) < LineSize
            /\ Len(line["host_out"]) \in Nat
        BY <2>0, <2>8, LenProperties DEF LinkdWrites, TypeOK, LinesOK, HeldAt
      <3>2. held[1] \in DownFrame
        <4>1. 1 \in 1 .. Len(held)
          BY <3>1
        <4> QED
          BY <3>1, <4>1, ElementOfSeq
      <3>3. /\ DOMAIN line' = Lines /\ line'["host_out"] = Append(line["host_out"], held[1])
            /\ \A l \in Lines : l # "host_out" => line'[l] = line[l]
        BY <2>0, <2>8 DEF LinkdWrites, Lines
      <3>4. /\ line'["host_out"] \in Seq(DownFrame)
            /\ Len(line'["host_out"]) = Len(line["host_out"]) + 1
        BY <3>1, <3>2, <3>3, AppendProperties
      <3>5. LinesOK'
        <4>1. Len(line'["host_out"]) <= LineSize
          BY <3>1, <3>4, Constants
        <4> QED
          BY <2>0, <3>3, <3>4, <4>1 DEF LinesOK, Lines
      <3>6. <<>> \in Seq(DownFrame) /\ Len(<<>>) = 0
        BY EmptySeq
      <3>7. linkd' = "pop" /\ held' = <<>>
        BY <2>8 DEF LinkdWrites
      <3>8. linkd' \in LinkdAt /\ held' \in Seq(DownFrame) /\ Len(held') = HeldAt(linkd')
        BY <3>6, <3>7 DEF LinkdAt, HeldAt
      <3>9. /\ rx_fifo' = rx_fifo /\ tx_fifo' = tx_fifo /\ tx_sequence' = tx_sequence
            /\ number' = number /\ synth_seq' = synth_seq /\ synth' = synth
            /\ commands' = commands /\ requests' = requests
            /\ frame_counter' = frame_counter /\ seen' = seen /\ got' = got
            /\ accepted' = accepted /\ discarded' = discarded
        BY <2>8 DEF LinkdWrites, LinkdUnchanged, fwVars, superVars, drvVars, loopVars
      <3> QED
        BY <2>1, <3>3, <3>5, <3>8, <3>9, Zenon DEF TypeOK
    <2>9. CASE LinkdWriteFails
      <3>1. <<>> \in Seq(DownFrame) /\ Len(<<>>) = 0
        BY EmptySeq
      <3>2. linkd' \in LinkdAt /\ held' \in Seq(DownFrame) /\ Len(held') = HeldAt(linkd')
        BY <2>9, <3>1 DEF LinkdWriteFails, LinkdAt, HeldAt
      <3> QED
        BY <2>9, <3>2, Zenon
           DEF LinkdWriteFails, LinkdUnchanged, TypeOK, superVars, fwVars, drvVars, loopVars
    <2>10. CASE LinkdStops \/ LinkdPolls \/ LinkdReadEmpty \/ LinkdPopEmpty
      BY <2>10, Zenon DEF LinkdStops, LinkdPolls, LinkdReadEmpty, LinkdPopEmpty,
           LinkdUnchanged, TypeOK, superVars, fwVars, drvVars, loopVars, LinkdAt, HeldAt
    <2>11. ASSUME NEW m \in Makers, TakeSynthSeq(m) PROVE TypeOK'
      <3>1. synth' \in [Makers -> -1..MaxSynth] /\ synth_seq' \in 0..MaxSynth
        BY <2>11, Constants DEF TakeSynthSeq, TypeOK
      <3> QED
        BY <2>11, <3>1, Zenon DEF TakeSynthSeq, TypeOK, superVars, fwVars, drvVars, loopVars
    <2>12. ASSUME NEW m \in Makers, PushSynth(m) PROVE TypeOK'
      <3> DEFINE f == [type |-> "FAULT_EVENT", origin |-> "driver",
                       n |-> synth[m], ok |-> TRUE]
      <3>1. f \in UpFrame /\ synth' \in [Makers -> -1..MaxSynth]
        BY <2>12, Constants DEF PushSynth, TypeOK, UpFrame
      <3> HIDE DEF f
      <3>2. rx_fifo \in Seq(UpFrame) /\ Len(rx_fifo) <= RxDepth /\ Len(rx_fifo) \in Nat
        BY LenProperties DEF TypeOK
      <3>3. /\ Append(rx_fifo, f) \in Seq(UpFrame)
            /\ Len(Append(rx_fifo, f)) = Len(rx_fifo) + 1
        BY <3>1, <3>2, AppendProperties
      <3>4. Len(rx_fifo) < RxDepth => Len(rx_fifo) + 1 <= RxDepth
        BY <3>2, Constants
      <3>5. rx_fifo' \in Seq(UpFrame) /\ Len(rx_fifo') <= RxDepth
        BY <2>12, <3>2, <3>3, <3>4, Zenon DEF PushSynth, f
      <3> QED
        BY <2>12, <3>1, <3>5, Zenon DEF PushSynth, TypeOK, superVars, fwVars, drvVars,
             loopVars
    <2>13. CASE SupervisorReads
      <3> DEFINE f == Head(rx_fifo)
      <3>1. /\ rx_fifo \in Seq(UpFrame) /\ rx_fifo # <<>>
            /\ Len(rx_fifo) <= RxDepth /\ Len(rx_fifo) \in Nat
        BY <2>13, LenProperties DEF SupervisorReads, TypeOK
      <3>2. /\ f \in UpFrame /\ Tail(rx_fifo) \in Seq(UpFrame)
            /\ Len(Tail(rx_fifo)) = Len(rx_fifo) - 1
        BY <3>1, HeadTailProperties
      <3> HIDE DEF f
      <3>3. Len(Tail(rx_fifo)) <= RxDepth
        BY <3>1, <3>2, Constants
      <3>4. <<f.type, Seq16(f)>> \in {"HEARTBEAT", "FAULT_EVENT"} \X (0..(SeqNumbers - 1))
        BY <3>2, Constants DEF UpFrame, Seq16
      <3>5. /\ seen' \subseteq {"HEARTBEAT", "FAULT_EVENT"} \X (0..(SeqNumbers - 1))
            /\ accepted' \subseteq UpFrame /\ discarded' \in UpFrame \cup {None}
        <4>1. Handle(f)
          BY <2>13 DEF SupervisorReads, f
        <4>2. /\ seen \subseteq {"HEARTBEAT", "FAULT_EVENT"} \X (0..(SeqNumbers - 1))
              /\ accepted \subseteq UpFrame /\ discarded \in UpFrame \cup {None}
          BY DEF TypeOK
        <4> QED
          BY <3>2, <3>4, <4>1, <4>2, Zenon DEF Handle, superVars
      <3>6. got' \in [up : UpFrame \cup {None}, down : DownFrame \cup {None}]
        BY <2>13, <3>2 DEF SupervisorReads, TypeOK, f
      <3>7. rx_fifo' = Tail(rx_fifo) /\ Answer(f)
            /\ UNCHANGED <<fwVars, drvVars, requests, line, frame_counter, linkd, held>>
        BY <2>13, Zenon DEF SupervisorReads, f
      <3>8. /\ commands' \in 0..MaxCommands /\ requests \subseteq 0..(commands' - 1)
            /\ tx_fifo' \in Seq(DownFrame) /\ Len(tx_fifo') <= TxDepth
        BY <3>7, AnswerType
      <3> QED
        BY <3>2, <3>3, <3>5, <3>6, <3>7, <3>8, Zenon DEF TypeOK, fwVars, drvVars, loopVars
    <2>14. CASE RequestRecovery
      <3>1. commands' \in 0..MaxCommands /\ requests' \subseteq 0..(commands' - 1)
        <4>1. /\ commands \in 0..MaxCommands /\ requests \subseteq 0..(commands - 1)
              /\ commands < MaxCommands /\ commands' = commands + 1
              /\ requests' = requests \cup {commands}
          BY <2>14 DEF RequestRecovery, TypeOK
        <4>2. /\ commands' \in 0..MaxCommands /\ commands \in 0..(commands' - 1)
              /\ 0..(commands - 1) \subseteq 0..(commands' - 1)
          BY <4>1, Constants
        <4> QED
          BY <4>1, <4>2, Zenon
      <3> QED
        BY <2>14, <3>1, Zenon DEF RequestRecovery, TypeOK, superVars, fwVars, drvVars,
             loopVars
    <2>15. ASSUME NEW n \in requests, WorkerSends(n) PROVE TypeOK'
      <3>1. n \in Nat /\ requests' \subseteq 0..(commands - 1)
        BY <2>15, Constants DEF WorkerSends, TypeOK
      <3>2. tx_fifo' \in Seq(DownFrame) /\ Len(tx_fifo') <= TxDepth
        <4>1. PICK type \in {"COMMAND", "ACK", "NACK"} : SendOut(type, n)
          BY <2>15 DEF WorkerSends
        <4> QED
          BY <3>1, <4>1, SendOutType
      <3> QED
        BY <2>15, <3>1, <3>2, Zenon DEF WorkerSends, TypeOK, superVars, fwVars, drvVars,
             loopVars
    <2>16. CASE UNCHANGED vars
      BY <2>16, Zenon DEF vars, TypeOK
    <2> QED
      BY <2>2, <2>3, <2>4, <2>5, <2>6, <2>7, <2>8, <2>9, <2>10, <2>11, <2>12,
         <2>13, <2>14, <2>15, <2>16, Zenon DEF Next, LinkdStep
  <1> QED
    BY <1>1, <1>2, PTL DEF Spec

-----------------------------------------------------------------------------
(* Towards the host. *)

\* Each number is taken by one task, from the counter (atomic_inc in
\* safety_send_frame).
NumbersTaken ==
  /\ \A t \in Tasks : number[t] < tx_sequence
  /\ \A t, u \in Tasks : number[t] = number[u] => t = u \/ number[t] = -1

\* Two tasks never hold the same number, however their calls interleave.
THEOREM NumbersDiffer == Spec => []NumbersTaken
PROOF
  <1>1. Init => NumbersTaken
    BY DEF Init, NumbersTaken
  <1>2. TypeOK /\ NumbersTaken /\ [Next]_vars => NumbersTaken'
    <2> SUFFICES ASSUME TypeOK, NumbersTaken, [Next]_vars PROVE NumbersTaken'
      OBVIOUS
    <2>0. tx_sequence \in Nat /\ number \in [Tasks -> Int]
      BY Constants DEF TypeOK
    <2>1. ASSUME NEW t \in Tasks, TakeNumber(t) PROVE NumbersTaken'
      BY <2>0, <2>1 DEF TakeNumber, NumbersTaken
    <2>2. ASSUME NEW t \in Tasks, SendFrame(t) PROVE NumbersTaken'
      BY <2>0, <2>2 DEF SendFrame, NumbersTaken
    <2>3. CASE ~ \E t \in Tasks : TakeNumber(t) \/ SendFrame(t)
      <3>1. tx_sequence' = tx_sequence /\ number' = number
        BY <2>3 DEF Next, FirmwareReceives, Forward, LinkdStops, LinkdStep,
             LinkdPolls, LinkdPushes, LinkdReadEmpty, LinkdPops, LinkdPopEmpty,
             LinkdWrites, LinkdWriteFails, LinkdUnchanged, TakeSynthSeq, PushSynth,
             SupervisorReads, RequestRecovery, WorkerSends, vars, fwVars, drvVars, loopVars
      <3> QED
        BY <3>1, Zenon DEF NumbersTaken
    <2> QED
      BY <2>1, <2>2, <2>3
  <1> QED
    BY <1>1, <1>2, LinkTypeCorrect, PTL DEF Spec

\* So are the numbers of the driver's own frames (synth_seq++ under the lock).
SynthTaken ==
  /\ \A m \in Makers : synth[m] < synth_seq
  /\ \A m, o \in Makers : synth[m] = synth[o] => m = o \/ synth[m] = -1

\* The watchdog and an injected fault never hold the same number, although each
\* pushes its frame under another hold of the lock than it took the number.
THEOREM SynthNumbersDiffer == Spec => []SynthTaken
PROOF
  <1>1. Init => SynthTaken
    BY DEF Init, SynthTaken
  <1>2. TypeOK /\ SynthTaken /\ [Next]_vars => SynthTaken'
    <2> SUFFICES ASSUME TypeOK, SynthTaken, [Next]_vars PROVE SynthTaken'
      OBVIOUS
    <2>0. synth_seq \in Nat /\ synth \in [Makers -> Int]
      BY Constants DEF TypeOK
    <2>1. ASSUME NEW m \in Makers, TakeSynthSeq(m) PROVE SynthTaken'
      BY <2>0, <2>1 DEF TakeSynthSeq, SynthTaken
    <2>2. ASSUME NEW m \in Makers, PushSynth(m) PROVE SynthTaken'
      BY <2>0, <2>2 DEF PushSynth, SynthTaken
    <2>3. CASE ~ \E m \in Makers : TakeSynthSeq(m) \/ PushSynth(m)
      <3>1. synth_seq' = synth_seq /\ synth' = synth
        BY <2>3 DEF Next, TakeNumber, SendFrame, FirmwareReceives, Forward,
             LinkdStops, LinkdStep, LinkdPolls, LinkdPushes, LinkdReadEmpty,
             LinkdPops, LinkdPopEmpty, LinkdWrites, LinkdWriteFails, LinkdUnchanged,
             SupervisorReads, RequestRecovery, WorkerSends, vars, drvVars
      <3> QED
        BY <3>1, Zenon DEF SynthTaken
    <2> QED
      BY <2>1, <2>2, <2>3
  <1> QED
    BY <1>1, <1>2, LinkTypeCorrect, PTL DEF Spec

\* Taking a number sends nothing; sending adds one number to FwSent, the numbers
\* of the frames the firmware has put on its line.
LEMMA FwSentSteps ==
  ASSUME TypeOK, NumbersTaken, NEW t \in Tasks
  PROVE  /\ TakeNumber(t) => FwSent' = FwSent
         /\ SendFrame(t) => /\ FwSent' = FwSent \cup {number[t]}
                            /\ number[t] \notin FwSent /\ number[t] \in 0..MaxSent
PROOF
  <1>0. tx_sequence \in Nat /\ number \in [Tasks -> -1..MaxSent] /\ MaxSent \in Nat
    BY Constants DEF TypeOK
  <1>1. ASSUME TakeNumber(t) PROVE FwSent' = FwSent
    <2>1. /\ tx_sequence' = tx_sequence + 1 /\ number[t] = -1
          /\ number' = [number EXCEPT ![t] = tx_sequence]
      BY <1>1 DEF TakeNumber
    <2>2. ASSUME NEW k PROVE k \in FwSent' <=> k \in FwSent
      <3>1. k \in FwSent <=> k \in 0..(tx_sequence - 1) /\ \A u \in Tasks : number[u] # k
        BY DEF FwSent
      <3>2. k \in FwSent' <=> k \in 0..tx_sequence /\ \A u \in Tasks : number'[u] # k
        BY <1>0, <2>1 DEF FwSent
      <3> QED
        BY <1>0, <2>1, <3>1, <3>2 DEF NumbersTaken
    <2> QED
      BY <2>2
  <1>2. ASSUME SendFrame(t)
        PROVE  /\ FwSent' = FwSent \cup {number[t]}
               /\ number[t] \notin FwSent /\ number[t] \in 0..MaxSent
    <2>1. /\ tx_sequence' = tx_sequence /\ number[t] # -1
          /\ number' = [number EXCEPT ![t] = -1]
      BY <1>2 DEF SendFrame
    <2>2. ASSUME NEW k PROVE k \in FwSent' <=> k \in FwSent \/ k = number[t]
      <3>1. k \in FwSent <=> k \in 0..(tx_sequence - 1) /\ \A u \in Tasks : number[u] # k
        BY DEF FwSent
      <3>2. k \in FwSent' <=> k \in 0..(tx_sequence - 1) /\ \A u \in Tasks : number'[u] # k
        BY <2>1 DEF FwSent
      <3>3. number[t] \in 0..(tx_sequence - 1)
        BY <1>0, <2>1 DEF NumbersTaken
      <3> QED
        BY <1>0, <2>1, <3>1, <3>2, <3>3 DEF NumbersTaken
    <2> QED
      BY <1>0, <2>1, <2>2 DEF FwSent
  <1> QED
    BY <1>1, <1>2

\* In the driver likewise: taking a number makes no frame, pushing adds one to
\* SynthSent, the numbers of the driver's own frames.
LEMMA SynthSentSteps ==
  ASSUME TypeOK, SynthTaken, NEW m \in Makers
  PROVE  /\ TakeSynthSeq(m) => SynthSent' = SynthSent
         /\ PushSynth(m) => /\ SynthSent' = SynthSent \cup {synth[m]}
                            /\ synth[m] \notin SynthSent /\ synth[m] \in 0..MaxSynth
PROOF
  <1>0. synth_seq \in Nat /\ synth \in [Makers -> -1..MaxSynth] /\ MaxSynth \in Nat
    BY Constants DEF TypeOK
  <1>1. ASSUME TakeSynthSeq(m) PROVE SynthSent' = SynthSent
    <2>1. /\ synth_seq' = synth_seq + 1 /\ synth[m] = -1
          /\ synth' = [synth EXCEPT ![m] = synth_seq]
      BY <1>1 DEF TakeSynthSeq
    <2>2. ASSUME NEW k PROVE k \in SynthSent' <=> k \in SynthSent
      <3>1. k \in SynthSent <=> k \in 0..(synth_seq - 1) /\ \A o \in Makers : synth[o] # k
        BY DEF SynthSent
      <3>2. k \in SynthSent' <=> k \in 0..synth_seq /\ \A o \in Makers : synth'[o] # k
        BY <1>0, <2>1 DEF SynthSent
      <3> QED
        BY <1>0, <2>1, <3>1, <3>2 DEF SynthTaken
    <2> QED
      BY <2>2
  <1>2. ASSUME PushSynth(m)
        PROVE  /\ SynthSent' = SynthSent \cup {synth[m]}
               /\ synth[m] \notin SynthSent /\ synth[m] \in 0..MaxSynth
    <2>1. /\ synth_seq' = synth_seq /\ synth[m] # -1
          /\ synth' = [synth EXCEPT ![m] = -1]
      BY <1>2 DEF PushSynth
    <2>2. ASSUME NEW k PROVE k \in SynthSent' <=> k \in SynthSent \/ k = synth[m]
      <3>1. k \in SynthSent <=> k \in 0..(synth_seq - 1) /\ \A o \in Makers : synth[o] # k
        BY DEF SynthSent
      <3>2. k \in SynthSent' <=> k \in 0..(synth_seq - 1) /\ \A o \in Makers : synth'[o] # k
        BY <2>1 DEF SynthSent
      <3>3. synth[m] \in 0..(synth_seq - 1)
        BY <1>0, <2>1 DEF SynthTaken
      <3> QED
        BY <1>0, <2>1, <3>1, <3>2, <3>3 DEF SynthTaken
    <2> QED
      BY <1>0, <2>1, <2>2 DEF SynthSent
  <1> QED
    BY <1>1, <1>2

\* One step of the link is a step of the channel to the host, or none of it:
\* taking a number and a frame that moves on unharmed change nothing, SendFrame
\* sends, PushSynth joins, a refusal or a failed write loses, the injector
\* loses or damages, SupervisorReads takes.
LEMMA UpStep ==
  ASSUME TypeOK, NumbersTaken, SynthTaken, [Next]_vars
  PROVE  [Up!Next]_(Up!cvars)
PROOF
  <1> DEFINE rx == rx_fifo
             hi == line["host_in"]
             fo == line["fw_out"]
  <1>0. /\ rx \in Seq(UpFrame) /\ hi \in Seq(UpFrame) /\ fo \in Seq(UpFrame)
        /\ DOMAIN line = Lines /\ frame_counter \in Nat
        /\ Len(hi) <= LineSize /\ Len(fo) <= LineSize
    BY TypeOfLines DEF TypeOK, LinesOK
  <1>00. InflightUp = (rx \o hi) \o fo
         /\ InflightUp' = (rx_fifo' \o line'["host_in"]) \o line'["fw_out"]
    BY DEF InflightUp
  <1> HIDE DEF rx, hi, fo
  <1>01. /\ rx \o hi \in Seq(UpFrame) /\ hi \o fo \in Seq(UpFrame)
         /\ InflightUp = rx \o (hi \o fo)
    BY <1>0, <1>00, ConcatProperties, ConcatAssociative
  <1>1. ASSUME NEW t \in Tasks, TakeNumber(t) PROVE UNCHANGED Up!cvars
    <2>1. FwSent' = FwSent /\ SynthSent' = SynthSent /\ UNCHANGED <<line, rx_fifo, got>>
      BY <1>1, FwSentSteps DEF TakeNumber, SynthSent, drvVars
    <2> QED
      BY <2>1 DEF Up!cvars, SentUp, InflightUp
  <1>2. ASSUME NEW t \in Tasks, SendFrame(t) PROVE Up!Next
    <2> DEFINE f == [type |-> TypeSent[t], origin |-> "firmware",
                     n |-> number[t], ok |-> TRUE]
               Near == [type : {"HEARTBEAT", "FAULT_EVENT"}, origin : {"firmware"},
                        n : 0..MaxSent, ok : {TRUE}]
    <2>1. /\ FwSent' = FwSent \cup {number[t]}
          /\ number[t] \notin FwSent /\ number[t] \in 0..MaxSent
      BY <1>2, FwSentSteps
    <2>2. f \in Near /\ f \in UpFrame /\ f.ok /\ f.origin = "firmware" /\ f.n = number[t]
      BY <2>1, Constants DEF TypeSent, Tasks, UpFrame
    <2>3. line'["fw_out"] = Append(fo, f) /\ line'["host_in"] = hi /\ rx_fifo' = rx
          /\ SynthSent' = SynthSent /\ got' = got
      BY <1>0, <1>2 DEF SendFrame, SynthSent, drvVars, Lines, rx, hi, fo
    <2> HIDE DEF f
    <2>4. InflightUp' = Append(InflightUp, f)
      <3>1. (rx \o hi) \o Append(fo, f) = Append((rx \o hi) \o fo, f)
        <4> DEFINE u == rx \o hi
        <4>1. u \in Seq(UpFrame) /\ fo \in Seq(UpFrame) /\ f \in UpFrame
          BY <1>0, <1>01, <2>2
        <4> HIDE DEF u, fo
        <4>2. u \o Append(fo, f) = Append(u \o fo, f)
          BY <4>1, AppendLast
        <4> QED
          BY <4>2 DEF u
      <3> QED
        BY <1>00, <2>3, <3>1
    <2>5. /\ SentUp' = SentUp \cup {<<f.origin, f.n>>}
          /\ <<f.origin, f.n>> \notin SentUp
      BY <2>1, <2>2, <2>3 DEF SentUp
    <2>6. Up!Send(f)
      BY <2>2, <2>3, <2>4, <2>5 DEF Up!Send, Up!Once
    <2> QED
      BY <2>2, <2>6 DEF Up!Next
  <1>3. CASE Forward("fw_out", "host_in")
    <2> DEFINE g == PassedOn(Head(fo), frame_counter')
    <2>1. /\ fo # <<>> /\ Head(fo) \in UpFrame /\ frame_counter' \in Nat
          /\ line'["fw_out"] = Tail(fo)
          /\ line'["host_in"] = hi \/ line'["host_in"] = Append(hi, g)
      <3>1. "fw_out" \in Lines /\ "host_in" \in Lines
        BY DEF Lines
      <3>2. \A f \in UpFrame : \A k \in Nat : PassedOn(f, k) \in UpFrame
        BY PassedOnType
      <3>3. /\ DOMAIN line = Lines /\ frame_counter \in Nat
            /\ line["fw_out"] \in Seq(UpFrame) /\ Len(line["fw_out"]) <= LineSize
            /\ line["host_in"] \in Seq(UpFrame) /\ Len(line["host_in"]) <= LineSize
        BY <1>0 DEF hi, fo
      <3>4. /\ line["fw_out"] # <<>> /\ Head(line["fw_out"]) \in UpFrame
            /\ frame_counter' \in Nat
            /\ line'["fw_out"] = Tail(line["fw_out"])
            /\ \/ line'["host_in"] = line["host_in"]
               \/ line'["host_in"] = Append(line["host_in"],
                           PassedOn(Head(line["fw_out"]), frame_counter'))
        BY <1>3, <3>1, <3>2, <3>3, ForwardLines
      <3> QED
        BY <3>4, Zenon DEF hi, fo
    <2>2. g \in UpFrame /\ (g = Head(fo) \/ g = [Head(fo) EXCEPT !.ok = FALSE])
      BY <2>1 DEF PassedOn, UpFrame
    <2>3. SentUp' = SentUp /\ rx_fifo' = rx /\ got' = got
      BY <1>3 DEF Forward, SentUp, FwSent, SynthSent, fwVars, drvVars, loopVars, rx
    <2> HIDE DEF g
    <2>4. CASE line'["host_in"] = hi
      <3> DEFINE k == Len(rx \o hi) + 1
      <3>1. k \in DOMAIN InflightUp /\ InflightUp' = Without(InflightUp, k)
        <4>1. InflightUp' = (rx \o hi) \o Tail(fo)
          BY <1>00, <2>1, <2>3, <2>4
        <4> QED
          <5>1. /\ k \in DOMAIN ((rx \o hi) \o fo)
                /\ (rx \o hi) \o Tail(fo) = Without((rx \o hi) \o fo, k)
            BY <1>0, <1>01, <2>1, LoseMiddle
          <5> QED
            BY <1>00, <4>1, <5>1, Zenon
      <3>2. Up!Lose(k)
        BY <2>3, <3>1, Zenon DEF Up!Lose, Up!Without, Without
      <3> QED
        BY <3>1, <3>2 DEF Up!Next
    <2>5. CASE line'["host_in"] = Append(hi, g)
      <3>1. InflightUp' = Append(rx \o hi, g) \o Tail(fo)
        <4>1. InflightUp' = (rx \o Append(hi, g)) \o Tail(fo)
          BY <1>00, <2>1, <2>3, <2>5
        <4>2. rx \o Append(hi, g) = Append(rx \o hi, g)
          BY <1>0, <2>2, AppendLast
        <4> QED
          BY <4>1, <4>2
      <3>2. CASE g = Head(fo)
        <4>1. InflightUp' = InflightUp
          BY <1>0, <1>00, <1>01, <2>1, <3>1, <3>2, MoveFirst
        <4> QED
          BY <2>3, <4>1 DEF Up!cvars
      <3>3. CASE g = [Head(fo) EXCEPT !.ok = FALSE]
        <4> DEFINE k == Len(rx \o hi) + 1
        <4>1. /\ InflightUp[k] = Head(fo)
              /\ InflightUp' = Changed(InflightUp, k, g)
          <5>1. /\ ((rx \o hi) \o fo)[k] = Head(fo)
                /\ Append(rx \o hi, g) \o Tail(fo) = Changed((rx \o hi) \o fo, k, g)
            <6> DEFINE s == rx \o hi
            <6>1. s \in Seq(UpFrame) /\ fo \in Seq(UpFrame) /\ fo # <<>> /\ g \in UpFrame
              BY <1>0, <1>01, <2>1, <2>2
            <6> HIDE DEF s
            <6>2. /\ (s \o fo)[Len(s) + 1] = Head(fo)
                  /\ Append(s, g) \o Tail(fo) = Changed(s \o fo, Len(s) + 1, g)
              BY <6>1, ChangeMiddle
            <6> QED
              BY <6>2, Zenon DEF s
          <5> QED
            BY <1>00, <3>1, <5>1, Zenon
        <4>2. k \in DOMAIN InflightUp
          BY <1>0, <1>00, <1>01, <2>1, LoseMiddle, SMTT(30)
        <4>3. Up!Damage(k)
          BY <2>3, <3>3, <4>1 DEF Up!Damage, Changed
        <4> QED
          BY <4>2, <4>3 DEF Up!Next
      <3> QED
        BY <2>2, <3>2, <3>3
    <2> QED
      BY <2>1, <2>4, <2>5
  <1>4. CASE LinkdPushes
    <2> DEFINE f == Head(hi)
               t == hi \o fo
    <2>1. /\ hi # <<>> /\ line'["host_in"] = Tail(hi) /\ line'["fw_out"] = fo
          /\ rx_fifo' = rx \/ rx_fifo' = Append(rx, f)
          /\ SentUp' = SentUp /\ got' = got
      BY <1>0, <1>4 DEF LinkdPushes, LinkdUnchanged, SentUp, FwSent, SynthSent, fwVars,
           drvVars, loopVars,
           Lines, rx, hi, fo
    <2>2. f \in UpFrame /\ Tail(hi) \in Seq(UpFrame)
      BY <1>0, <2>1, HeadTailProperties
    <2>3. t # <<>> /\ Head(t) = f /\ Tail(t) = Tail(hi) \o fo
      BY <1>0, <2>1, TakeFirst
    <2>4. t \in Seq(UpFrame) /\ InflightUp = rx \o t
      BY <1>01
    <2> HIDE DEF f, t
    <2>5. CASE rx_fifo' = rx
      <3>1. InflightUp' = rx \o Tail(t)
        <4>1. (rx \o Tail(hi)) \o fo = rx \o (Tail(hi) \o fo)
          BY <1>0, <2>2, ConcatAssociative
        <4> QED
          BY <1>00, <2>1, <2>3, <2>5, <4>1, Zenon
      <3> DEFINE k == Len(rx) + 1
      <3>2. k \in DOMAIN InflightUp /\ rx \o Tail(t) = Without(InflightUp, k)
        BY <1>0, <2>3, <2>4, LoseMiddle
      <3>3. Up!Lose(k)
        BY <2>1, <3>1, <3>2, Zenon DEF Up!Lose, Up!Without, Without
      <3> QED
        BY <3>2, <3>3, Zenon DEF Up!Next
    <2>6. CASE rx_fifo' = Append(rx, f)
      <3>1. InflightUp' = Append(rx, f) \o Tail(t)
        <4>1. Append(rx, f) \in Seq(UpFrame)
          BY <1>0, <2>2, AppendProperties
        <4>2. (Append(rx, f) \o Tail(hi)) \o fo = Append(rx, f) \o (Tail(hi) \o fo)
          BY <1>0, <2>2, <4>1, ConcatAssociative, SMTT(30)
        <4> QED
          BY <1>00, <2>1, <2>3, <2>6, <4>2, Zenon
      <3>2. Append(rx, f) \o Tail(t) = rx \o t
        BY <1>0, <2>3, <2>4, MoveFirst
      <3>3. InflightUp' = InflightUp
        BY <2>4, <3>1, <3>2
      <3> QED
        BY <2>1, <3>3 DEF Up!cvars
    <2> QED
      BY <2>1, <2>5, <2>6
  <1>5. ASSUME NEW m \in Makers, PushSynth(m) PROVE Up!Next
    <2> DEFINE f == [type |-> "FAULT_EVENT", origin |-> "driver",
                     n |-> synth[m], ok |-> TRUE]
               Far == [type : {"FAULT_EVENT"}, origin : {"driver"},
                       n : 0..MaxSynth, ok : {TRUE}]
               t == hi \o fo
               k == Len(rx) + 1
    <2>0. /\ SynthSent' = SynthSent \cup {synth[m]}
          /\ synth[m] \notin SynthSent /\ synth[m] \in 0..MaxSynth
      BY <1>5, SynthSentSteps
    <2>1. /\ f \in Far /\ f \in UpFrame /\ f.ok
          /\ f.origin = "driver" /\ f.n = synth[m]
      BY <2>0, Constants DEF UpFrame
    <2>2. /\ rx_fifo' = rx \/ rx_fifo' = Append(rx, f)
          /\ line' = line /\ got' = got /\ FwSent' = FwSent
      BY <1>5 DEF PushSynth, FwSent, fwVars, drvVars, loopVars, rx
    <2> HIDE DEF f
    <2>3. /\ SentUp' = SentUp \cup {<<f.origin, f.n>>}
          /\ <<f.origin, f.n>> \notin SentUp
      BY <2>0, <2>1, <2>2 DEF SentUp
    <2>4. t \in Seq(UpFrame) /\ InflightUp = rx \o t
      BY <1>01
    <2>5. rx_fifo' = rx => InflightUp' = InflightUp
      BY <1>00, <2>2 DEF hi, fo
    <2>6. rx_fifo' = Append(rx, f) => InflightUp' = Append(rx, f) \o t
      <3>1. Append(rx, f) \in Seq(UpFrame)
        BY <1>0, <2>1, AppendProperties
      <3>2. (Append(rx, f) \o hi) \o fo = Append(rx, f) \o (hi \o fo)
        BY <1>0, <3>1, ConcatAssociative, SMTT(30)
      <3> QED
        BY <1>00, <2>2, <3>2 DEF hi, fo
    <2> HIDE DEF t
    <2>7. /\ k \in 1 .. (Len(InflightUp) + 1)
          /\ Append(rx, f) \o t = With(InflightUp, k, f)
      <3>1. /\ k \in 1 .. (Len(rx \o t) + 1)
            /\ Append(rx, f) \o t = With(rx \o t, k, f)
        <4>1. rx \in Seq(UpFrame) /\ t \in Seq(UpFrame) /\ f \in UpFrame
          BY <1>0, <2>1, <2>4
        <4> HIDE DEF rx
        <4> QED
          BY <4>1, JoinMiddle
      <3> QED
        BY <2>4, <3>1, Zenon
    <2>8. Up!Join(f)
      <3>1. Up!Once(f)
        BY <2>1, <2>2, <2>3, Zenon DEF Up!Once
      <3>2. \/ InflightUp' = InflightUp
            \/ InflightUp' = Up!With(InflightUp, k, f)
        BY <2>2, <2>5, <2>6, <2>7, Zenon DEF Up!With, With
      <3>3. k \in 1 .. (Len(InflightUp) + 1)
        BY <2>7
      <3> QED
        BY <3>1, <3>2, <3>3, Zenon DEF Up!Join
    <2> QED
      BY <2>1, <2>8, Zenon DEF Up!Next
  <1>6. CASE SupervisorReads
    <2>1. /\ rx # <<>> /\ rx_fifo' = Tail(rx) /\ got'.up = Head(rx)
          /\ line' = line /\ SentUp' = SentUp
      BY <1>6 DEF SupervisorReads, TypeOK, SentUp, FwSent, SynthSent, fwVars, drvVars,
           loopVars, rx
    <2>2. Tail(rx) \in Seq(UpFrame)
      BY <1>0, <2>1, HeadTailProperties
    <2>3. /\ rx \o (hi \o fo) # <<>> /\ Head(rx \o (hi \o fo)) = Head(rx)
          /\ Tail(rx \o (hi \o fo)) = Tail(rx) \o (hi \o fo)
      BY <1>0, <1>01, <2>1, TakeFirst
    <2>4. (Tail(rx) \o hi) \o fo = Tail(rx) \o (hi \o fo)
      BY <1>0, <2>2, ConcatAssociative, SMTT(30)
    <2>5. InflightUp' = Tail(InflightUp) /\ InflightUp # <<>>
          /\ got'.up = Head(InflightUp)
      BY <1>00, <1>01, <2>1, <2>3, <2>4 DEF hi, fo
    <2> QED
      BY <2>1, <2>5, Zenon DEF Up!Next, Up!Take
  <1>7. CASE FirmwareReceives \/ Forward("host_out", "fw_in")
    <2>1. /\ SentUp' = SentUp /\ rx_fifo' = rx_fifo /\ got'.up = got.up
          /\ line'["host_in"] = hi /\ line'["fw_out"] = fo
      <3>1. CASE FirmwareReceives
        BY <1>0, <3>1 DEF FirmwareReceives, TypeOK, SentUp, FwSent, SynthSent, fwVars,
             drvVars, loopVars, Lines, hi, fo
      <3>2. CASE Forward("host_out", "fw_in")
        <4>1. SentUp' = SentUp /\ rx_fifo' = rx_fifo /\ got' = got
          BY <3>2 DEF Forward, SentUp, FwSent, SynthSent, fwVars, drvVars, loopVars
        <4>2. line'["host_in"] = line["host_in"] /\ line'["fw_out"] = line["fw_out"]
          BY <1>0, <3>2 DEF Forward, Lines
        <4> QED
          BY <4>1, <4>2 DEF hi, fo
      <3> QED
        BY <1>7, <3>1, <3>2
    <2> QED
      BY <1>00, <2>1 DEF Up!cvars, rx
  <1>8. CASE LinkdWrites
    <2>1. line'["host_in"] = hi /\ line'["fw_out"] = fo /\ rx_fifo' = rx_fifo
          /\ got' = got /\ SentUp' = SentUp
      BY <1>0, <1>8 DEF LinkdWrites, LinkdUnchanged, SentUp, FwSent, SynthSent, fwVars,
           drvVars, loopVars, Lines, hi, fo
    <2> QED
      BY <1>00, <2>1 DEF Up!cvars, rx
  <1>9. CASE LinkdStops \/ LinkdPolls \/ LinkdReadEmpty \/ LinkdPops \/ LinkdPopEmpty
             \/ LinkdWriteFails \/ RequestRecovery
             \/ (\E n \in requests : WorkerSends(n)) \/ UNCHANGED vars
    <2>1. UNCHANGED <<line, rx_fifo, got, tx_sequence, number, synth_seq, synth>>
      BY <1>9 DEF LinkdStops, LinkdPolls, LinkdReadEmpty, LinkdPops, LinkdPopEmpty,
           LinkdWriteFails, LinkdUnchanged, RequestRecovery, WorkerSends, vars, fwVars,
           drvVars, loopVars
    <2> QED
      BY <2>1 DEF Up!cvars, SentUp, FwSent, SynthSent, InflightUp
  <1>10. ASSUME NEW m \in Makers, TakeSynthSeq(m) PROVE UNCHANGED Up!cvars
    <2>1. SynthSent' = SynthSent /\ FwSent' = FwSent /\ UNCHANGED <<line, rx_fifo, got>>
      BY <1>10, SynthSentSteps DEF TakeSynthSeq, FwSent, fwVars, drvVars, loopVars
    <2> QED
      BY <2>1 DEF Up!cvars, SentUp, InflightUp
  <1> QED
    BY <1>1, <1>2, <1>3, <1>4, <1>5, <1>6, <1>7, <1>8, <1>9, <1>10, Zenon
       DEF Next, LinkdStep

\* Towards the host nothing on the way doubles a frame or lets one overtake
\* another: bridge, safety-linkd and driver implement LossyChannel.
THEOREM UpImplementsLossyChannel == Spec => UpIsLossyChannel
PROOF
  <1>1. Init => Up!Init
    <2> SUFFICES ASSUME Init PROVE Up!Init
      OBVIOUS
    <2>1. rx_fifo = <<>> /\ line["host_in"] = <<>> /\ line["fw_out"] = <<>>
          /\ got.up = None
      BY DEF Init, Lines
    <2>2. InflightUp = <<>>
      BY <2>1, EmptySeq, ConcatEmptySeq DEF InflightUp
    <2>3. SentUp = {}
      BY DEF Init, SentUp, FwSent, SynthSent
    <2> QED
      BY <2>1, <2>2, <2>3 DEF Up!Init, Up!None, None
  <1> QED
    BY <1>1, UpStep, LinkTypeCorrect, NumbersDiffer, SynthNumbersDiffer, PTL
       DEF Spec, UpIsLossyChannel, Up!Spec

-----------------------------------------------------------------------------
(* Towards the firmware. *)

\* One step of the link is a step of the channel to the firmware, or none of
\* it: an answer in SupervisorReads and WorkerSends send, a failed write loses,
\* the injector loses or damages, FirmwareReceives takes, RequestRecovery and
\* safety-linkd, which passes frames on, change nothing.
LEMMA DownStep ==
  ASSUME TypeOK, [Next]_vars
  PROVE  [Down!Next]_(Down!cvars)
PROOF
  <1> DEFINE fi == line["fw_in"]
             ho == line["host_out"]
             he == held
             tx == tx_fifo
             F == DownFrame
  <1>0. /\ fi \in Seq(F) /\ ho \in Seq(F) /\ he \in Seq(F) /\ tx \in Seq(F)
        /\ DOMAIN line = Lines /\ frame_counter \in Nat
        /\ Len(fi) <= LineSize /\ Len(ho) <= LineSize
    BY TypeOfLines DEF TypeOK, LinesOK
  <1>00. /\ InflightDown = ((fi \o ho) \o he) \o tx
         /\ InflightDown' = ((line'["fw_in"] \o line'["host_out"]) \o held') \o tx_fifo'
    BY DEF InflightDown
  <1> HIDE DEF fi, ho, he, tx, F
  <1>01. /\ fi \o ho \in Seq(F) /\ he \o tx \in Seq(F) /\ ho \o (he \o tx) \in Seq(F)
         /\ (fi \o ho) \o he \in Seq(F)
    BY <1>0, ConcatProperties
  <1>02. ASSUME NEW a \in Seq(F), NEW b \in Seq(F)
         PROVE  /\ ((a \o b) \o he) \o tx = (a \o b) \o (he \o tx)
                /\ ((a \o b) \o he) \o tx = a \o (b \o (he \o tx))
    <2> DEFINE c == a \o b
               d == he \o tx
    <2>1. c \in Seq(F) /\ d \in Seq(F)
      BY <1>01, ConcatProperties
    <2>2. c \o d = a \o (b \o d)
      <3> HIDE DEF d
      <3> QED
        BY <2>1, ConcatAssociative, SMTT(30) DEF c
    <2>3. (c \o he) \o tx = c \o d
      <3>1. c \in Seq(F) /\ he \in Seq(F) /\ tx \in Seq(F)
        BY <1>0, <2>1
      <3> HIDE DEF c
      <3>2. ASSUME NEW x \in Seq(F), NEW y \in Seq(F), NEW z \in Seq(F)
            PROVE  (x \o y) \o z = x \o (y \o z)
        BY ConcatAssociative, SMTT(30)
      <3> QED
        BY <3>1, <3>2, ZenonT(30)
    <2> QED
      BY <2>2, <2>3, Zenon
  <1>03. /\ InflightDown = (fi \o ho) \o (he \o tx)
         /\ InflightDown = fi \o (ho \o (he \o tx))
    BY <1>0, <1>00, <1>02, Zenon
  <1>04. ASSUME NEW type \in {"COMMAND", "ACK", "NACK"}, NEW n \in 0..MaxCommands,
                SendOut(type, n), UNCHANGED <<line, held>>, got'.down = got.down,
                SentDown' = SentDown \cup {<<"supervisor", n>>},
                <<"supervisor", n>> \notin SentDown
         PROVE  Down!Next
    <2> DEFINE f == [type |-> type, origin |-> "supervisor", n |-> n, ok |-> TRUE]
               Near == [type : {"COMMAND", "ACK", "NACK"}, origin : {"supervisor"},
                        n : 0..MaxCommands, ok : {TRUE}]
    <2>1. f \in Near /\ f \in F /\ f.ok /\ f.origin = "supervisor" /\ f.n = n
      BY Constants DEF DownFrame, F
    <2>2. tx_fifo' = tx \/ tx_fifo' = Append(tx, f)
      BY <1>04 DEF SendOut, tx
    <2> HIDE DEF f
    <2>3. tx_fifo' = tx => InflightDown' = InflightDown
      BY <1>00, <1>04 DEF fi, ho, he
    <2>4. tx_fifo' = Append(tx, f) => InflightDown' = Append(InflightDown, f)
      <3>1. ((fi \o ho) \o he) \o Append(tx, f) = Append(((fi \o ho) \o he) \o tx, f)
        BY <1>0, <1>01, <2>1, AppendLast, SMTT(30)
      <3> QED
        BY <1>00, <1>04, <3>1 DEF fi, ho, he
    <2>5. Down!Send(f)
      BY <1>04, <2>1, <2>2, <2>3, <2>4, Zenon DEF Down!Send, Down!Once
    <2> QED
      BY <2>1, <2>5, Zenon DEF Down!Next
  <1>05. commands \in 0..MaxCommands /\ MaxCommands \in Nat
         /\ requests \subseteq 0..(commands - 1)
    BY Constants DEF TypeOK
  <1>1. ASSUME NEW n \in requests, WorkerSends(n) PROVE Down!Next
    <2>1. n \in 0..MaxCommands /\ SendOut("COMMAND", n) /\ UNCHANGED <<line, held>>
          /\ got'.down = got.down
      BY <1>05, <1>1 DEF WorkerSends
    <2>2. /\ SentDown' = SentDown \cup {<<"supervisor", n>>}
          /\ <<"supervisor", n>> \notin SentDown
      <3>1. n \in 0..(commands - 1) /\ commands' = commands /\ requests' = requests \ {n}
        BY <1>05, <1>1 DEF WorkerSends
      <3> QED
        BY <3>1 DEF SentDown, loopVars
    <2>3. PICK type \in {"COMMAND", "ACK", "NACK"} : SendOut(type, n)
      BY <2>1
    <2> QED
      BY <1>04, <2>1, <2>2, <2>3
  <1>2. CASE FirmwareReceives
    <2>1. /\ fi # <<>> /\ line'["fw_in"] = Tail(fi) /\ line'["host_out"] = ho
          /\ held' = he /\ tx_fifo' = tx /\ got'.down = Head(fi) /\ SentDown' = SentDown
      BY <1>0, <1>2 DEF FirmwareReceives, TypeOK, SentDown, loopVars, Lines, fi, ho, he, tx
    <2>2. Tail(fi) \in Seq(F)
      BY <1>0, <2>1, HeadTailProperties
    <2> DEFINE t == ho \o (he \o tx)
    <2>3. fi \o t # <<>> /\ Head(fi \o t) = Head(fi) /\ Tail(fi \o t) = Tail(fi) \o t
      <3>1. fi \in Seq(F) /\ t \in Seq(F) /\ fi # <<>>
        BY <1>0, <1>01, <2>1
      <3> HIDE DEF t
      <3> QED
        BY <3>1, TakeFirst
    <2>4. InflightDown' = Tail(fi) \o t
      <3>1. ((Tail(fi) \o ho) \o he) \o tx = Tail(fi) \o (ho \o (he \o tx))
        BY <1>0, <1>02, <2>2, Zenon
      <3> QED
        BY <1>00, <2>1, <3>1, Zenon
    <2> HIDE DEF t
    <2>5. InflightDown = fi \o t
      BY <1>03 DEF t
    <2> QED
      BY <2>1, <2>3, <2>4, <2>5, Zenon DEF Down!Next, Down!Take
  <1>3. CASE Forward("host_out", "fw_in")
    <2> DEFINE g == PassedOn(Head(ho), frame_counter')
               t == ho \o (he \o tx)
               k == Len(fi) + 1
    <2>1. /\ ho # <<>> /\ Head(ho) \in F /\ frame_counter' \in Nat
          /\ line'["host_out"] = Tail(ho)
          /\ line'["fw_in"] = fi \/ line'["fw_in"] = Append(fi, g)
      <3>1. "fw_in" \in Lines /\ "host_out" \in Lines
        BY DEF Lines
      <3>2. \A f \in DownFrame : \A i \in Nat : PassedOn(f, i) \in DownFrame
        BY PassedOnType
      <3>3. /\ DOMAIN line = Lines /\ frame_counter \in Nat
            /\ line["host_out"] \in Seq(DownFrame) /\ Len(line["host_out"]) <= LineSize
            /\ line["fw_in"] \in Seq(DownFrame) /\ Len(line["fw_in"]) <= LineSize
        BY <1>0 DEF fi, ho, F
      <3>4. /\ line["host_out"] # <<>> /\ Head(line["host_out"]) \in DownFrame
            /\ frame_counter' \in Nat
            /\ line'["host_out"] = Tail(line["host_out"])
            /\ \/ line'["fw_in"] = line["fw_in"]
               \/ line'["fw_in"] = Append(line["fw_in"],
                           PassedOn(Head(line["host_out"]), frame_counter'))
        BY <1>3, <3>1, <3>2, <3>3, ForwardLines
      <3> QED
        BY <3>4, Zenon DEF fi, ho, F
    <2>2. g \in F /\ (g = Head(ho) \/ g = [Head(ho) EXCEPT !.ok = FALSE])
      BY <2>1 DEF PassedOn, DownFrame, F
    <2>3. SentDown' = SentDown /\ held' = he /\ tx_fifo' = tx /\ got' = got
      BY <1>3 DEF Forward, SentDown, loopVars, he, tx
    <2> HIDE DEF g
    <2>4. Tail(ho) \in Seq(F) /\ Append(fi, g) \in Seq(F)
      BY <1>0, <2>1, <2>2, HeadTailProperties, AppendProperties
    <2>5. t \in Seq(F) /\ t # <<>> /\ Head(t) = Head(ho) /\ Tail(t) = Tail(ho) \o (he \o tx)
          /\ InflightDown = fi \o t
      <3> DEFINE u == he \o tx
      <3>1. ho \in Seq(F) /\ u \in Seq(F) /\ ho # <<>>
        BY <1>0, <1>01, <2>1
      <3>2. t \in Seq(F) /\ t = ho \o u /\ InflightDown = fi \o t
        BY <1>01, <1>03
      <3> HIDE DEF u, t
      <3>3. ho \o u # <<>> /\ Head(ho \o u) = Head(ho) /\ Tail(ho \o u) = Tail(ho) \o u
        BY <3>1, TakeFirst
      <3> QED
        BY <3>2, <3>3, Zenon DEF u
    <2> HIDE DEF t
    <2>6. line'["fw_in"] = fi => InflightDown' = fi \o Tail(t)
      <3>1. ((fi \o Tail(ho)) \o he) \o tx = fi \o (Tail(ho) \o (he \o tx))
        BY <1>0, <1>02, <2>4, Zenon
      <3> QED
        BY <1>00, <2>1, <2>3, <2>5, <3>1, Zenon
    <2>7. line'["fw_in"] = Append(fi, g) => InflightDown' = Append(fi, g) \o Tail(t)
      <3>1. ((Append(fi, g) \o Tail(ho)) \o he) \o tx
              = Append(fi, g) \o (Tail(ho) \o (he \o tx))
        BY <1>02, <2>4, Zenon
      <3> QED
        BY <1>00, <2>1, <2>3, <2>5, <3>1, Zenon
    <2>8. k \in DOMAIN InflightDown
      BY <1>0, <2>5, LoseMiddle
    <2>9. CASE line'["fw_in"] = fi
      <3>1. fi \o Tail(t) = Without(fi \o t, k)
        BY <1>0, <2>5, LoseMiddle
      <3>2. Down!Lose(k)
        BY <2>3, <2>5, <2>6, <2>9, <3>1, Zenon DEF Down!Lose, Down!Without, Without
      <3> QED
        BY <2>8, <3>2, Zenon DEF Down!Next
    <2>10. CASE line'["fw_in"] = Append(fi, g) /\ g = Head(ho)
      <3>1. Append(fi, Head(t)) \o Tail(t) = fi \o t
        BY <1>0, <2>5, MoveFirst, Zenon
      <3>2. InflightDown' = InflightDown
        BY <2>5, <2>7, <2>10, <3>1, Zenon
      <3> QED
        BY <2>3, <3>2, Zenon DEF Down!cvars
    <2>11. CASE line'["fw_in"] = Append(fi, g) /\ g = [Head(ho) EXCEPT !.ok = FALSE]
      <3>1. /\ (fi \o t)[k] = Head(t)
            /\ Append(fi, g) \o Tail(t) = Changed(fi \o t, k, g)
        <4>1. fi \in Seq(F) /\ t \in Seq(F) /\ t # <<>> /\ g \in F
          BY <1>0, <2>2, <2>5
        <4> QED
          BY <4>1, ChangeMiddle
      <3>2. /\ InflightDown[k] = Head(ho)
            /\ InflightDown' = Changed(InflightDown, k, g)
        BY <2>5, <2>7, <2>11, <3>1, Zenon
      <3>3. Down!Damage(k)
        BY <2>3, <2>11, <3>2 DEF Down!Damage, Changed
      <3> QED
        BY <2>8, <3>3, Zenon DEF Down!Next
    <2> QED
      BY <2>1, <2>2, <2>9, <2>10, <2>11
  <1>4. CASE LinkdPops
    <2>1. /\ he = <<>> /\ tx # <<>> /\ held' = <<Head(tx)>> /\ tx_fifo' = Tail(tx)
          /\ line' = line /\ got' = got /\ SentDown' = SentDown
      <3>1. he = <<>>
        BY <1>0, <1>4, EmptySeq DEF LinkdPops, TypeOK, HeldAt, he
      <3> QED
        BY <1>4, <3>1 DEF LinkdPops, LinkdUnchanged, SentDown, loopVars, tx
    <2> DEFINE s == fi \o ho
    <2>2. s \in Seq(F) /\ Head(tx) \in F
      BY <1>0, <1>01, <2>1, HeadTailProperties
    <2>3. InflightDown = s \o tx
      <3>1. s \o he = s
        BY <2>1, <2>2, ConcatEmptySeq
      <3> QED
        BY <1>00, <3>1
    <2>4. InflightDown' = (s \o <<Head(tx)>>) \o Tail(tx)
      BY <1>00, <2>1 DEF fi, ho
    <2> HIDE DEF s
    <2>5. s \o <<Head(tx)>> = Append(s, Head(tx))
      BY <2>2, AppendIsConcat
    <2>6. Append(s, Head(tx)) \o Tail(tx) = s \o tx
      BY <1>0, <2>1, <2>2, MoveFirst
    <2> QED
      BY <2>1, <2>3, <2>4, <2>5, <2>6, Zenon DEF Down!cvars
  <1>5. CASE LinkdWrites \/ LinkdWriteFails
    <2> DEFINE s == fi \o ho
               k == Len(s) + 1
    <2>1. /\ he # <<>> /\ Head(he) = held[1] /\ Tail(he) = <<>> /\ held' = <<>>
          /\ tx_fifo' = tx /\ got' = got /\ SentDown' = SentDown
          /\ line'["fw_in"] = fi
      <3>1. linkd = "write" /\ Len(he) = 1
        BY <1>5 DEF LinkdWrites, LinkdWriteFails, TypeOK, HeldAt, he
      <3>2. he # <<>> /\ Head(he) = held[1]
        <4>1. ASSUME NEW c \in Seq(F), Len(c) = 1
              PROVE  c # <<>> /\ Head(c) = c[1]
          BY <4>1
        <4> QED
          BY <1>0, <3>1, <4>1 DEF he
      <3>3. Tail(he) = <<>>
        <4>1. Tail(he) \in Seq(F) /\ Len(Tail(he)) = 0
          BY <1>0, <3>1, <3>2, HeadTailProperties
        <4> QED
          BY <4>1, EmptySeq
      <3> QED
        BY <1>0, <1>5, <3>2, <3>3 DEF LinkdWrites, LinkdWriteFails, LinkdUnchanged,
             SentDown, loopVars, Lines, fi, tx
    <2>2. s \in Seq(F) /\ Head(he) \in F /\ he \o tx # <<>>
          /\ Head(he \o tx) = Head(he) /\ Tail(he \o tx) = tx
      <3>1. he \o tx # <<>> /\ Head(he \o tx) = Head(he) /\ Tail(he \o tx) = <<>> \o tx
        BY <1>0, <2>1, TakeFirst
      <3>2. <<>> \o tx = tx
        BY <1>0, ConcatEmptySeq
      <3> QED
        BY <1>0, <1>01, <2>1, <3>1, <3>2, HeadTailProperties
    <2>3. CASE LinkdWriteFails
      <3>1. line' = line
        BY <2>3 DEF LinkdWriteFails
      <3>2. InflightDown' = s \o tx
        <4>1. InflightDown' = (s \o <<>>) \o tx
          BY <1>00, <2>1, <3>1 DEF fi, ho
        <4>2. s \o <<>> = s
          BY <2>2, ConcatEmptySeq
        <4> QED
          BY <4>1, <4>2
      <3> HIDE DEF s
      <3>3. /\ k \in DOMAIN (s \o (he \o tx))
            /\ s \o Tail(he \o tx) = Without(s \o (he \o tx), k)
        BY <1>01, <2>2, LoseMiddle
      <3>4. InflightDown = s \o (he \o tx)
        BY <1>03 DEF s
      <3>5. Down!Lose(k)
        BY <2>1, <2>2, <3>2, <3>3, <3>4, Zenon DEF Down!Lose, Down!Without, Without
      <3> QED
        BY <3>3, <3>4, <3>5, Zenon DEF Down!Next
    <2>4. CASE LinkdWrites
      <3>1. line'["host_out"] = Append(ho, Head(he))
        BY <1>0, <2>1, <2>4 DEF LinkdWrites, Lines, ho
      <3>2. fi \o Append(ho, Head(he)) = Append(s, Head(he))
        BY <1>0, <2>2, AppendLast
      <3>3. Append(s, Head(he)) \in Seq(F)
        BY <2>2, AppendProperties
      <3>4. Append(s, Head(he)) \o <<>> = Append(s, Head(he))
        BY <3>3, ConcatEmptySeq
      <3>5. InflightDown' = Append(s, Head(he)) \o tx
        BY <1>00, <2>1, <3>1, <3>2, <3>4, Zenon
      <3>6. Append(s, Head(he \o tx)) \o Tail(he \o tx) = s \o (he \o tx)
        <4> HIDE DEF s
        <4> QED
          BY <1>01, <2>2, MoveFirst
      <3> QED
        BY <1>03, <2>1, <2>2, <3>5, <3>6, Zenon DEF Down!cvars
    <2> QED
      BY <1>5, <2>3, <2>4
  <1>6. CASE (\E t \in Tasks : SendFrame(t)) \/ Forward("fw_out", "host_in") \/ LinkdPushes
    <2>1. /\ SentDown' = SentDown /\ held' = held /\ tx_fifo' = tx_fifo /\ got' = got
          /\ line'["host_out"] = ho /\ line'["fw_in"] = fi
      <3>1. CASE Forward("fw_out", "host_in")
        <4>1. SentDown' = SentDown /\ held' = held /\ tx_fifo' = tx_fifo /\ got' = got
          BY <3>1 DEF Forward, SentDown, loopVars
        <4>2. line'["host_out"] = line["host_out"] /\ line'["fw_in"] = line["fw_in"]
          BY <1>0, <3>1 DEF Forward, Lines
        <4> QED
          BY <4>1, <4>2 DEF ho, fi
      <3>2. CASE LinkdPushes
        BY <1>0, <3>2 DEF LinkdPushes, LinkdUnchanged, SentDown, loopVars, Lines, ho, fi
      <3>3. CASE \E t \in Tasks : SendFrame(t)
        BY <1>0, <3>3 DEF SendFrame, SentDown, loopVars, Lines, ho, fi
      <3> QED
        BY <1>6, <3>1, <3>2, <3>3
    <2> QED
      BY <1>00, <2>1 DEF Down!cvars, he, tx
  <1>7. CASE (\E t \in Tasks : TakeNumber(t)) \/ LinkdStops \/ LinkdPolls \/ LinkdReadEmpty
             \/ LinkdPopEmpty \/ (\E m \in Makers : TakeSynthSeq(m) \/ PushSynth(m))
             \/ UNCHANGED vars
    <2>1. UNCHANGED <<line, held, tx_fifo, got, commands, requests>>
      BY <1>7 DEF TakeNumber, LinkdStops, LinkdPolls, LinkdReadEmpty, LinkdPopEmpty,
           LinkdUnchanged, TakeSynthSeq, PushSynth, vars, loopVars
    <2> QED
      BY <2>1 DEF Down!cvars, SentDown, loopVars, InflightDown
  <1>8. CASE SupervisorReads
    <2> DEFINE f == Head(rx_fifo)
    <2>1. UNCHANGED <<line, held, requests>> /\ got'.down = got.down /\ Answer(f)
      BY <1>8 DEF SupervisorReads, TypeOK
    <2> HIDE DEF f
    <2>2. CASE UNCHANGED <<commands, tx_fifo>>
      BY <2>1, <2>2 DEF Down!cvars, SentDown, loopVars, InflightDown
    <2>3. CASE commands' = commands + 1
               /\ SendOut(IF f.ok THEN "ACK" ELSE "NACK", commands)
      <3>1. PICK type \in {"COMMAND", "ACK", "NACK"} : SendOut(type, commands)
        <4>1. CASE f.ok
          BY <2>3, <4>1
        <4>2. CASE ~f.ok
          BY <2>3, <4>2
        <4> QED
          BY <4>1, <4>2
      <3>2. /\ SentDown' = SentDown \cup {<<"supervisor", commands>>}
            /\ <<"supervisor", commands>> \notin SentDown
        <4>1. 0..(commands' - 1) = (0..(commands - 1)) \cup {commands}
              /\ commands \notin 0..(commands - 1) /\ commands \notin requests
          BY <1>05, <2>3
        <4> QED
          BY <2>1, <4>1 DEF SentDown, loopVars
      <3> QED
        BY <1>04, <1>05, <2>1, <3>1, <3>2
    <2> QED
      BY <2>1, <2>2, <2>3 DEF Answer
  <1>9. CASE RequestRecovery
    <2>1. /\ UNCHANGED <<line, held, tx_fifo, got>>
          /\ commands' = commands + 1 /\ requests' = requests \cup {commands}
      BY <1>9 DEF RequestRecovery
    <2>2. (0..(commands' - 1)) \ requests' = (0..(commands - 1)) \ requests
      BY <1>05, <2>1
    <2> QED
      BY <2>1, <2>2 DEF Down!cvars, SentDown, loopVars, InflightDown
  <1> QED
    BY <1>1, <1>2, <1>3, <1>4, <1>5, <1>6, <1>7, <1>8, <1>9, Zenon DEF Next, LinkdStep

\* Towards the firmware no frame is sent twice and none overtakes another:
\* driver, safety-linkd and bridge implement LossyChannel.
THEOREM DownImplementsLossyChannel == Spec => DownIsLossyChannel
PROOF
  <1>1. Init => Down!Init
    <2> SUFFICES ASSUME Init PROVE Down!Init
      OBVIOUS
    <2>1. line["fw_in"] = <<>> /\ line["host_out"] = <<>> /\ held = <<>> /\ tx_fifo = <<>>
          /\ got.down = None
      BY DEF Init, Lines
    <2>2. InflightDown = <<>>
      BY <2>1, EmptySeq, ConcatEmptySeq DEF InflightDown
    <2>3. SentDown = {}
      <3>1. commands = 0
        BY DEF Init
      <3>2. 0 .. (0 - 1) = {}
        OBVIOUS
      <3> QED
        BY <3>1, <3>2 DEF SentDown, loopVars
    <2> QED
      BY <2>1, <2>2, <2>3 DEF Down!Init, Down!None, None
  <1> QED
    BY <1>1, DownStep, LinkTypeCorrect, PTL DEF Spec, DownIsLossyChannel, Down!Spec

-----------------------------------------------------------------------------
(* What the supervisor discards.  No two frames on their way to it are the  *)
(* same one, and none is one it took before.                                *)

Id(f) == <<f.origin, f.n>>
Ids(c) == {Id(c[i]) : i \in DOMAIN c}
EachOnce(c) == \A i, j \in DOMAIN c : Id(c[i]) = Id(c[j]) => i = j

\* The first elements of a sequence and those from the k-th on.
LEMMA CutElements ==
  ASSUME NEW S, NEW c \in Seq(S), NEW k \in 1 .. (Len(c) + 1)
  PROVE  /\ SubSeq(c, 1, k - 1) \in Seq(S) /\ Len(SubSeq(c, 1, k - 1)) = k - 1
         /\ \A i \in 1 .. (k - 1) : SubSeq(c, 1, k - 1)[i] = c[i]
         /\ SubSeq(c, k, Len(c)) \in Seq(S)
         /\ Len(SubSeq(c, k, Len(c))) = (Len(c) + 1) - k
         /\ \A i \in 1 .. ((Len(c) + 1) - k) :
              SubSeq(c, k, Len(c))[i] = c[(k + i) - 1]
PROOF
  <1>1. Len(c) \in Nat /\ k \in Int /\ k - 1 \in Int /\ 1 \in Int
        /\ (\A i \in 1 .. Len(c) : c[i] \in S)
    BY LenProperties, ElementOfSeq
  <1>2. /\ SubSeq(c, 1, k - 1) \in Seq(S)
        /\ Len(SubSeq(c, 1, k - 1)) = IF 1 <= k - 1 THEN (k - 1) - 1 + 1 ELSE 0
        /\ \A i \in 1 .. (k - 1) - 1 + 1 : SubSeq(c, 1, k - 1)[i] = c[1 + i - 1]
    <2>1. \A i \in 1 .. (k - 1) : c[i] \in S
      BY <1>1
    <2> QED
      BY <1>1, <2>1, SubSeqProperties
  <1>3. /\ SubSeq(c, k, Len(c)) \in Seq(S)
        /\ Len(SubSeq(c, k, Len(c))) = IF k <= Len(c) THEN Len(c) - k + 1 ELSE 0
        /\ \A i \in 1 .. Len(c) - k + 1 : SubSeq(c, k, Len(c))[i] = c[k + i - 1]
    <2>1. \A i \in k .. Len(c) : c[i] \in S
      BY <1>1
    <2> QED
      BY <1>1, <2>1, SubSeqProperties
  <1>4. /\ Len(SubSeq(c, 1, k - 1)) = k - 1
        /\ \A i \in 1 .. (k - 1) : SubSeq(c, 1, k - 1)[i] = c[i]
    <2>1. (k - 1) - 1 + 1 = k - 1 /\ k - 1 \in Nat
      BY <1>1
    <2> QED
      BY <1>2, <2>1
  <1>5. /\ Len(SubSeq(c, k, Len(c))) = (Len(c) + 1) - k
        /\ \A i \in 1 .. ((Len(c) + 1) - k) :
             SubSeq(c, k, Len(c))[i] = c[(k + i) - 1]
    <2>1. Len(c) - k + 1 = (Len(c) + 1) - k
      BY <1>1
    <2> QED
      BY <1>1, <1>3, <2>1
  <1> QED
    BY <1>2, <1>3, <1>4, <1>5

\* What is left after a loss was there before, at the same place or one later.
LEMMA WithoutElements ==
  ASSUME NEW S, NEW c \in Seq(S), NEW k \in DOMAIN c
  PROVE  /\ DOMAIN Without(c, k) = 1 .. (Len(c) - 1)
         /\ \A i \in 1 .. (Len(c) - 1) :
              Without(c, k)[i] = IF i < k THEN c[i] ELSE c[i + 1]
PROOF
  <1> DEFINE a == SubSeq(c, 1, k - 1)
             b == SubSeq(c, k + 1, Len(c))
  <1>1. Len(c) \in Nat /\ k \in 1 .. Len(c) /\ k + 1 \in 1 .. (Len(c) + 1)
    BY LenProperties
  <1>2. /\ a \in Seq(S) /\ Len(a) = k - 1
        /\ \A i \in 1 .. (k - 1) : a[i] = c[i]
    BY <1>1, CutElements
  <1>3. /\ b \in Seq(S) /\ Len(b) = (Len(c) + 1) - (k + 1)
        /\ \A i \in 1 .. ((Len(c) + 1) - (k + 1)) : b[i] = c[((k + 1) + i) - 1]
    BY <1>1, CutElements
  <1> HIDE DEF a, b
  <1>4. /\ a \o b \in Seq(S) /\ Len(a \o b) = Len(a) + Len(b)
        /\ \A i \in 1 .. Len(a) + Len(b) :
             (a \o b)[i] = IF i <= Len(a) THEN a[i] ELSE b[i - Len(a)]
    BY <1>2, <1>3, ConcatProperties
  <1>5. Len(a) + Len(b) = Len(c) - 1 /\ DOMAIN (a \o b) = 1 .. (Len(c) - 1)
    <2>1. Len(a) + Len(b) = Len(c) - 1
      BY <1>1, <1>2, <1>3, SMTT(30)
    <2>2. DOMAIN (a \o b) = 1 .. Len(a \o b)
      BY <1>4, LenProperties
    <2> QED
      BY <1>4, <2>1, <2>2
  <1>6. ASSUME NEW i \in 1 .. (Len(c) - 1)
        PROVE  (a \o b)[i] = IF i < k THEN c[i] ELSE c[i + 1]
    <2>1. CASE i < k
      <3>1. i \in 1 .. (k - 1) /\ i <= Len(a)
        BY <1>1, <1>2, <2>1
      <3> QED
        BY <1>2, <1>4, <1>5, <2>1, <3>1
    <2>2. CASE ~(i < k)
      <3>1. /\ ~(i <= Len(a)) /\ i - Len(a) \in 1 .. ((Len(c) + 1) - (k + 1))
            /\ ((k + 1) + (i - Len(a))) - 1 = i + 1
        BY <1>1, <1>2, <2>2, SMTT(30)
      <3> QED
        BY <1>3, <1>4, <1>5, <2>2, <3>1
    <2> QED
      BY <2>1, <2>2
  <1> QED
    BY <1>5, <1>6 DEF Without, a, b

\* What is there after a frame has joined: the frames before, and that one.
LEMMA WithElements ==
  ASSUME NEW S, NEW c \in Seq(S), NEW k \in 1 .. (Len(c) + 1), NEW x \in S
  PROVE  /\ DOMAIN With(c, k, x) = 1 .. (Len(c) + 1)
         /\ \A i \in 1 .. (Len(c) + 1) :
              With(c, k, x)[i] = IF i < k THEN c[i] ELSE IF i = k THEN x ELSE c[i - 1]
PROOF
  <1> DEFINE a == SubSeq(c, 1, k - 1)
             b == SubSeq(c, k, Len(c))
             m == a \o <<x>>
  <1>1. Len(c) \in Nat /\ k \in 1 .. (Len(c) + 1) /\ <<x>> \in Seq(S) /\ Len(<<x>>) = 1
    BY LenProperties
  <1>2. /\ a \in Seq(S) /\ Len(a) = k - 1
        /\ \A i \in 1 .. (k - 1) : a[i] = c[i]
    BY <1>1, CutElements
  <1>3. /\ b \in Seq(S) /\ Len(b) = (Len(c) + 1) - k
        /\ \A i \in 1 .. ((Len(c) + 1) - k) : b[i] = c[(k + i) - 1]
    BY <1>1, CutElements
  <1> HIDE DEF a, b
  <1>4. m \in Seq(S) /\ Len(m) = k /\ m[k] = x /\ \A i \in 1 .. (k - 1) : m[i] = c[i]
    <2>1. m = Append(a, x)
      BY <1>2, AppendIsConcat
    <2>2. /\ Append(a, x) \in Seq(S) /\ Len(Append(a, x)) = Len(a) + 1
          /\ \A i \in 1 .. Len(a) : Append(a, x)[i] = a[i]
          /\ Append(a, x)[Len(a) + 1] = x
      BY <1>2, AppendProperties
    <2> HIDE DEF m
    <2> QED
      BY <1>1, <1>2, <2>1, <2>2
  <1> HIDE DEF m
  <1>5. /\ m \o b \in Seq(S) /\ Len(m \o b) = Len(m) + Len(b)
        /\ \A i \in 1 .. Len(m) + Len(b) :
             (m \o b)[i] = IF i <= Len(m) THEN m[i] ELSE b[i - Len(m)]
    BY <1>3, <1>4, ConcatProperties
  <1>6. Len(m) + Len(b) = Len(c) + 1 /\ DOMAIN (m \o b) = 1 .. (Len(c) + 1)
    BY <1>1, <1>3, <1>4, <1>5, LenProperties
  <1>7. ASSUME NEW i \in 1 .. (Len(c) + 1)
        PROVE  (m \o b)[i] = IF i < k THEN c[i] ELSE IF i = k THEN x ELSE c[i - 1]
    <2>1. CASE i <= k
      <3>1. i = k \/ i \in 1 .. (k - 1)
        BY <1>1, <2>1
      <3> QED
        BY <1>1, <1>4, <1>5, <1>6, <2>1, <3>1
    <2>2. CASE ~(i <= k)
      <3>1. /\ i - k \in 1 .. ((Len(c) + 1) - k) /\ (k + (i - k)) - 1 = i - 1
            /\ ~(i < k) /\ i # k
        BY <1>1, <2>2
      <3> QED
        BY <1>3, <1>4, <1>5, <1>6, <2>2, <3>1
    <2> QED
      BY <2>1, <2>2
  <1> QED
    BY <1>6, <1>7 DEF With, m, a, b

\* Frames that are distinct stay so when one is taken, lost or damaged, and
\* when a new one is put in anywhere.
LEMMA EachOnceKept ==
  ASSUME NEW c \in Seq(UpFrame), EachOnce(c)
  PROVE  /\ c # <<>> => /\ EachOnce(Tail(c)) /\ Id(Head(c)) \in Ids(c)
                        /\ Ids(Tail(c)) \subseteq Ids(c) \ {Id(Head(c))}
         /\ \A k \in DOMAIN c :
              EachOnce(Without(c, k)) /\ Ids(Without(c, k)) \subseteq Ids(c)
         /\ \A k \in DOMAIN c :
              LET d == [c EXCEPT ![k].ok = FALSE]
              IN  EachOnce(d) /\ Ids(d) \subseteq Ids(c)
         /\ \A x \in UpFrame : Id(x) \notin Ids(c) =>
              /\ EachOnce(Append(c, x)) /\ Ids(Append(c, x)) \subseteq Ids(c) \cup {Id(x)}
              /\ \A k \in 1 .. (Len(c) + 1) :
                   /\ EachOnce(With(c, k, x))
                   /\ Ids(With(c, k, x)) \subseteq Ids(c) \cup {Id(x)}
PROOF
  <1>1. Len(c) \in Nat /\ DOMAIN c = 1 .. Len(c)
    BY LenProperties
  <1>2. \A i, j \in 1 .. Len(c) : Id(c[i]) = Id(c[j]) => i = j
    BY <1>1 DEF EachOnce
  <1>3. \A i \in 1 .. Len(c) : Id(c[i]) \in Ids(c)
    BY <1>1 DEF Ids
  <1>4. ASSUME c # <<>>
        PROVE  /\ EachOnce(Tail(c)) /\ Id(Head(c)) \in Ids(c)
               /\ Ids(Tail(c)) \subseteq Ids(c) \ {Id(Head(c))}
    <2>1. /\ Len(c) # 0 /\ Head(c) = c[1]
          /\ Tail(c) \in Seq(UpFrame) /\ Len(Tail(c)) = Len(c) - 1
          /\ \A i \in 1 .. Len(Tail(c)) : Tail(c)[i] = c[i + 1]
      BY <1>4, HeadTailProperties, EmptySeq
    <2>2. DOMAIN Tail(c) = 1 .. (Len(c) - 1)
      BY <2>1, LenProperties
    <2>3. ASSUME NEW i \in 1 .. (Len(c) - 1)
          PROVE  i + 1 \in 1 .. Len(c) /\ i + 1 # 1 /\ 1 \in 1 .. Len(c)
                 /\ Tail(c)[i] = c[i + 1]
      BY <1>1, <2>1
    <2>4. EachOnce(Tail(c))
      BY <1>1, <1>2, <2>2, <2>3 DEF EachOnce
    <2>5. 1 \in 1 .. Len(c)
      BY <1>1, <2>1
    <2>6. Id(Head(c)) \in Ids(c)
      BY <1>3, <2>1, <2>5
    <2>7. ASSUME NEW i \in 1 .. (Len(c) - 1)
          PROVE  Id(Tail(c)[i]) \in Ids(c) \ {Id(Head(c))}
      BY <1>2, <1>3, <2>1, <2>3
    <2> QED
      BY <2>2, <2>4, <2>6, <2>7 DEF Ids
  <1>5. ASSUME NEW k \in DOMAIN c
        PROVE  EachOnce(Without(c, k)) /\ Ids(Without(c, k)) \subseteq Ids(c)
    <2> DEFINE d == Without(c, k)
    <2>1. /\ DOMAIN d = 1 .. (Len(c) - 1)
          /\ \A i \in 1 .. (Len(c) - 1) : d[i] = IF i < k THEN c[i] ELSE c[i + 1]
      BY WithoutElements
    <2> HIDE DEF d
    <2>2. \A i \in 1 .. (Len(c) - 1) : i \in 1 .. Len(c) /\ i + 1 \in 1 .. Len(c)
      BY <1>1
    <2>3. ASSUME NEW i \in 1 .. (Len(c) - 1), NEW j \in 1 .. (Len(c) - 1),
                 Id(d[i]) = Id(d[j])
          PROVE  i = j
      <3>1. d[i] = c[IF i < k THEN i ELSE i + 1] /\ d[j] = c[IF j < k THEN j ELSE j + 1]
        BY <2>1
      <3>2. (IF i < k THEN i ELSE i + 1) = (IF j < k THEN j ELSE j + 1)
        BY <1>2, <2>2, <2>3, <3>1
      <3> QED
        BY <1>1, <3>2
    <2>4. ASSUME NEW i \in 1 .. (Len(c) - 1) PROVE Id(d[i]) \in Ids(c)
      BY <1>3, <2>1, <2>2
    <2> QED
      BY <2>1, <2>3, <2>4 DEF EachOnce, Ids, d
  <1>6. ASSUME NEW k \in DOMAIN c
        PROVE  LET d == [c EXCEPT ![k].ok = FALSE]
               IN  EachOnce(d) /\ Ids(d) \subseteq Ids(c)
    <2> DEFINE d == [c EXCEPT ![k].ok = FALSE]
    <2>1. DOMAIN d = 1 .. Len(c)
      BY <1>1
    <2>2. ASSUME NEW i \in 1 .. Len(c) PROVE Id(d[i]) = Id(c[i])
      <3>1. c[i] \in UpFrame
        BY <1>1, ElementOfSeq
      <3>2. i # k => d[i] = c[i]
        BY <1>1
      <3>3. i = k => d[i] = [c[i] EXCEPT !.ok = FALSE]
        BY <1>1
      <3> HIDE DEF d
      <3>4. [c[i] EXCEPT !.ok = FALSE].origin = c[i].origin
            /\ [c[i] EXCEPT !.ok = FALSE].n = c[i].n
        BY <3>1 DEF UpFrame
      <3> QED
        BY <3>2, <3>3, <3>4 DEF Id
    <2> HIDE DEF d
    <2>3. EachOnce(d)
      BY <1>2, <2>1, <2>2 DEF EachOnce
    <2>4. Ids(d) \subseteq Ids(c)
      BY <1>3, <2>1, <2>2 DEF Ids
    <2> QED
      BY <2>3, <2>4 DEF d
  <1>7. ASSUME NEW x \in UpFrame, Id(x) \notin Ids(c)
        PROVE  EachOnce(Append(c, x)) /\ Ids(Append(c, x)) \subseteq Ids(c) \cup {Id(x)}
    <2> DEFINE d == Append(c, x)
    <2>1. /\ DOMAIN d = 1 .. (Len(c) + 1) /\ d[Len(c) + 1] = x
          /\ \A i \in 1 .. Len(c) : d[i] = c[i]
      BY AppendProperties, LenProperties
    <2> HIDE DEF d
    <2>2. \A i \in 1 .. (Len(c) + 1) : i \in 1 .. Len(c) \/ i = Len(c) + 1
      BY <1>1
    <2>3. ASSUME NEW i \in 1 .. (Len(c) + 1), NEW j \in 1 .. (Len(c) + 1),
                 Id(d[i]) = Id(d[j])
          PROVE  i = j
      BY <1>2, <1>3, <1>7, <2>1, <2>2, <2>3
    <2>4. ASSUME NEW i \in 1 .. (Len(c) + 1) PROVE Id(d[i]) \in Ids(c) \cup {Id(x)}
      BY <1>3, <2>1, <2>2
    <2> QED
      BY <2>1, <2>3, <2>4 DEF EachOnce, Ids, d
  <1>8. ASSUME NEW x \in UpFrame, Id(x) \notin Ids(c), NEW k \in 1 .. (Len(c) + 1)
        PROVE  /\ EachOnce(With(c, k, x))
               /\ Ids(With(c, k, x)) \subseteq Ids(c) \cup {Id(x)}
    <2> DEFINE d == With(c, k, x)
    <2>1. /\ DOMAIN d = 1 .. (Len(c) + 1)
          /\ \A i \in 1 .. (Len(c) + 1) :
               d[i] = IF i < k THEN c[i] ELSE IF i = k THEN x ELSE c[i - 1]
      BY WithElements
    <2> HIDE DEF d
    <2>2. ASSUME NEW i \in 1 .. (Len(c) + 1)
          PROVE  \/ i = k /\ d[i] = x
                 \/ i < k /\ i \in 1 .. Len(c) /\ d[i] = c[i]
                 \/ i > k /\ i - 1 \in 1 .. Len(c) /\ d[i] = c[i - 1]
      <3>1. Len(c) \in Nat /\ i \in Nat /\ k \in Nat
        BY <1>1
      <3>2. CASE i < k
        <4>1. i \in 1 .. Len(c)
          BY <3>1, <3>2
        <4> QED
          BY <2>1, <3>2, <4>1
      <3>3. CASE i = k
        <4>1. ~(i < k)
          BY <3>1, <3>3
        <4> QED
          BY <2>1, <3>3, <4>1
      <3>4. CASE i > k
        <4>1. ~(i < k) /\ i # k /\ i - 1 \in 1 .. Len(c)
          BY <3>1, <3>4
        <4> QED
          BY <2>1, <3>4, <4>1
      <3>5. i < k \/ i = k \/ i > k
        BY <3>1
      <3> QED
        BY <3>2, <3>3, <3>4, <3>5, Zenon
    <2>3. ASSUME NEW i \in 1 .. (Len(c) + 1), NEW j \in 1 .. (Len(c) + 1),
                 Id(d[i]) = Id(d[j])
          PROVE  i = j
      <3>1. CASE i = k
        BY <1>1, <1>3, <1>8, <2>2, <2>3, <3>1
      <3>2. CASE i < k
        BY <1>1, <1>2, <1>3, <1>8, <2>2, <2>3, <3>2
      <3>3. CASE i > k
        BY <1>1, <1>2, <1>3, <1>8, <2>2, <2>3, <3>3
      <3> QED
        BY <3>1, <3>2, <3>3
    <2>4. ASSUME NEW i \in 1 .. (Len(c) + 1) PROVE Id(d[i]) \in Ids(c) \cup {Id(x)}
      BY <1>3, <2>2
    <2> QED
      BY <2>1, <2>3, <2>4 DEF EachOnce, Ids, d
  <1> QED
    BY <1>4, <1>5, <1>6, <1>7, <1>8

\* Every step of the channel keeps the frames on their way distinct; a frame
\* that has been sent and is no longer on its way does not come back.
LEMMA NoneComesBack ==
  ASSUME TypeOK, [Up!Next]_(Up!cvars),
         EachOnce(InflightUp), Ids(InflightUp) \subseteq SentUp
  PROVE  /\ EachOnce(InflightUp') /\ SentUp \subseteq SentUp'
         /\ Ids(InflightUp') \subseteq SentUp'
         /\ Ids(InflightUp') \cap SentUp \subseteq Ids(InflightUp)
PROOF
  <1> DEFINE c == InflightUp
             d == InflightUp'
             s == SentUp
             r == SentUp'
             Near == [type : {"HEARTBEAT", "FAULT_EVENT"}, origin : {"firmware"},
                      n : 0..MaxSent, ok : {TRUE}]
             Far == [type : {"FAULT_EVENT"}, origin : {"driver"},
                     n : 0..MaxSynth, ok : {TRUE}]
  <1>1. c \in Seq(UpFrame)
    <2>1. /\ rx_fifo \in Seq(UpFrame) /\ line["host_in"] \in Seq(UpFrame)
          /\ line["fw_out"] \in Seq(UpFrame)
      BY TypeOfLines DEF TypeOK, LinesOK
    <2> QED
      BY <2>1, ConcatProperties DEF InflightUp
  <1>2. Near \subseteq UpFrame /\ Far \subseteq UpFrame
    <2>1. 0..MaxSent \subseteq Nat /\ 0..MaxSynth \subseteq Nat /\ {TRUE} \subseteq BOOLEAN
      BY Constants
    <2>2. ASSUME NEW f \in Near PROVE f \in UpFrame
      BY <2>1 DEF UpFrame
    <2>3. ASSUME NEW f \in Far PROVE f \in UpFrame
      BY <2>1 DEF UpFrame
    <2> QED
      BY <2>2, <2>3, Zenon
  <1>3. EachOnce(c) /\ Ids(c) \subseteq s
    OBVIOUS
  <1>4. \/ \E f \in Near : Up!Send(f)
        \/ \E f \in Far : Up!Join(f)
        \/ \E i \in DOMAIN c : Up!Damage(i) \/ Up!Lose(i)
        \/ Up!Take
        \/ d = c /\ r = s
    BY Zenon DEF Up!Next, Up!cvars
  <1> SUFFICES /\ EachOnce(d) /\ s \subseteq r /\ Ids(d) \subseteq r
               /\ Ids(d) \cap s \subseteq Ids(c)
    OBVIOUS
  <1>5. CASE \E f \in Near : Up!Send(f)
    <2>1. PICK f \in Near : Up!Send(f)
      BY <1>5
    <2>2. f \in UpFrame
      BY <1>2
    <2> HIDE DEF Near
    <2>3. /\ Id(f) \notin s /\ r = s \cup {Id(f)} /\ (d = c \/ d = Append(c, f))
      BY <2>1 DEF Up!Send, Up!Once, Id
    <2> HIDE DEF c, d, s, r
    <2>4. EachOnce(Append(c, f)) /\ Ids(Append(c, f)) \subseteq Ids(c) \cup {Id(f)}
      BY <1>1, <1>3, <2>2, <2>3, EachOnceKept
    <2>5. EachOnce(d) /\ Ids(d) \subseteq Ids(c) \cup {Id(f)}
      BY <1>3, <2>3, <2>4, Zenon
    <2> QED
      BY <1>3, <2>3, <2>5, Zenon
  <1>6. CASE \E f \in Far : Up!Join(f)
    <2>1. PICK f \in Far : Up!Join(f)
      BY <1>6
    <2>2. f \in UpFrame
      BY <1>2
    <2> HIDE DEF Far
    <2>3. /\ Id(f) \notin s /\ r = s \cup {Id(f)}
          /\ (d = c \/ \E i \in 1 .. (Len(c) + 1) : d = With(c, i, f))
      BY <2>1 DEF Up!Join, Up!Once, Id, Up!With, With
    <2> HIDE DEF c, d, s, r
    <2>4. \A i \in 1 .. (Len(c) + 1) :
            EachOnce(With(c, i, f)) /\ Ids(With(c, i, f)) \subseteq Ids(c) \cup {Id(f)}
      BY <1>1, <1>3, <2>2, <2>3, EachOnceKept
    <2> QED
      BY <1>3, <2>3, <2>4
  <1>7. CASE \E i \in DOMAIN c : Up!Damage(i) \/ Up!Lose(i)
    <2>1. PICK i \in DOMAIN c : Up!Damage(i) \/ Up!Lose(i)
      BY <1>7
    <2>2. r = s /\ (d = [c EXCEPT ![i].ok = FALSE] \/ d = Without(c, i))
      BY <2>1 DEF Up!Damage, Up!Lose, Up!Without, Without
    <2>3. i \in DOMAIN c
      OBVIOUS
    <2> HIDE DEF c, d, s, r
    <2>4. /\ EachOnce(Without(c, i)) /\ Ids(Without(c, i)) \subseteq Ids(c)
          /\ EachOnce([c EXCEPT ![i].ok = FALSE])
          /\ Ids([c EXCEPT ![i].ok = FALSE]) \subseteq Ids(c)
      BY <1>1, <1>3, <2>3, EachOnceKept
    <2>5. CASE d = Without(c, i)
      BY <1>3, <2>2, <2>4, <2>5
    <2>6. CASE d = [c EXCEPT ![i].ok = FALSE]
      <3>1. EachOnce(d) /\ Ids(d) \subseteq Ids(c)
        BY <2>4, <2>6, Zenon
      <3> QED
        BY <1>3, <2>2, <3>1
    <2> QED
      BY <2>2, <2>5, <2>6
  <1>8. CASE Up!Take
    <2>1. r = s /\ c # <<>> /\ d = Tail(c)
      BY <1>8 DEF Up!Take
    <2> HIDE DEF c, d, s, r
    <2>2. EachOnce(Tail(c)) /\ Ids(Tail(c)) \subseteq Ids(c)
      BY <1>1, <1>3, <2>1, EachOnceKept
    <2> QED
      BY <1>3, <2>1, <2>2
  <1>9. CASE d = c /\ r = s
    <2> HIDE DEF c, d, s, r
    <2> QED
      BY <1>3, <1>9
  <1> QED
    BY <1>4, <1>5, <1>6, <1>7, <1>8, <1>9

\* What has been sent has a number below its counter.
LEMMA SentBelowCounter ==
  ASSUME NEW f \in UpFrame, Id(f) \in SentUp, TypeOK
  PROVE  f.n < Counter(f.origin)
PROOF
  <1>1. f.n \in Nat /\ f.origin \in {"firmware", "driver"}
    BY DEF UpFrame
  <1>2. tx_sequence \in Int /\ synth_seq \in Int
    BY Constants DEF TypeOK
  <1>3. \/ f.origin = "firmware" /\ f.n \in 0..(tx_sequence - 1)
        \/ f.origin = "driver" /\ f.n \in 0..(synth_seq - 1)
    BY DEF SentUp, FwSent, SynthSent, Id
  <1> QED
    BY <1>1, <1>2, <1>3 DEF Counter

\* Numbers below SeqNumbers are their own sequence numbers.
LEMMA SmallNumber ==
  ASSUME NEW n \in Nat, NEW m \in Nat \ {0}, n < m
  PROVE  n % m = n
  OBVIOUS

\* The counters only go up (atomic_inc, synth_seq++).
LEMMA CountersGrow ==
  ASSUME TypeOK, [Next]_vars, NEW o
  PROVE  Counter(o) \in Nat /\ Counter(o)' \in Nat /\ Counter(o) <= Counter(o)'
PROOF
  <1>1. tx_sequence \in Nat /\ synth_seq \in Nat
    BY Constants DEF TypeOK
  <1>2. tx_sequence' \in {tx_sequence, tx_sequence + 1}
        /\ synth_seq' \in {synth_seq, synth_seq + 1}
    BY DEF Next, vars, TakeNumber, SendFrame, FirmwareReceives, Forward, LinkdStops,
         LinkdStep, LinkdPolls, LinkdPushes, LinkdReadEmpty, LinkdPops, LinkdPopEmpty,
         LinkdWrites, LinkdWriteFails, LinkdUnchanged, TakeSynthSeq,
         PushSynth, SupervisorReads, RequestRecovery, WorkerSends, fwVars, drvVars, loopVars
  <1> QED
    BY <1>1, <1>2 DEF Counter

\* The frames on their way and the frames the supervisor took are all
\* different ones, each of them sent; what is in the table was taken.
OneOfEach ==
  /\ EachOnce(InflightUp) /\ Ids(InflightUp) \subseteq SentUp
  /\ \A f \in accepted : Id(f) \in SentUp \ Ids(InflightUp)
  /\ \A key \in seen : \E f \in accepted : key = <<f.type, Seq16(f)>>

\* SupervisorReads takes the first of the frames on their way.
LEMMA ReadsFirst ==
  ASSUME TypeOK, SupervisorReads
  PROVE  /\ InflightUp \in Seq(UpFrame) /\ InflightUp # <<>>
         /\ Head(InflightUp) = Head(rx_fifo) /\ InflightUp' = Tail(InflightUp)
         /\ SentUp' = SentUp
PROOF
  <1> DEFINE rx == rx_fifo
             hi == line["host_in"]
             fo == line["fw_out"]
  <1>1. rx \in Seq(UpFrame) /\ hi \in Seq(UpFrame) /\ fo \in Seq(UpFrame)
    BY TypeOfLines DEF TypeOK, LinesOK
  <1>2. /\ InflightUp = (rx \o hi) \o fo /\ InflightUp' = (Tail(rx) \o hi) \o fo
        /\ rx # <<>> /\ SentUp' = SentUp
    BY DEF SupervisorReads, InflightUp, SentUp, FwSent, SynthSent, fwVars, drvVars, loopVars
  <1>3. Head(rx) = Head(rx_fifo)
    OBVIOUS
  <1> HIDE DEF rx, hi, fo
  <1>4. /\ rx \o hi \in Seq(UpFrame) /\ rx \o hi # <<>>
        /\ Head(rx \o hi) = Head(rx) /\ Tail(rx \o hi) = Tail(rx) \o hi
    BY <1>1, <1>2, TakeFirst, ConcatProperties
  <1> DEFINE m == rx \o hi
  <1>5. m \in Seq(UpFrame) /\ m # <<>>
    BY <1>4
  <1> HIDE DEF m
  <1>6. /\ m \o fo \in Seq(UpFrame) /\ m \o fo # <<>>
        /\ Head(m \o fo) = Head(m) /\ Tail(m \o fo) = Tail(m) \o fo
    BY <1>1, <1>5, TakeFirst, ConcatProperties
  <1> QED
    BY <1>2, <1>3, <1>4, <1>6, Zenon DEF m

\* Only SupervisorReads changes what the supervisor keeps.
LEMMA OnlyReadsHandle ==
  ASSUME [Next]_vars
  PROVE  SupervisorReads \/ UNCHANGED superVars
BY DEF Next, vars, TakeNumber, SendFrame, FirmwareReceives, Forward, LinkdStops,
       LinkdStep, LinkdPolls, LinkdPushes, LinkdReadEmpty, LinkdPops, LinkdPopEmpty,
       LinkdWrites, LinkdWriteFails, LinkdUnchanged, TakeSynthSeq, PushSynth,
       RequestRecovery, WorkerSends, superVars, drvVars, loopVars

\* A frame the supervisor finds in its table is another one than the frame
\* taken before: its counter has come round, or it is not the same counter.
LEMMA AnotherFrame ==
  ASSUME TypeOK, NEW f \in UpFrame, NEW g \in UpFrame,
         Id(f) \in SentUp, Id(g) \in SentUp, Id(f) # Id(g), Seq16(f) = Seq16(g)
  PROVE  g.origin # f.origin \/ (g.n # f.n /\ Counter(g.origin) > SeqNumbers)
PROOF
  <1> SUFFICES ASSUME g.origin = f.origin
               PROVE  g.n # f.n /\ Counter(g.origin) > SeqNumbers
    OBVIOUS
  <1>1. g.n # f.n
    BY DEF Id
  <1>2. g.n < Counter(g.origin) /\ f.n < Counter(g.origin)
    BY SentBelowCounter
  <1>3. /\ g.n \in Nat /\ f.n \in Nat /\ SeqNumbers \in Nat \ {0}
        /\ Counter(g.origin) \in Nat
    <2>1. tx_sequence \in Nat /\ synth_seq \in Nat
      BY Constants DEF TypeOK
    <2> QED
      BY <2>1, Constants DEF UpFrame, Counter
  <1>4. ~(g.n < SeqNumbers /\ f.n < SeqNumbers)
    BY <1>1, <1>3, SmallNumber DEF Seq16
  <1> QED
    BY <1>1, <1>2, <1>3, <1>4

\* A frame is discarded as a duplicate only because another frame with its
\* number was taken: the two counters of the link share one table, or one of
\* them has come round.  No frame is ever discarded for having come twice.
THEOREM DiscardsExplained == Spec => []DiscardExplained
PROOF
  <1> DEFINE Inv == OneOfEach /\ DiscardExplained
  <1>1. Init => Inv
    <2> SUFFICES ASSUME Init PROVE Inv
      OBVIOUS
    <2>1. rx_fifo = <<>> /\ line["host_in"] = <<>> /\ line["fw_out"] = <<>>
      BY DEF Init, Lines
    <2>2. InflightUp = <<>>
      BY <2>1, EmptySeq, ConcatEmptySeq DEF InflightUp
    <2> QED
      <3>1. DOMAIN InflightUp = {}
        BY <2>2
      <3>2. EachOnce(InflightUp) /\ Ids(InflightUp) = {}
        BY <3>1, Zenon DEF EachOnce, Ids
      <3>3. accepted = {} /\ seen = {} /\ discarded = None
        BY DEF Init
      <3> QED
        BY <3>2, <3>3, Zenon DEF OneOfEach, DiscardExplained
  <1>2. Inv /\ TypeOK /\ TypeOK' /\ [Next]_vars /\ [Up!Next]_(Up!cvars) => Inv'
    <2> SUFFICES ASSUME Inv, TypeOK, TypeOK', [Next]_vars, [Up!Next]_(Up!cvars)
                 PROVE  Inv'
      OBVIOUS
    <2>1. /\ EachOnce(InflightUp') /\ SentUp \subseteq SentUp'
          /\ Ids(InflightUp') \subseteq SentUp'
          /\ Ids(InflightUp') \cap SentUp \subseteq Ids(InflightUp)
      BY NoneComesBack DEF OneOfEach
    <2>2. \A f \in accepted : Id(f) \in SentUp' \ Ids(InflightUp')
      BY <2>1 DEF OneOfEach
    <2>3. \A o : Counter(o) > SeqNumbers => Counter(o)' > SeqNumbers
      <3> TAKE o
      <3>1. Counter(o) \in Nat /\ Counter(o)' \in Nat /\ Counter(o) <= Counter(o)'
        BY CountersGrow
      <3> QED
        BY <3>1, Constants
    <2>4. CASE UNCHANGED superVars
      <3>1. OneOfEach'
        BY <2>1, <2>2, <2>4 DEF OneOfEach, superVars, drvVars, loopVars, Seq16
      <3>2. DiscardExplained'
        BY <2>3, <2>4 DEF DiscardExplained, superVars, drvVars, loopVars, Seq16
      <3> QED
        BY <3>1, <3>2
    <2>5. CASE SupervisorReads
      <3> DEFINE f == Head(rx_fifo)
                 key == <<f.type, Seq16(f)>>
      <3>1. /\ InflightUp \in Seq(UpFrame) /\ InflightUp # <<>>
            /\ Head(InflightUp) = f /\ InflightUp' = Tail(InflightUp)
            /\ SentUp' = SentUp
        BY <2>5, ReadsFirst
      <3>2. /\ Id(f) \in Ids(InflightUp) /\ Id(f) \notin Ids(InflightUp')
            /\ Id(f) \in SentUp /\ f \in UpFrame
        <4>1. EachOnce(InflightUp) /\ Ids(InflightUp) \subseteq SentUp
          BY DEF OneOfEach
        <4>2. /\ Id(Head(InflightUp)) \in Ids(InflightUp)
              /\ Ids(Tail(InflightUp)) \subseteq Ids(InflightUp) \ {Id(Head(InflightUp))}
          BY <3>1, <4>1, EachOnceKept
        <4>3. Head(InflightUp) \in UpFrame
          BY <3>1, HeadTailProperties
        <4> QED
          BY <3>1, <4>1, <4>2, <4>3
      <3>3. Handle(f)
        BY <2>5 DEF SupervisorReads
      <3> HIDE DEF f
      <3>4. CASE UNCHANGED superVars
        BY <2>4, <3>4
      <3>5. CASE f.ok /\ key \in seen /\ discarded' = f /\ UNCHANGED <<seen, accepted>>
        <4>1. OneOfEach'
          BY <2>1, <2>2, <3>5 DEF OneOfEach, Seq16
        <4>2. PICK g \in accepted : key = <<g.type, Seq16(g)>>
          BY <3>5 DEF OneOfEach
        <4>3. /\ g \in UpFrame /\ Id(g) \in SentUp /\ Id(g) # Id(f)
              /\ g.type = f.type /\ Seq16(g) = Seq16(f)
          BY <3>2, <4>2 DEF OneOfEach, TypeOK
        <4>4. g.origin # f.origin \/ (g.n # f.n /\ Counter(g.origin) > SeqNumbers)
          BY <3>2, <4>3, AnotherFrame
        <4>5. g.origin # f.origin \/ (g.n # f.n /\ Counter(g.origin)' > SeqNumbers)
          BY <2>3, <4>4
        <4>6. /\ g \in accepted' /\ discarded' = f
              /\ (g.type = discarded.type /\ Seq16(g) = Seq16(discarded))'
          BY <3>5, <4>2, <4>3 DEF Seq16
        <4>7. DiscardExplained'
          BY <4>5, <4>6 DEF DiscardExplained, Seq16
        <4> QED
          BY <4>1, <4>7
      <3>6. CASE /\ f.ok /\ key \notin seen /\ seen' = seen \cup {key}
                 /\ accepted' = accepted \cup {f} /\ discarded' = discarded
        <4>1. \A g \in accepted' : Id(g) \in SentUp' \ Ids(InflightUp')
          BY <2>2, <3>1, <3>2, <3>6
        <4>2. \A k \in seen' : \E g \in accepted' : k = <<g.type, Seq16(g)>>
          BY <3>6 DEF OneOfEach
        <4>3. OneOfEach'
          BY <2>1, <4>1, <4>2 DEF OneOfEach, Seq16
        <4>4. DiscardExplained'
          BY <2>3, <3>6 DEF DiscardExplained, Seq16
        <4> QED
          BY <4>3, <4>4
      <3> QED
        BY <3>3, <3>4, <3>5, <3>6 DEF Handle
    <2> QED
      BY <2>4, <2>5, OnlyReadsHandle
  <1>3. TypeOK /\ NumbersTaken /\ SynthTaken /\ [Next]_vars => [Up!Next]_(Up!cvars)
    BY UpStep
  <1> QED
    BY <1>1, <1>2, <1>3, LinkTypeCorrect, NumbersDiffer, SynthNumbersDiffer, PTL DEF Spec
=============================================================================
