---------------------------- MODULE LoggerProofs ----------------------------
(***************************************************************************)
(* The logger for any set of events and any number of pushes: no wakeup is *)
(* lost, and the two threads implement LogFile.                            *)
(***************************************************************************)
EXTENDS Logger, SequenceTheorems, TLAPS

\* Where events can be: in batch only while the worker writes, nowhere but in
\* the file once it has returned.  stopping_ tells where the caller is, and
\* stop() returns only after the worker.
PlaceInv ==
  /\ caller = "start" => worker = "none"
  /\ worker # "write" => batch = <<>>
  /\ worker = "returned" => stopping_ /\ queue_ = <<>>
  /\ worker = "none" => queue_ = <<>> /\ caller \notin {"run", "pushed"}
  /\ stopping_ => caller \in {"stopped", "join", "done"}
  /\ caller = "done" => worker \in {"none", "returned"}

-----------------------------------------------------------------------------
\* Appending to the last of two concatenated sequences appends to the whole
\* (push() at the end of queue_).
LEMMA AppendLast ==
  ASSUME NEW S, NEW s \in Seq(S), NEW t \in Seq(S), NEW e \in S
  PROVE  s \o Append(t, e) = Append(s \o t, e)
PROOF
  <1>1. <<e>> \in Seq(S) /\ s \o t \in Seq(S)
    BY ConcatProperties
  <1>2. Append(t, e) = t \o <<e>> /\ Append(s \o t, e) = (s \o t) \o <<e>>
    BY <1>1, AppendIsConcat
  <1> QED
    BY <1>1, <1>2, ConcatAssociative

\* Moving the first element of a sequence to the end of the one before it
\* leaves their concatenation as it is (a line of the batch is written).
LEMMA MoveFirst ==
  ASSUME NEW S, NEW s \in Seq(S), NEW t \in Seq(S), t # <<>>
  PROVE  Append(s, Head(t)) \o Tail(t) = s \o t
PROOF
  <1>1. Head(t) \in S /\ Tail(t) \in Seq(S) /\ Len(t) \in Nat \ {0}
    BY HeadTailProperties, EmptySeq
  <1>2. t = <<Head(t)>> \o Tail(t)
    <2>1. 1 \in 1 .. Len(t) /\ Len(t) \in 1 .. Len(t)
      BY <1>1
    <2>2. SubSeq(t, 1, Len(t)) = <<t[1]>> \o SubSeq(t, 1 + 1, Len(t))
      BY <2>1, SubSeqRecursiveFirst
    <2>3. SubSeq(t, 1, Len(t)) = t
      BY SubSeqFull
    <2>4. Tail(t) = SubSeq(t, 2, Len(t)) /\ 1 + 1 = 2 /\ Head(t) = t[1]
      BY TailIsSubSeq
    <2> QED
      BY <2>2, <2>3, <2>4
  <1>3. Append(s, Head(t)) = s \o <<Head(t)>>
    BY <1>1, AppendIsConcat
  <1>4. <<Head(t)>> \in Seq(S)
    BY <1>1
  <1>5. (s \o <<Head(t)>>) \o Tail(t) = s \o (<<Head(t)>> \o Tail(t))
    BY <1>1, <1>4, ConcatAssociative
  <1> QED
    BY <1>2, <1>3, <1>5

-----------------------------------------------------------------------------
\* Both threads keep the types (push(), stop(), run()).
THEOREM LoggerTypeCorrect == Spec => []TypeOK
PROOF
  <1>1. Init => TypeOK
    <2>1. <<>> \in Seq(Event)
      BY EmptySeq
    <2> QED
      BY <2>1, Zenon DEF Init, TypeOK, CallerAt, WorkerAt
  <1>2. TypeOK /\ [Next]_vars => TypeOK'
    <2> SUFFICES ASSUME TypeOK, [Next]_vars PROVE TypeOK'
      OBVIOUS
    <2>1. CASE \E e \in Event : Push(e)
      <3>1. queue_' \in Seq(Event)
        BY <2>1, AppendProperties DEF Push, TypeOK
      <3> QED
        BY <2>1, <3>1, Zenon DEF Push, TypeOK, CallerAt, WorkerAt
    <2>2. CASE TakeBatch
      <3>1. <<>> \in Seq(Event)
        BY EmptySeq
      <3>2. worker' \in WorkerAt
        BY <2>2, Zenon DEF TakeBatch, Returns, WorkerAt
      <3> QED
        BY <2>2, <3>1, <3>2, Zenon DEF TakeBatch, Returns, TypeOK
    <2>3. CASE WriteEvent
      <3>1. Head(batch) \in Event /\ Tail(batch) \in Seq(Event)
        BY <2>3, HeadTailProperties DEF WriteEvent, Line, TypeOK
      <3>2. Append(out_, Head(batch)) \in Seq(Event)
        BY <3>1, AppendProperties DEF TypeOK
      <3>3. worker' \in WorkerAt
        BY <2>3, Zenon DEF WriteEvent, Line, WorkerAt
      <3> QED
        BY <2>3, <3>1, <3>2, <3>3, Zenon DEF WriteEvent, Line, TypeOK
    <2>4. CASE Start \/ StartFails \/ LoopEnds \/ Stop \/ Join \/ Sleep
               \/ SpuriousWakeup \/ UNCHANGED vars
      BY <2>4, Zenon DEF Start, StartFails, LoopEnds, Stop, Join, Sleep,
           SpuriousWakeup, vars, TypeOK, CallerAt, WorkerAt
    <2>5. CASE PushNotify \/ StopNotify
      <3>1. worker' \in WorkerAt
        BY <2>5, Zenon DEF PushNotify, StopNotify, Notify, TypeOK, WorkerAt
      <3> QED
        BY <2>5, <3>1, Zenon DEF PushNotify, StopNotify, TypeOK, CallerAt
    <2> QED
      BY <2>1, <2>2, <2>3, <2>4, <2>5 DEF Next, CallerStep, WorkerStep
  <1> QED
    BY <1>1, <1>2, PTL DEF Spec

\* The worker never sleeps while there is work and no notification to come.
THEOREM WakeupNotLost == Spec => []NoSleepOnWork
PROOF
  <1>1. Init => NoSleepOnWork
    BY DEF Init, NoSleepOnWork
  <1>2. NoSleepOnWork /\ [Next]_vars => NoSleepOnWork'
    <2> SUFFICES ASSUME NoSleepOnWork, [Next]_vars PROVE NoSleepOnWork'
      OBVIOUS
    <2> USE DEF NoSleepOnWork
    <2>1. CASE (\E e \in Event : Push(e)) \/ Stop
      BY <2>1, Zenon DEF Push, Stop
    <2>2. CASE PushNotify \/ StopNotify \/ Start
      BY <2>2, Zenon DEF PushNotify, StopNotify, Start, Notify
    <2>3. CASE Sleep
      BY <2>3, Zenon DEF Sleep
    <2>4. CASE TakeBatch \/ WriteEvent \/ SpuriousWakeup
      BY <2>4 DEF TakeBatch, Returns, WriteEvent, Line, SpuriousWakeup
    <2>5. CASE StartFails \/ LoopEnds \/ UNCHANGED vars
      BY <2>5, Zenon DEF StartFails, LoopEnds, vars
    <2>6. CASE Join
      BY <2>6 DEF Join
    <2> QED
      BY <2>1, <2>2, <2>3, <2>4, <2>5, <2>6 DEF Next, CallerStep, WorkerStep
  <1> QED
    BY <1>1, <1>2, PTL DEF Spec

\* The worker returns only when nothing is left, and stop() after it.
LEMMA Places == Spec => []PlaceInv
PROOF
  <1>1. Init => PlaceInv
    BY DEF Init, PlaceInv
  <1>2. PlaceInv /\ [Next]_vars => PlaceInv'
    <2> SUFFICES ASSUME PlaceInv, [Next]_vars PROVE PlaceInv'
      OBVIOUS
    <2> USE DEF PlaceInv
    <2>1. CASE Start
      BY <2>1 DEF Start
    <2>2. CASE StartFails
      BY <2>2 DEF StartFails
    <2>3. CASE LoopEnds
      BY <2>3 DEF LoopEnds
    <2>4. CASE Join
      BY <2>4 DEF Join
    <2>5. CASE SpuriousWakeup
      BY <2>5 DEF SpuriousWakeup
    <2>6. CASE \E e \in Event : Push(e)
      BY <2>6 DEF Push
    <2>7. CASE PushNotify
      BY <2>7 DEF PushNotify, Notify
    <2>8. CASE StopNotify
      BY <2>8 DEF StopNotify, Notify
    <2>9. CASE Stop
      BY <2>9 DEF Stop
    <2>10. CASE Sleep
      BY <2>10 DEF Sleep
    <2>11. CASE WriteEvent
      BY <2>11 DEF WriteEvent, Line
    <2>12. CASE TakeBatch
      BY <2>12 DEF TakeBatch, Returns
    <2>13. CASE UNCHANGED vars
      BY <2>13 DEF vars
    <2> QED
      BY <2>1, <2>2, <2>3, <2>4, <2>5, <2>6, <2>7,
         <2>8, <2>9, <2>10, <2>11, <2>12, <2>13
         DEF Next, CallerStep, WorkerStep
  <1> QED
    BY <1>1, <1>2, PTL DEF Spec

-----------------------------------------------------------------------------
\* A step of the logger is a step of LogFile or leaves it alone: push() accepts
\* an event, the worker's writes append the oldest accepted event that is not
\* in the file, and stop() returns with everything written.
LEMMA LoggerStep ==
  ASSUME TypeOK, PlaceInv, [Next]_vars
  PROVE  [Log!Next]_Log!vars
PROOF
  <1> USE DEF Accepted
  <1>0. /\ out_ \in Seq(Event) /\ batch \in Seq(Event) /\ queue_ \in Seq(Event)
        /\ out_ \o batch \in Seq(Event)
    BY ConcatProperties DEF TypeOK
  <1>1. ASSUME NEW e \in Event, Push(e) PROVE Log!Accept(e)
    <2>1. Accepted' = Append(Accepted, e)
      <3>1. Accepted' = (out_ \o batch) \o Append(queue_, e)
        BY <1>1 DEF Push
      <3> QED
        BY <1>0, <3>1, AppendLast
    <2>2. caller # "done" /\ caller' # "done" /\ out_' = out_
      BY <1>1 DEF Push
    <2> QED
      BY <2>1, <2>2, Zenon DEF Log!Accept
  <1>2. CASE WriteEvent
    <2>1. Head(batch) \in Event /\ Tail(batch) \in Seq(Event) /\ batch # <<>>
      BY <1>0, <1>2, HeadTailProperties DEF WriteEvent, Line
    <2>2. Accepted' = Accepted
      <3>1. Accepted' = (Append(out_, Head(batch)) \o Tail(batch)) \o queue_
        BY <1>2 DEF WriteEvent, Line
      <3> QED
        BY <1>0, <2>1, <3>1, MoveFirst
    <2>3. /\ Len(out_) < Len(Accepted)
          /\ Head(batch) = Accepted[Len(out_) + 1]
      <3>1. Len(out_) \in Nat /\ Len(batch) \in Nat \ {0} /\ Len(queue_) \in Nat
        BY <1>0, <2>1, LenProperties, EmptySeq
      <3>2. /\ Len(out_ \o batch) = Len(out_) + Len(batch)
            /\ (out_ \o batch)[Len(out_) + 1] = batch[1]
        <4>1. Len(out_) + 1 \in 1 .. Len(out_) + Len(batch)
              /\ ~(Len(out_) + 1 <= Len(out_)) /\ Len(out_) + 1 - Len(out_) = 1
          BY <3>1
        <4> QED
          BY <1>0, <4>1, ConcatProperties
      <3>3. /\ Len(Accepted) = Len(out_ \o batch) + Len(queue_)
            /\ Accepted[Len(out_) + 1] = (out_ \o batch)[Len(out_) + 1]
        <4>1. Len(out_) + 1 \in 1 .. Len(out_ \o batch) + Len(queue_)
              /\ Len(out_) + 1 <= Len(out_ \o batch)
          BY <3>1, <3>2
        <4> QED
          BY <1>0, <4>1, ConcatProperties
      <3>4. Head(batch) = batch[1]
        BY <1>0, <2>1
      <3> QED
        BY <3>1, <3>2, <3>3, <3>4
    <2>4. caller # "done" /\ caller' = caller
      BY <1>2 DEF WriteEvent, Line, PlaceInv
    <2>5. out_' = Append(out_, Head(batch))
      BY <1>2 DEF WriteEvent, Line
    <2> QED
      BY <2>2, <2>3, <2>4, <2>5, Zenon DEF Log!Next, Log!WriteLine
  <1>3. CASE Join
    <2>1. batch = <<>> /\ queue_ = <<>>
      BY <1>3 DEF Join, PlaceInv
    <2>2. out_ = Accepted
      BY <1>0, <2>1, ConcatEmptySeq
    <2>3. caller' = "done" /\ out_' = out_ /\ Accepted' = Accepted
      BY <1>3 DEF Join
    <2> QED
      BY <2>2, <2>3, Zenon DEF Log!Next, Log!Close
  <1>4. CASE TakeBatch
    <2>1. batch = <<>>
      BY <1>4 DEF TakeBatch, Returns, PlaceInv
    <2>2. Accepted = out_ \o queue_ /\ Accepted' = (out_ \o queue_) \o <<>>
      BY <1>0, <1>4, <2>1, ConcatEmptySeq DEF TakeBatch, Returns
    <2>3. out_ \o queue_ \in Seq(Event)
      BY <1>0, ConcatProperties
    <2>4. Accepted' = Accepted
      BY <2>2, <2>3, ConcatEmptySeq
    <2> QED
      BY <1>4, <2>4, Zenon DEF TakeBatch, Returns, Log!vars
  <1>5. CASE Start \/ StartFails \/ PushNotify \/ LoopEnds \/ Stop \/ StopNotify
             \/ Sleep \/ SpuriousWakeup \/ UNCHANGED vars
    <2>1. /\ UNCHANGED <<out_, batch, queue_>>
          /\ (caller' = "done") = (caller = "done")
      BY <1>5 DEF Start, StartFails, PushNotify, LoopEnds, Stop, StopNotify,
           Sleep, SpuriousWakeup, vars
    <2> QED
      BY <2>1, Zenon DEF Log!vars
  <1> QED
    BY <1>1, <1>2, <1>3, <1>4, <1>5, Zenon
       DEF Next, CallerStep, WorkerStep, Log!Next

\* The logger implements LogFile: events.jsonl holds the pushed events in the
\* order of the pushes, and all of them when stop() returns.
THEOREM LoggerImplementsLogFile == Spec => ImplementsLogFile
PROOF
  <1>1. Init => Log!Init
    <2> SUFFICES ASSUME Init PROVE Log!Init
      OBVIOUS
    <2>1. Accepted = <<>>
      BY EmptySeq, ConcatEmptySeq DEF Init, Accepted
    <2> QED
      BY <2>1, Zenon DEF Init, Log!Init
  <1> QED
    BY <1>1, LoggerStep, LoggerTypeCorrect, Places, PTL
       DEF Spec, ImplementsLogFile, Log!Spec
=============================================================================
