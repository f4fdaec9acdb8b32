----------------------------- MODULE DriverProofs -----------------------------
(***************************************************************************)
(* Proofs about the driver, for any number of processes and any queue      *)
(* depth.  WatchdogLive and TimeoutHasRecovery are inductive together with *)
(* the type invariant, and so is SleepersWoken; FreedQuiet needs to know   *)
(* what each step of the unload has already stopped (Stopped).             *)
(***************************************************************************)
EXTENDS Driver, SequenceTheorems, TLAPS

\* Where the timer callback and the other contexts continue after a push:
\* only the callback goes on to schedule, only a caller's heartbeat to the
\* re-arming (AfterPush).
LEMMA AfterPushFacts ==
  ASSUME NEW c, NEW queued \in BOOLEAN
  PROVE  /\ c = "timer" => AfterPush(c, queued) = "schedule"
         /\ c \in Callers => AfterPush(c, queued) \in {"heard", "idle"}
         /\ c = "work" => AfterPush(c, queued) = "idle"
         /\ AfterPush(c, queued) \in {"schedule", "heard", "idle"}
<1>1. CASE c = "timer"
  <2>1. c \notin Callers /\ c # "work"
    BY <1>1, DriverAssumption
  <2>2. AfterPush(c, queued) = "schedule"
    BY <1>1, <2>1, Zenon DEF AfterPush
  <2> QED BY <1>1, <2>1, <2>2
<1>2. CASE c # "timer" /\ c \in Callers /\ queued /\ frame[c] = "HEARTBEAT"
  <2>1. AfterPush(c, queued) = "heard"
    BY <1>2, Zenon DEF AfterPush
  <2> QED BY <1>2, <2>1, DriverAssumption
<1>3. CASE c # "timer" /\ ~(c \in Callers /\ queued /\ frame[c] = "HEARTBEAT")
  <2>1. AfterPush(c, queued) = "idle"
    BY <1>3, Zenon DEF AfterPush
  <2> QED BY <1>3, <2>1
<1> QED BY <1>1, <1>2, <1>3

\* A push leaves the driver well-typed: it happens only below the capacity
\* (safety_fifo_push_frame).
LEMMA FifoPushType ==
  ASSUME TypeOK, NEW c \in Contexts, FifoPush(c)
  PROVE  TypeOK'
<1> USE DriverAssumption DEF TypeOK, Goto
<1>1. pc[c] = "push" /\ frame[c] \in Frame
  BY DEF FifoPush
<1>2. CASE ~RxFull /\ rx_fifo' = Append(rx_fifo, frame[c])
            /\ Goto(c, "wake") /\ UNCHANGED frame
  <2>1. rx_fifo' \in Seq(Frame) /\ Len(rx_fifo') = Len(rx_fifo) + 1
    BY <1>1, <1>2, AppendProperties
  <2>2. Len(rx_fifo) \in Nat /\ Len(rx_fifo) < Depth
    BY <1>2, LenProperties DEF RxFull
  <2>3. pc' \in [Contexts -> Pc]
    BY <1>2 DEF Pc
  <2> QED BY <1>1, <1>2, <2>1, <2>2, <2>3 DEF FifoPush
<1>3. CASE RxFull /\ Goto(c, AfterPush(c, FALSE))
            /\ frame' = [frame EXCEPT ![c] = "NONE"]
            /\ UNCHANGED rx_fifo
  <2>1. AfterPush(c, FALSE) \in {"schedule", "heard", "idle"}
    BY AfterPushFacts
  <2>2. /\ pc' \in [Contexts -> Pc]
        /\ pc'[c] \notin {"push", "wake"}
        /\ \A d \in Contexts : d # c => pc'[d] = pc[d] /\ frame'[d] = frame[d]
    BY <1>3, <2>1 DEF Pc
  <2>3. frame' \in [Contexts -> Frame \cup {"NONE"}]
    BY <1>3
  <2> QED BY <1>3, <2>2, <2>3 DEF FifoPush
<1> QED BY <1>2, <1>3 DEF FifoPush

\* What a wake-up does to the control points: the waker goes on, sleepers
\* stop sleeping, everybody else stays (Woken).
LEMMA WakeFacts ==
  ASSUME TypeOK, NEW c \in Contexts, NEW S \in SUBSET {"asleep", "polling"},
         NEW p \in Pc, pc' = [Woken(S) EXCEPT ![c] = p]
  PROVE  /\ pc' \in [Contexts -> Pc]
         /\ pc'[c] = p
         /\ \A d \in Contexts : d # c /\ pc[d] \notin S => pc'[d] = pc[d]
         /\ \A d \in Contexts : d # c /\ pc[d] \in S => pc'[d] \in {"check", "idle"}
BY DEF TypeOK, Woken, Pc

\* The same for the end of a push.
LEMMA WakeReadersType ==
  ASSUME TypeOK, NEW c \in Contexts, WakeReaders(c)
  PROVE  TypeOK'
<1>1. AfterPush(c, TRUE) \in {"schedule", "heard", "idle"}
  BY AfterPushFacts
<1>2. AfterPush(c, TRUE) \in Pc
  BY <1>1 DEF Pc
<1>3. /\ pc' \in [Contexts -> Pc]
      /\ pc'[c] = AfterPush(c, TRUE)
      /\ \A d \in Contexts : d # c => pc'[d] = pc[d] \/ pc'[d] \in {"check", "idle"}
  BY <1>2, WakeFacts DEF WakeReaders
<1>4. \A d \in Contexts : d # c => frame'[d] = frame[d]
  BY DEF WakeReaders, TypeOK
<1>5. frame' \in [Contexts -> Frame \cup {"NONE"}]
  BY DEF WakeReaders, TypeOK
<1>6. \A d \in Contexts : pc'[d] \in {"push", "wake"} => frame'[d] \in Frame
  BY <1>1, <1>3, <1>4 DEF TypeOK
<1> QED BY <1>3, <1>5, <1>6 DEF TypeOK, WakeReaders, devVars

\* Every step keeps the driver well-typed; in particular both queues stay
\* within the capacity.
LEMMA TypeStep ==
  ASSUME TypeOK, [Next]_vars
  PROVE  TypeOK'
<1> USE DriverAssumption DEF Goto, Enter, devVars
<1>0. rx_fifo \in Seq(Frame) /\ Len(rx_fifo) \in Nat
  BY LenProperties DEF TypeOK
<1>1. ASSUME NEW c \in Contexts, FifoPush(c) PROVE TypeOK'
  BY <1>1, FifoPushType
<1>2. ASSUME NEW c \in Contexts, WakeReaders(c) PROVE TypeOK'
  BY <1>2, WakeReadersType
<1>3. ASSUME NEW c \in Callers, Call(c) \/ Start(c) \/ Interrupted(c)
      PROVE  TypeOK'
  <2>0. c \in Contexts
    BY DEF Contexts
  <2>1. CASE Heard(c)
    BY <2>0, <2>1 DEF Heard, TypeOK, Pc, LinkState, LinkFrame, Frame
  <2>2. CASE Rearm(c)
    BY <2>0, <2>2 DEF Rearm, TypeOK, Pc, LinkState, LinkFrame, Frame
  <2>3. CASE WakeTx(c)
    <3>1. "idle" \in Pc /\ {"polling"} \subseteq {"asleep", "polling"}
      BY DEF Pc
    <3>2. /\ pc' \in [Contexts -> Pc]
          /\ \A d \in Contexts : pc'[d] = pc[d] \/ pc'[d] \in {"check", "idle"}
      BY <2>0, <2>3, <3>1, WakeFacts DEF WakeTx
    <3> QED BY <2>3, <3>2 DEF WakeTx, TypeOK
  <2>4. CASE WaitEvent(c)
    BY <2>0, <2>4 DEF WaitEvent, TypeOK, Pc, LinkState, LinkFrame, Frame
  <2>5. CASE TryRead(c)
    <3>1. rx_fifo' \in Seq(Frame) /\ Len(rx_fifo') <= Len(rx_fifo)
      <4>1. CASE rx_fifo # <<>> /\ rx_fifo' = Tail(rx_fifo)
        BY <1>0, <4>1, HeadTailProperties
      <4>2. CASE UNCHANGED rx_fifo
        BY <1>0, <4>2
      <4> QED BY <2>5, <4>1, <4>2 DEF TryRead
    <3>2. Len(rx_fifo') \in Nat
      BY <3>1, LenProperties
    <3>3. Len(rx_fifo') <= Depth
      BY <1>0, <3>1, <3>2 DEF TypeOK
    <3>4. /\ pc' \in [Contexts -> Pc]
          /\ \A d \in Contexts : pc'[d] = pc[d] \/ pc'[d] \in {"check", "idle"}
      BY <2>0, <2>5 DEF TryRead, TypeOK, Pc
    <3> QED BY <2>5, <3>1, <3>3, <3>4 DEF TryRead, TypeOK
  <2>6. CASE PushRx(c)
    BY <2>0, <2>6 DEF PushRx, TypeOK, Pc, LinkState, LinkFrame, Frame
  <2>7. CASE InjectFault(c)
    BY <2>0, <2>7 DEF InjectFault, TypeOK, Pc, LinkState, LinkFrame, Frame
  <2>8. CASE SetHbTimeout(c)
    BY <2>0, <2>8 DEF SetHbTimeout, TypeOK, Pc, LinkState, LinkFrame, Frame
  <2>9. CASE ForceRecovery(c)
    BY <2>0, <2>9 DEF ForceRecovery, TypeOK, Pc, LinkState, LinkFrame, Frame
  <2>10. CASE Write(c)
    BY <2>0, <2>10 DEF Write, TypeOK, Pc, LinkState, LinkFrame, Frame
  <2>11. CASE PopTx(c)
    BY <2>0, <2>11 DEF PopTx, TypeOK, Pc, LinkState, LinkFrame, Frame
  <2>12. CASE Poll(c)
    BY <2>0, <2>12 DEF Poll, TypeOK, Pc, LinkState, LinkFrame, Frame
  <2>13. CASE Interrupted(c)
    BY <2>0, <2>13 DEF Interrupted, TypeOK, Pc, LinkState, LinkFrame, Frame
  <2> QED BY <1>1, <1>2, <1>3, <2>0, <2>1, <2>2, <2>3, <2>4, <2>5, <2>6, <2>7,
             <2>8, <2>9, <2>10, <2>11, <2>12, <2>13
          DEF Call, Start
<1>4. CASE TimerExpires
  BY <1>0, <1>4 DEF TimerExpires, TypeOK, Contexts, Pc, LinkState, Frame
<1>5. CASE TimeoutRecorded
  BY <1>0, <1>5 DEF TimeoutRecorded, TypeOK, Contexts, Pc, LinkState, Frame
<1>6. CASE TimerSchedules
  BY <1>0, <1>6 DEF TimerSchedules, TypeOK, Contexts, Pc, LinkState, Frame
<1>7. CASE WorkStarts
  BY <1>0, <1>7 DEF WorkStarts, TypeOK, Contexts, Pc, LinkState, Frame
<1>8. CASE RecoveryRecorded
  BY <1>0, <1>8 DEF RecoveryRecorded, TypeOK, Contexts, Pc, LinkState, Frame
<1>9. CASE Load
  BY <1>0, <1>9 DEF Load, TypeOK, Contexts, Pc, LinkState, Frame
<1>10. CASE Deregister
  BY <1>0, <1>10 DEF Deregister, TypeOK, Contexts, Pc, LinkState, Frame
<1>11. CASE CancelTimer
  BY <1>0, <1>11 DEF CancelTimer, TypeOK, Contexts, Pc, LinkState, Frame
<1>12. CASE CancelWork
  BY <1>0, <1>12 DEF CancelWork, TypeOK, Contexts, Pc, LinkState, Frame
<1>13. CASE Free
  BY <1>0, <1>13 DEF Free, TypeOK, Contexts, Pc, LinkState, Frame
<1>14. CASE UNCHANGED vars
  BY <1>14 DEF vars, TypeOK
<1> QED BY <1>1, <1>2, <1>3, <1>4, <1>5, <1>6, <1>7, <1>8, <1>9, <1>10, <1>11,
           <1>12, <1>13, <1>14
       DEF Next, TimerCallback, WorkItem, Exit, Contexts

\* Type correctness, and with it the bounds of both queues.
THEOREM DriverTypeCorrect == Spec => []TypeOK
<1>1. Init => TypeOK
  <2> SUFFICES ASSUME Init PROVE TypeOK
    OBVIOUS
  <2>1. 0 \in 0..Depth /\ Len(rx_fifo) <= Depth
    BY DriverAssumption DEF Init
  <2>2. rx_fifo \in Seq(Frame)
    BY DEF Init
  <2>3. "idle" \in Pc /\ "idle" \notin {"push", "wake"}
    BY DEF Pc
  <2> QED BY <2>1, <2>2, <2>3, Zenon DEF Init, TypeOK, LinkState
<1>2. TypeOK /\ [Next]_vars => TypeOK'
  BY TypeStep
<1> QED BY <1>1, <1>2, PTL DEF Spec

-------------------------------------------------------------------------------
\* What safety_copro_exit has stopped at each of its steps, and that a
\* device that is not loaded is in its initial state.
Stopped ==
  /\ module # "live" => \A c \in Callers : pc[c] = "idle"
  /\ module \in {"cancel_work", "free", "unloaded"} =>
       ~hb_timer /\ pc["timer"] = "idle"
  /\ module \in {"free", "unloaded"} => ~work_pending /\ pc["work"] = "idle"
  /\ module = "unloaded" => state = "BOOTING"

\* The inductive invariant.
DriverInv == Stopped /\ WatchdogLive /\ TimeoutHasRecovery /\ SleepersWoken

\* A push moves only the context that pushes, and leaves a waker behind if
\* it queued the frame (FifoPush).
LEMMA FifoPushFacts ==
  ASSUME TypeOK, NEW c \in Contexts, FifoPush(c)
  PROVE  /\ pc[c] = "push"
         /\ pc' \in [Contexts -> Pc]
         /\ \A d \in Contexts : d # c => pc'[d] = pc[d]
         /\ c = "timer" => pc'[c] \in {"wake", "schedule"}
         /\ c = "work" => pc'[c] \in {"wake", "idle"}
         /\ c \in Callers => pc'[c] \in {"wake", "heard", "idle"}
         /\ pc'[c] = "wake" \/ rx_fifo' = rx_fifo
         /\ UNCHANGED <<module, tx_len, state, hb_timer, work_pending>>
<1>1. AfterPush(c, FALSE) \in {"schedule", "heard", "idle"}
  BY AfterPushFacts
<1>2. /\ c = "timer" => AfterPush(c, FALSE) = "schedule"
      /\ c \in Callers => AfterPush(c, FALSE) \in {"heard", "idle"}
      /\ c = "work" => AfterPush(c, FALSE) = "idle"
  BY AfterPushFacts
<1>3. pc'[c] = "wake" \/ (pc'[c] = AfterPush(c, FALSE) /\ rx_fifo' = rx_fifo)
  BY DEF FifoPush, Goto, TypeOK
<1>4. pc' \in [Contexts -> Pc] /\ \A d \in Contexts : d # c => pc'[d] = pc[d]
  BY <1>1 DEF FifoPush, Goto, TypeOK, Pc
<1> QED BY <1>2, <1>3, <1>4 DEF FifoPush

\* The end of a push leaves nobody asleep on rx_wq (WakeReaders).
LEMMA WakeReadersFacts ==
  ASSUME TypeOK, NEW c \in Contexts, WakeReaders(c)
  PROVE  /\ pc[c] = "wake"
         /\ pc' \in [Contexts -> Pc]
         /\ \A d \in Contexts : pc'[d] \notin {"asleep", "polling"}
         /\ \A d \in Contexts : d # c /\ pc[d] \notin {"asleep", "polling"}
                                  => pc'[d] = pc[d]
         /\ \A d \in Contexts : d # c /\ pc[d] = "idle" => pc'[d] = "idle"
         /\ c = "timer" => pc'[c] = "schedule"
         /\ c = "work" => pc'[c] = "idle"
         /\ UNCHANGED <<module, devVars>>
<1>1. AfterPush(c, TRUE) \in {"schedule", "heard", "idle"}
  BY AfterPushFacts
<1>2. /\ c = "timer" => AfterPush(c, TRUE) = "schedule"
      /\ c = "work" => AfterPush(c, TRUE) = "idle"
  BY AfterPushFacts
<1>3. AfterPush(c, TRUE) \in Pc
  BY <1>1 DEF Pc
<1>4. /\ pc' \in [Contexts -> Pc]
      /\ pc'[c] = AfterPush(c, TRUE)
      /\ \A d \in Contexts : d # c /\ pc[d] \notin {"asleep", "polling"}
                               => pc'[d] = pc[d]
      /\ \A d \in Contexts : d # c /\ pc[d] \in {"asleep", "polling"}
                               => pc'[d] \in {"check", "idle"}
  BY <1>3, WakeFacts DEF WakeReaders
<1> QED BY <1>1, <1>2, <1>4 DEF WakeReaders

\* The same for a writer and those that sleep in poll() (WakeTx).
LEMMA WakeTxFacts ==
  ASSUME TypeOK, NEW c \in Contexts, WakeTx(c)
  PROVE  /\ pc[c] = "wake_tx"
         /\ pc' \in [Contexts -> Pc]
         /\ pc'[c] = "idle"
         /\ \A d \in Contexts : pc'[d] # "polling"
         /\ \A d \in Contexts : d # c /\ pc[d] # "polling" => pc'[d] = pc[d]
         /\ \A d \in Contexts : pc'[d] = "asleep" => pc[d] = "asleep"
         /\ UNCHANGED <<module, devVars>>
<1>1. "idle" \in Pc /\ {"polling"} \subseteq {"asleep", "polling"}
  BY DEF Pc
<1>2. /\ pc' \in [Contexts -> Pc]
      /\ pc'[c] = "idle"
      /\ \A d \in Contexts : d # c /\ pc[d] \notin {"polling"} => pc'[d] = pc[d]
      /\ \A d \in Contexts : d # c /\ pc[d] \in {"polling"}
                               => pc'[d] \in {"check", "idle"}
  BY <1>1, WakeFacts DEF WakeTx
<1> QED BY <1>2 DEF WakeTx

\* Nothing that the unload has stopped starts again: calls need a live
\* module, an expiry needs an armed timer, and only calls and the callback
\* queue the work.
LEMMA StoppedStep ==
  ASSUME TypeOK, DriverInv, [Next]_vars
  PROVE  Stopped'
<1> USE DriverAssumption DEF Goto, Enter, devVars
<1>0. pc \in [Contexts -> Pc]
  BY DEF TypeOK
<1>a. Stopped
  BY DEF DriverInv
<1>1. ASSUME NEW c \in Contexts, FifoPush(c) PROVE Stopped'
  BY <1>1, <1>a, FifoPushFacts DEF Stopped, Contexts
<1>2. ASSUME NEW c \in Contexts, WakeReaders(c) PROVE Stopped'
  BY <1>2, <1>a, WakeReadersFacts DEF Stopped, Contexts
<1>3. ASSUME NEW c \in Callers, Call(c) \/ Start(c) \/ Interrupted(c)
      PROVE  Stopped'
  <2>0. c \in Contexts
    BY DEF Contexts
  <2>1. CASE WakeTx(c)
    BY <2>0, <2>1, <1>a, WakeTxFacts DEF Stopped, Contexts
  <2>2. CASE Heard(c)
    BY <1>0, <1>a, <2>2 DEF Heard, Stopped, Contexts
  <2>3. CASE Rearm(c)
    BY <1>0, <1>a, <2>3 DEF Rearm, Stopped, Contexts
  <2>4. CASE WaitEvent(c)
    BY <1>0, <1>a, <2>4 DEF WaitEvent, Stopped, Contexts
  <2>5. CASE TryRead(c)
    BY <1>0, <1>a, <2>5 DEF TryRead, Stopped, Contexts
  <2>6. CASE PushRx(c)
    BY <1>0, <1>a, <2>6 DEF PushRx, Stopped, Contexts
  <2>7. CASE InjectFault(c)
    BY <1>0, <1>a, <2>7 DEF InjectFault, Stopped, Contexts
  <2>8. CASE SetHbTimeout(c)
    BY <1>0, <1>a, <2>8 DEF SetHbTimeout, Stopped, Contexts
  <2>9. CASE ForceRecovery(c)
    BY <1>0, <1>a, <2>9 DEF ForceRecovery, Stopped, Contexts
  <2>10. CASE Write(c)
    BY <1>0, <1>a, <2>10 DEF Write, Stopped, Contexts
  <2>11. CASE PopTx(c)
    BY <1>0, <1>a, <2>11 DEF PopTx, Stopped, Contexts
  <2>12. CASE Poll(c)
    BY <1>0, <1>a, <2>12 DEF Poll, Stopped, Contexts
  <2>13. CASE Interrupted(c)
    BY <1>0, <1>a, <2>13 DEF Interrupted, Stopped, Contexts
  <2> QED BY <1>1, <1>2, <1>3, <2>0, <2>1, <2>2, <2>3, <2>4, <2>5, <2>6, <2>7,
             <2>8, <2>9, <2>10, <2>11, <2>12, <2>13
          DEF Call, Start
<1>4. CASE TimerExpires
  BY <1>0, <1>a, <1>4 DEF TimerExpires, Stopped, Contexts
<1>5. CASE TimeoutRecorded
  BY <1>0, <1>a, <1>5 DEF TimeoutRecorded, Stopped, Contexts
<1>6. CASE TimerSchedules
  BY <1>0, <1>a, <1>6 DEF TimerSchedules, Stopped, Contexts
<1>7. CASE WorkStarts
  BY <1>0, <1>a, <1>7 DEF WorkStarts, Stopped, Contexts
<1>8. CASE RecoveryRecorded
  BY <1>0, <1>a, <1>8 DEF RecoveryRecorded, Stopped, Contexts
<1>9. CASE Load
  BY <1>0, <1>a, <1>9 DEF Load, Stopped, Contexts
<1>10. CASE Deregister
  BY <1>0, <1>a, <1>10 DEF Deregister, Stopped, Contexts
<1>11. CASE CancelTimer
  BY <1>0, <1>a, <1>11 DEF CancelTimer, Stopped, Contexts
<1>12. CASE CancelWork
  BY <1>0, <1>a, <1>12 DEF CancelWork, Stopped, Contexts
<1>13. CASE Free
  BY <1>0, <1>a, <1>13 DEF Free, Stopped, Contexts
<1>14. CASE UNCHANGED vars
  BY <1>a, <1>14 DEF vars, Stopped
<1> QED BY <1>1, <1>2, <1>3, <1>4, <1>5, <1>6, <1>7, <1>8, <1>9, <1>10, <1>11,
           <1>12, <1>13, <1>14
       DEF Next, TimerCallback, WorkItem, Exit, Contexts

\* Each step keeps a way to notice silence: only Heard makes the state HB_OK
\* and its caller arms the timer next; an expiry hands over to the callback.
LEMMA WatchdogStep ==
  ASSUME TypeOK, DriverInv, [Next]_vars
  PROVE  WatchdogLive'
<1> USE DriverAssumption DEF Goto, Enter, devVars
<1>0. pc \in [Contexts -> Pc]
  BY DEF TypeOK
<1>a. WatchdogLive /\ Stopped
  BY DEF DriverInv
<1>1. ASSUME NEW c \in Contexts, FifoPush(c) PROVE WatchdogLive'
  BY <1>1, <1>a, FifoPushFacts DEF WatchdogLive, Contexts
<1>2. ASSUME NEW c \in Contexts, WakeReaders(c) PROVE WatchdogLive'
  BY <1>2, <1>a, WakeReadersFacts DEF WatchdogLive, Contexts
<1>3. ASSUME NEW c \in Callers, Call(c) \/ Start(c) \/ Interrupted(c)
      PROVE  WatchdogLive'
  <2>0. c \in Contexts
    BY DEF Contexts
  <2>1. CASE WakeTx(c)
    BY <2>0, <2>1, <1>a, WakeTxFacts DEF WatchdogLive, Contexts
  <2>2. CASE Heard(c)
    BY <1>0, <1>a, <2>2 DEF Heard, WatchdogLive, Contexts
  <2>3. CASE Rearm(c)
    BY <1>0, <1>a, <2>3 DEF Rearm, WatchdogLive, Contexts
  <2>4. CASE WaitEvent(c)
    BY <1>0, <1>a, <2>4 DEF WaitEvent, WatchdogLive, Contexts
  <2>5. CASE TryRead(c)
    BY <1>0, <1>a, <2>5 DEF TryRead, WatchdogLive, Contexts
  <2>6. CASE PushRx(c)
    BY <1>0, <1>a, <2>6 DEF PushRx, WatchdogLive, Contexts
  <2>7. CASE InjectFault(c)
    BY <1>0, <1>a, <2>7 DEF InjectFault, WatchdogLive, Contexts
  <2>8. CASE SetHbTimeout(c)
    BY <1>0, <1>a, <2>8 DEF SetHbTimeout, WatchdogLive, Contexts
  <2>9. CASE ForceRecovery(c)
    BY <1>0, <1>a, <2>9 DEF ForceRecovery, WatchdogLive, Contexts
  <2>10. CASE Write(c)
    BY <1>0, <1>a, <2>10 DEF Write, WatchdogLive, Contexts
  <2>11. CASE PopTx(c)
    BY <1>0, <1>a, <2>11 DEF PopTx, WatchdogLive, Contexts
  <2>12. CASE Poll(c)
    BY <1>0, <1>a, <2>12 DEF Poll, WatchdogLive, Contexts
  <2>13. CASE Interrupted(c)
    BY <1>0, <1>a, <2>13 DEF Interrupted, WatchdogLive, Contexts
  <2> QED BY <1>1, <1>2, <1>3, <2>0, <2>1, <2>2, <2>3, <2>4, <2>5, <2>6, <2>7,
             <2>8, <2>9, <2>10, <2>11, <2>12, <2>13
          DEF Call, Start
<1>4. CASE TimerExpires
  BY <1>0, <1>a, <1>4 DEF TimerExpires, WatchdogLive, Contexts
<1>5. CASE TimeoutRecorded
  BY <1>0, <1>a, <1>5 DEF TimeoutRecorded, WatchdogLive, Contexts
<1>6. CASE TimerSchedules
  BY <1>0, <1>a, <1>6 DEF TimerSchedules, WatchdogLive, Contexts
<1>7. CASE WorkStarts
  BY <1>0, <1>a, <1>7 DEF WorkStarts, WatchdogLive, Contexts
<1>8. CASE RecoveryRecorded
  BY <1>0, <1>a, <1>8 DEF RecoveryRecorded, WatchdogLive, Contexts
<1>9. CASE Load
  BY <1>0, <1>a, <1>9 DEF Load, WatchdogLive, Stopped
<1>10. CASE Deregister
  BY <1>0, <1>a, <1>10 DEF Deregister, WatchdogLive, Contexts
<1>11. CASE CancelTimer
  BY <1>0, <1>a, <1>11 DEF CancelTimer, WatchdogLive, Contexts
<1>12. CASE CancelWork
  BY <1>0, <1>a, <1>12 DEF CancelWork, WatchdogLive, Contexts
<1>13. CASE Free
  BY <1>0, <1>a, <1>13 DEF Free, WatchdogLive, Contexts
<1>14. CASE UNCHANGED vars
  BY <1>a, <1>14 DEF vars, WatchdogLive
<1> QED BY <1>1, <1>2, <1>3, <1>4, <1>5, <1>6, <1>7, <1>8, <1>9, <1>10, <1>11,
           <1>12, <1>13, <1>14
       DEF Next, TimerCallback, WorkItem, Exit, Contexts

\* Each step keeps a recorded timeout's recovery ahead of it, also when the
\* work was queued or running already.
LEMMA TimeoutStep ==
  ASSUME TypeOK, DriverInv, [Next]_vars
  PROVE  TimeoutHasRecovery'
<1> USE DriverAssumption DEF Goto, Enter, devVars
<1>0. pc \in [Contexts -> Pc]
  BY DEF TypeOK
<1>a. TimeoutHasRecovery /\ Stopped
  BY DEF DriverInv
<1>1. ASSUME NEW c \in Contexts, FifoPush(c) PROVE TimeoutHasRecovery'
  BY <1>1, <1>a, FifoPushFacts DEF TimeoutHasRecovery, Contexts
<1>2. ASSUME NEW c \in Contexts, WakeReaders(c) PROVE TimeoutHasRecovery'
  BY <1>2, <1>a, WakeReadersFacts DEF TimeoutHasRecovery, Contexts
<1>3. ASSUME NEW c \in Callers, Call(c) \/ Start(c) \/ Interrupted(c)
      PROVE  TimeoutHasRecovery'
  <2>0. c \in Contexts
    BY DEF Contexts
  <2>1. CASE WakeTx(c)
    BY <2>0, <2>1, <1>a, WakeTxFacts DEF TimeoutHasRecovery, Contexts
  <2>2. CASE Heard(c)
    BY <1>0, <1>a, <2>2 DEF Heard, TimeoutHasRecovery, Contexts
  <2>3. CASE Rearm(c)
    BY <1>0, <1>a, <2>3 DEF Rearm, TimeoutHasRecovery, Contexts
  <2>4. CASE WaitEvent(c)
    BY <1>0, <1>a, <2>4 DEF WaitEvent, TimeoutHasRecovery, Contexts
  <2>5. CASE TryRead(c)
    BY <1>0, <1>a, <2>5 DEF TryRead, TimeoutHasRecovery, Contexts
  <2>6. CASE PushRx(c)
    BY <1>0, <1>a, <2>6 DEF PushRx, TimeoutHasRecovery, Contexts
  <2>7. CASE InjectFault(c)
    BY <1>0, <1>a, <2>7 DEF InjectFault, TimeoutHasRecovery, Contexts
  <2>8. CASE SetHbTimeout(c)
    BY <1>0, <1>a, <2>8 DEF SetHbTimeout, TimeoutHasRecovery, Contexts
  <2>9. CASE ForceRecovery(c)
    BY <1>0, <1>a, <2>9 DEF ForceRecovery, TimeoutHasRecovery, Contexts
  <2>10. CASE Write(c)
    BY <1>0, <1>a, <2>10 DEF Write, TimeoutHasRecovery, Contexts
  <2>11. CASE PopTx(c)
    BY <1>0, <1>a, <2>11 DEF PopTx, TimeoutHasRecovery, Contexts
  <2>12. CASE Poll(c)
    BY <1>0, <1>a, <2>12 DEF Poll, TimeoutHasRecovery, Contexts
  <2>13. CASE Interrupted(c)
    BY <1>0, <1>a, <2>13 DEF Interrupted, TimeoutHasRecovery, Contexts
  <2> QED BY <1>1, <1>2, <1>3, <2>0, <2>1, <2>2, <2>3, <2>4, <2>5, <2>6, <2>7,
             <2>8, <2>9, <2>10, <2>11, <2>12, <2>13
          DEF Call, Start
<1>4. CASE TimerExpires
  BY <1>0, <1>a, <1>4 DEF TimerExpires, TimeoutHasRecovery, Contexts
<1>5. CASE TimeoutRecorded
  BY <1>0, <1>a, <1>5 DEF TimeoutRecorded, TimeoutHasRecovery, Contexts
<1>6. CASE TimerSchedules
  BY <1>0, <1>a, <1>6 DEF TimerSchedules, TimeoutHasRecovery, Contexts
<1>7. CASE WorkStarts
  BY <1>0, <1>a, <1>7 DEF WorkStarts, TimeoutHasRecovery, Contexts
<1>8. CASE RecoveryRecorded
  BY <1>0, <1>a, <1>8 DEF RecoveryRecorded, TimeoutHasRecovery, Contexts
<1>9. CASE Load
  BY <1>0, <1>a, <1>9 DEF Load, TimeoutHasRecovery, Stopped
<1>10. CASE Deregister
  BY <1>0, <1>a, <1>10 DEF Deregister, TimeoutHasRecovery, Contexts
<1>11. CASE CancelTimer
  BY <1>0, <1>a, <1>11 DEF CancelTimer, TimeoutHasRecovery, Contexts
<1>12. CASE CancelWork
  BY <1>0, <1>a, <1>12 DEF CancelWork, TimeoutHasRecovery, Contexts
<1>13. CASE Free
  BY <1>0, <1>a, <1>13 DEF Free, TimeoutHasRecovery, Contexts
<1>14. CASE UNCHANGED vars
  BY <1>a, <1>14 DEF vars, TimeoutHasRecovery
<1> QED BY <1>1, <1>2, <1>3, <1>4, <1>5, <1>6, <1>7, <1>8, <1>9, <1>10, <1>11,
           <1>12, <1>13, <1>14
       DEF Next, TimerCallback, WorkItem, Exit, Contexts

\* Each step keeps a waker for whoever sleeps while frames wait: a push
\* leaves one behind, and nobody goes to sleep with a frame in the queue.
LEMMA SleepersStep ==
  ASSUME TypeOK, DriverInv, [Next]_vars
  PROVE  SleepersWoken'
<1> USE DriverAssumption DEF Goto, Enter, devVars
<1>0. pc \in [Contexts -> Pc]
  BY DEF TypeOK
<1>a. SleepersWoken
  BY DEF DriverInv
<1>1. ASSUME NEW c \in Contexts, FifoPush(c) PROVE SleepersWoken'
  BY <1>1, <1>a, FifoPushFacts DEF SleepersWoken, Contexts
<1>2. ASSUME NEW c \in Contexts, WakeReaders(c) PROVE SleepersWoken'
  BY <1>2, <1>a, WakeReadersFacts DEF SleepersWoken, Contexts
<1>3. ASSUME NEW c \in Callers, Call(c) \/ Start(c) \/ Interrupted(c)
      PROVE  SleepersWoken'
  <2>0. c \in Contexts
    BY DEF Contexts
  <2>1. CASE WakeTx(c)
    BY <2>0, <2>1, <1>a, WakeTxFacts DEF SleepersWoken, Contexts
  <2>2. CASE Heard(c)
    BY <1>0, <1>a, <2>2 DEF Heard, SleepersWoken, Contexts
  <2>3. CASE Rearm(c)
    BY <1>0, <1>a, <2>3 DEF Rearm, SleepersWoken, Contexts
  <2>4. CASE WaitEvent(c)
    BY <1>0, <1>a, <2>4 DEF WaitEvent, SleepersWoken, Contexts
  <2>5. CASE TryRead(c)
    BY <1>0, <1>a, <2>5 DEF TryRead, SleepersWoken, Contexts
  <2>6. CASE PushRx(c)
    BY <1>0, <1>a, <2>6 DEF PushRx, SleepersWoken, Contexts
  <2>7. CASE InjectFault(c)
    BY <1>0, <1>a, <2>7 DEF InjectFault, SleepersWoken, Contexts
  <2>8. CASE SetHbTimeout(c)
    BY <1>0, <1>a, <2>8 DEF SetHbTimeout, SleepersWoken, Contexts
  <2>9. CASE ForceRecovery(c)
    BY <1>0, <1>a, <2>9 DEF ForceRecovery, SleepersWoken, Contexts
  <2>10. CASE Write(c)
    BY <1>0, <1>a, <2>10 DEF Write, SleepersWoken, Contexts
  <2>11. CASE PopTx(c)
    BY <1>0, <1>a, <2>11 DEF PopTx, SleepersWoken, Contexts
  <2>12. CASE Poll(c)
    BY <1>0, <1>a, <2>12 DEF Poll, SleepersWoken, Contexts
  <2>13. CASE Interrupted(c)
    BY <1>0, <1>a, <2>13 DEF Interrupted, SleepersWoken, Contexts
  <2> QED BY <1>1, <1>2, <1>3, <2>0, <2>1, <2>2, <2>3, <2>4, <2>5, <2>6, <2>7,
             <2>8, <2>9, <2>10, <2>11, <2>12, <2>13
          DEF Call, Start
<1>4. CASE TimerExpires
  BY <1>0, <1>a, <1>4 DEF TimerExpires, SleepersWoken, Contexts
<1>5. CASE TimeoutRecorded
  BY <1>0, <1>a, <1>5 DEF TimeoutRecorded, SleepersWoken, Contexts
<1>6. CASE TimerSchedules
  BY <1>0, <1>a, <1>6 DEF TimerSchedules, SleepersWoken, Contexts
<1>7. CASE WorkStarts
  BY <1>0, <1>a, <1>7 DEF WorkStarts, SleepersWoken, Contexts
<1>8. CASE RecoveryRecorded
  BY <1>0, <1>a, <1>8 DEF RecoveryRecorded, SleepersWoken, Contexts
<1>9. CASE Load
  BY <1>0, <1>a, <1>9 DEF Load, SleepersWoken, Contexts
<1>10. CASE Deregister
  BY <1>0, <1>a, <1>10 DEF Deregister, SleepersWoken, Contexts
<1>11. CASE CancelTimer
  BY <1>0, <1>a, <1>11 DEF CancelTimer, SleepersWoken, Contexts
<1>12. CASE CancelWork
  BY <1>0, <1>a, <1>12 DEF CancelWork, SleepersWoken, Contexts
<1>13. CASE Free
  BY <1>0, <1>a, <1>13 DEF Free, SleepersWoken, Contexts
<1>14. CASE UNCHANGED vars
  BY <1>a, <1>14 DEF vars, SleepersWoken
<1> QED BY <1>1, <1>2, <1>3, <1>4, <1>5, <1>6, <1>7, <1>8, <1>9, <1>10, <1>11,
           <1>12, <1>13, <1>14
       DEF Next, TimerCallback, WorkItem, Exit, Contexts

\* DriverInv is inductive relative to the type invariant.
THEOREM DriverInductive == Spec => []DriverInv
<1>1. Init => DriverInv
  BY DriverAssumption DEF Init, DriverInv, Stopped, WatchdogLive,
     TimeoutHasRecovery, SleepersWoken, Contexts
<1>2. TypeOK /\ DriverInv /\ [Next]_vars => DriverInv'
  BY StoppedStep, WatchdogStep, TimeoutStep, SleepersStep DEF DriverInv
<1> QED BY <1>1, <1>2, DriverTypeCorrect, PTL DEF Spec

\* While the link state is HB_OK the watchdog is running, about to record a
\* timeout or about to be armed, whatever calls run at the same time.
THEOREM WatchdogSafe == Spec => []WatchdogLive
<1>1. DriverInv => WatchdogLive
  BY DEF DriverInv
<1> QED BY <1>1, DriverInductive, PTL

\* A recorded timeout always has its recovery work ahead of it.
THEOREM TimeoutRecovers == Spec => []TimeoutHasRecovery
<1>1. DriverInv => TimeoutHasRecovery
  BY DEF DriverInv
<1> QED BY <1>1, DriverInductive, PTL

\* No process sleeps in read() or poll() beside a frame without a waker.
THEOREM NoLostSleeper == Spec => []SleepersWoken
<1>1. DriverInv => SleepersWoken
  BY DEF DriverInv
<1> QED BY <1>1, DriverInductive, PTL

\* When the device is freed nothing is left that could use it.
THEOREM UnloadSafe == Spec => []FreedQuiet
<1>1. DriverInv => FreedQuiet
  BY DEF DriverInv, Stopped, FreedQuiet, Contexts
<1> QED BY <1>1, DriverInductive, PTL

===============================================================================
