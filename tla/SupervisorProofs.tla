--------------------------- MODULE SupervisorProofs ---------------------------
(***************************************************************************)
(* Supervisor's safety properties, proved for every set of frames and all  *)
(* depths of the device's queues.                                          *)
(***************************************************************************)
EXTENDS Supervisor, SequenceTheorems, TLAPS

-------------------------------------------------------------------------------
(* Type correctness. *)

\* The transition table (apply) leads from health states to health states.
LEMMA ApplyType ==
  ASSUME NEW state \in HealthState, NEW event
  PROVE  Apply(state, event) \in HealthState
BY DEF Apply, HealthState

\* The frame a read returns is one of Frames.
LEMMA ReceivedType ==
  ASSUME TypeOK, rx_fifo # <<>>
  PROVE  /\ Received \in Frame
         /\ Key(Received) \in FrameType \X Seqs
         /\ Tail(rx_fifo) \in Seq(Frames)
         /\ Len(Tail(rx_fifo)) <= RxDepth
<1>1. /\ Head(rx_fifo) \in Frames
      /\ Tail(rx_fifo) \in Seq(Frames)
      /\ Len(Tail(rx_fifo)) = Len(rx_fifo) - 1
  BY HeadTailProperties DEF TypeOK
<1>2. Len(rx_fifo) \in Nat /\ Len(rx_fifo) <= RxDepth
  BY LenProperties DEF TypeOK
<1>3. Received \in Frame
  BY <1>1, SupervisorAssumption DEF Received
<1> QED
  BY <1>1, <1>2, <1>3, SupervisorAssumption DEF Frame, Key

\* A write to the device (send_out) leaves its queue within its depth.
LEMMA SendType ==
  ASSUME TypeOK, Send
  PROVE  tx_len' \in 0..TxDepth
BY SupervisorAssumption DEF TypeOK, Send, CanSend

\* Every step keeps the types the source declares, and the device's queues
\* within their depth.
LEMMA TypeStep == TypeOK /\ [Next]_vars => TypeOK'
<1> SUFFICES ASSUME TypeOK, [Next]_vars PROVE TypeOK'
  OBVIOUS
<1> USE DEF vars, devVars, loopVars, workerVars, loopSide, shared
<1>a. CASE DeviceDeliver
  <2>1. PICK f \in Frames : rx_fifo' = Append(rx_fifo, f)
    BY <1>a DEF DeviceDeliver
  <2>2. rx_fifo' \in Seq(Frames) /\ Len(rx_fifo') = Len(rx_fifo) + 1
    BY <2>1, AppendProperties DEF TypeOK
  <2>3. Len(rx_fifo') <= RxDepth
    BY <1>a, <2>2, LenProperties, SupervisorAssumption DEF DeviceDeliver, TypeOK
  <2> QED
    BY <1>a, <2>2, <2>3 DEF DeviceDeliver, TypeOK
<1>b. CASE LinkdTake
  BY <1>b, SupervisorAssumption DEF LinkdTake, TypeOK
<1>c. CASE TimerExpires \/ DeadlinePasses \/ Terminate
  BY <1>c DEF TimerExpires, DeadlinePasses, Terminate, TypeOK
<1>d. CASE EpollWait
  <2>1. Ready \subseteq {"device", "timer", "wake"}
    BY DEF Ready
  <2> QED
    BY <1>d, <2>1 DEF EpollWait, TypeOK
<1>e. CASE OnHeartbeatTimeout
  <2>1. fsm_' \in HealthState
    BY <1>e, ApplyType DEF OnHeartbeatTimeout, TypeOK
  <2>2. queue_' \in Seq(Request) /\ commanded' \in BOOLEAN
    <3>1. Append(queue_, "RECOVER") \in Seq(Request)
      BY AppendProperties DEF TypeOK, Request
    <3> QED
      BY <1>e, <3>1 DEF OnHeartbeatTimeout, TypeOK
  <2> QED
    BY <1>e, <2>1, <2>2 DEF OnHeartbeatTimeout, TypeOK
<1>f. CASE HandleReadable
  <2>1. /\ Key(Received) \in FrameType \X Seqs
        /\ rx_fifo' \in Seq(Frames) /\ Len(rx_fifo') <= RxDepth
        /\ events' \subseteq {"device", "timer", "wake"}
        /\ UNCHANGED <<loop, drained, wake_, reports_, running, stopping_>>
        /\ UNCHANGED workerVars
    <3>1. ReadFrame
      BY <1>f DEF HandleReadable, BadFrame, DuplicateFrame, HeartbeatFrame,
                  FaultFrame, OtherFrame, NewFrame
    <3> QED
      BY <3>1, ReceivedType DEF ReadFrame, TypeOK
  <2>2. tx_len' \in 0..TxDepth
    <3>1. CASE BadFrame
      BY <3>1, SendType DEF BadFrame
    <3>2. CASE HeartbeatFrame
      BY <3>2, SendType DEF HeartbeatFrame
    <3> QED
      BY <1>f, <3>1, <3>2 DEF HandleReadable, DuplicateFrame, FaultFrame,
                              OtherFrame, TypeOK
  <2>3. seen_' \subseteq FrameType \X Seqs /\ timer_' \in {"armed", "expired"}
        /\ commanded' \in BOOLEAN
    BY <1>f, <2>1 DEF HandleReadable, BadFrame, DuplicateFrame, HeartbeatFrame,
                      FaultFrame, OtherFrame, NewFrame, TypeOK
  <2>4. fsm_' \in HealthState
    BY <1>f, ApplyType DEF HandleReadable, BadFrame, DuplicateFrame,
                           HeartbeatFrame, FaultFrame, OtherFrame, TypeOK
  <2>5. queue_' \in Seq(Request)
    <3>1. Append(queue_, "RESTORED") \in Seq(Request)
      BY AppendProperties DEF TypeOK, Request
    <3> QED
      BY <1>f, <3>1 DEF HandleReadable, BadFrame, DuplicateFrame, HeartbeatFrame,
                        FaultFrame, OtherFrame, TypeOK
  <2> QED
    BY <2>1, <2>2, <2>3, <2>4, <2>5 DEF TypeOK
<1>g. CASE ReadWake \/ DrainDone \/ StopWorker \/ JoinWorker
  BY <1>g DEF ReadWake, DrainDone, StopWorker, JoinWorker, TypeOK, LoopControl
<1>h. CASE SwapReports
  <2>1. Len(reports_) \in Nat
    BY LenProperties DEF TypeOK
  <2> QED
    BY <1>h, <2>1 DEF SwapReports, TypeOK, LoopControl
<1>i. CASE DrainReport
  <2>1. reports_ # <<>>
    BY <1>i DEF DrainReport, TypeOK
  <2>2. reports_' \in Seq(Outcome) /\ Len(reports_') = Len(reports_) - 1
    BY <1>i, <2>1, HeadTailProperties DEF DrainReport, TypeOK
  <2>3. drained' \in 0..Len(reports_')
    <3>1. Len(reports_) \in Nat
      BY LenProperties DEF TypeOK
    <3>2. drained \in 0..Len(reports_) /\ drained > 0 /\ drained' = drained - 1
      BY <1>i DEF DrainReport, TypeOK
    <3> QED
      BY <2>2, <3>1, <3>2
  <2>4. fsm_' \in HealthState
    BY <1>i, ApplyType DEF DrainReport, ReportEffect, TypeOK
  <2> QED
    BY <1>i, <2>2, <2>3, <2>4 DEF DrainReport, TypeOK
<1>j. CASE WorkerWake \/ CheckDeadline \/ WakeLoop
  BY <1>j DEF WorkerWake, CheckDeadline, WakeLoop, TypeOK, WorkerControl, Outcome
<1>k. CASE PopRecover \/ PopRestored
  <2>1. queue_' \in Seq(Request)
    BY <1>k, HeadTailProperties DEF PopRecover, PopRestored, TypeOK
  <2> QED
    BY <1>k, <2>1 DEF PopRecover, PopRestored, TypeOK, WorkerControl, Outcome
<1>l. CASE SendCommand
  BY <1>l, SendType DEF SendCommand, TypeOK, WorkerControl, Outcome
<1>m. CASE PostReport
  <2>1. report \in Outcome
    BY <1>m DEF PostReport, TypeOK
  <2>2. reports_' \in Seq(Outcome) /\ Len(reports_') = Len(reports_) + 1
    BY <1>m, <2>1, AppendProperties DEF PostReport, TypeOK
  <2>3. drained' \in 0..Len(reports_')
    <3>1. Len(reports_) \in Nat
      BY LenProperties DEF TypeOK
    <3>2. drained \in 0..Len(reports_) /\ drained' = drained
      BY <1>m DEF PostReport, TypeOK
    <3> QED
      BY <2>2, <3>1, <3>2
  <2> QED
    BY <1>m, <2>2, <2>3 DEF PostReport, TypeOK, WorkerControl
<1>n. CASE UNCHANGED vars
  BY <1>n DEF TypeOK
<1> QED
  BY <1>a, <1>b, <1>c, <1>d, <1>e, <1>f, <1>g, <1>h, <1>i, <1>j, <1>k, <1>l,
     <1>m, <1>n DEF Next, Environment, EventLoop, RecoveryWorker

\* Spec keeps every variable in its type: TypeOK is an invariant.
THEOREM TypeCorrect == Spec => []TypeOK
<1>1. Init => TypeOK
  <2> SUFFICES ASSUME Init PROVE TypeOK
    OBVIOUS
  <2>1. /\ rx_fifo \in Seq(Frames) /\ Len(rx_fifo) <= RxDepth
        /\ tx_len \in 0..TxDepth
    BY EmptySeq, SupervisorAssumption DEF Init
  <2>2. /\ reports_ \in Seq(Outcome) /\ drained \in 0..Len(reports_)
        /\ queue_ \in Seq(Request)
    BY EmptySeq DEF Init
  <2>3. /\ seen_ \subseteq FrameType \X Seqs
        /\ events \subseteq {"device", "timer", "wake"}
    BY DEF Init
  <2> QED
    BY <2>1, <2>2, <2>3, Zenon DEF Init, TypeOK, HealthState, LoopControl,
                                   WorkerControl
<1> QED
  BY <1>1, TypeStep, PTL DEF Spec

-------------------------------------------------------------------------------
(* The wake-up of the event loop and its blocking read. *)

\* No report is stranded (post_recovery_report against run's eventfd read and
\* drain_recovery_reports' swap).
THEOREM WakeupSafe == Spec => []NoLostWakeup
<1>1. Init => NoLostWakeup
  BY EmptySeq DEF Init, NoLostWakeup
<1>2. TypeOK /\ NoLostWakeup /\ [Next]_vars => NoLostWakeup'
  <2> SUFFICES ASSUME TypeOK, NoLostWakeup, [Next]_vars PROVE NoLostWakeup'
    OBVIOUS
  <2> USE DEF devVars, loopVars, workerVars, loopSide, shared
  <2>1. CASE Environment \/ HandleReadable \/ EpollWait \/ OnHeartbeatTimeout
             \/ DrainDone \/ StopWorker \/ JoinWorker \/ UNCHANGED vars
    BY <2>1 DEF Environment, DeviceDeliver, LinkdTake, TimerExpires,
                DeadlinePasses, Terminate, HandleReadable, BadFrame,
                DuplicateFrame, NewFrame, HeartbeatFrame, FaultFrame, OtherFrame,
                ReadFrame, EpollWait, OnHeartbeatTimeout, DrainDone, StopWorker,
                JoinWorker, NoLostWakeup, vars
  <2>2. CASE ReadWake
    BY <2>2 DEF ReadWake, NoLostWakeup
  <2>3. CASE SwapReports
    BY <2>3, LenProperties DEF SwapReports, NoLostWakeup, TypeOK
  <2>4. CASE DrainReport
    <3>1. reports_ # <<>>
      BY <2>4 DEF DrainReport, TypeOK
    <3>2. Len(reports_') = Len(reports_) - 1 /\ Len(reports_) \in Nat
      BY <2>4, <3>1, HeadTailProperties, LenProperties DEF DrainReport, TypeOK
    <3>3. drained' = drained - 1 /\ drained \in Int
      BY <2>4 DEF DrainReport, TypeOK
    <3>4. UNCHANGED <<wake_, worker, loop>>
      BY <2>4 DEF DrainReport
    <3> QED
      BY <3>2, <3>3, <3>4 DEF NoLostWakeup
  <2>5. CASE WorkerWake \/ PopRecover \/ PopRestored \/ CheckDeadline \/ SendCommand
    BY <2>5 DEF WorkerWake, PopRecover, PopRestored, CheckDeadline, SendCommand,
                NoLostWakeup
  <2>6. CASE PostReport
    BY <2>6 DEF PostReport, NoLostWakeup
  <2>7. CASE WakeLoop
    BY <2>7 DEF WakeLoop, NoLostWakeup
  <2> QED
    BY <2>1, <2>2, <2>3, <2>4, <2>5, <2>6, <2>7
       DEF Next, EventLoop, RecoveryWorker
<1> QED
  BY <1>1, <1>2, TypeCorrect, PTL DEF Spec

\* A read() is due only while the device holds a frame (handle_readable blocks
\* otherwise, and with it the heartbeat timeout).
THEOREM ReadSafe == Spec => []ReadNeverBlocks
<1>1. Init => ReadNeverBlocks
  BY DEF Init, ReadNeverBlocks
<1>2. TypeOK /\ ReadNeverBlocks /\ [Next]_vars => ReadNeverBlocks'
  <2> SUFFICES ASSUME TypeOK, ReadNeverBlocks, [Next]_vars PROVE ReadNeverBlocks'
    OBVIOUS
  <2> USE DEF devVars, loopVars, workerVars, loopSide, shared
  <2>1. CASE DeviceDeliver
    <3>1. rx_fifo' # <<>>
      BY <2>1, AppendProperties DEF DeviceDeliver, TypeOK
    <3> QED
      BY <3>1 DEF ReadNeverBlocks
  <2>2. CASE LinkdTake \/ TimerExpires \/ DeadlinePasses \/ Terminate
             \/ SwapReports \/ DrainReport \/ DrainDone \/ StopWorker \/ JoinWorker
             \/ UNCHANGED vars
    BY <2>2 DEF LinkdTake, TimerExpires, DeadlinePasses, Terminate, SwapReports,
                DrainReport, DrainDone, StopWorker, JoinWorker, ReadNeverBlocks, vars
  <2>3. CASE EpollWait
    BY <2>3 DEF EpollWait, Ready, ReadNeverBlocks
  <2>4. CASE OnHeartbeatTimeout \/ ReadWake
    BY <2>4 DEF OnHeartbeatTimeout, ReadWake, ReadNeverBlocks
  <2>5. CASE HandleReadable
    <3>1. ReadFrame
      BY <2>5 DEF HandleReadable, BadFrame, DuplicateFrame, HeartbeatFrame,
                  FaultFrame, OtherFrame, NewFrame
    <3> QED
      BY <3>1 DEF ReadFrame, ReadNeverBlocks
  <2>6. CASE RecoveryWorker
    BY <2>6 DEF RecoveryWorker, WorkerWake, PopRecover, PopRestored,
                CheckDeadline, SendCommand, PostReport, WakeLoop, ReadNeverBlocks
  <2> QED
    BY <2>1, <2>2, <2>3, <2>4, <2>5, <2>6 DEF Next, Environment, EventLoop
<1> QED
  BY <1>1, <1>2, TypeCorrect, PTL DEF Spec

-------------------------------------------------------------------------------
(* The inductive invariant.  A recovery is a token that moves: requested   *)
(* (RECOVER in queue_), being sent (worker = "send"), announced (SENT on   *)
(* its way to the loop).  There is at most one, and only in a Late state.  *)

Late == {"DEGRADED", "FAILED", "SAFE_MODE"}

Posting == worker = "post"

\* Reports on their way to the loop, and one more if a recovery is in progress
\* (it will end with exactly one SUCCESS or FAILED).
Owed == Len(reports_) + (IF Posting THEN 1 ELSE 0) + (IF active_ THEN 1 ELSE 0)

\* A RECOVER is always the last request of the queue.
RecoverQueued == queue_ # <<>> /\ queue_[Len(queue_)] = "RECOVER"

\* Where the worker is tells what it holds.
WorkerInv ==
  /\ worker \in {"post", "wake"} /\ report # "SENT" => ~active_
  /\ worker \in {"idle", "exit"} => ~active_
  /\ worker = "send" => active_
  /\ Posting /\ report = "SENT" => active_

\* The shape of the request queue.
QueueInv ==
  /\ Len(queue_) <= 2
  /\ \A i \in 1..Len(queue_) : i < Len(queue_) => queue_[i] = "RESTORED"
  /\ Len(queue_) >= 2 => queue_[2] = "RECOVER"
  /\ fsm_ \in {"BOOTING", "RECOVERING"} => queue_ = <<>>
  /\ RecoverQueued => fsm_ \in Late /\ Owed <= 1
  /\ RecoverQueued /\ active_ => Len(queue_) >= 2
  /\ active_ /\ fsm_ = "HEALTHY" => queue_ # <<>>
  /\ fsm_ = "BOOTING" => ~active_

\* A recovery that is being sent, or announced and not yet applied.
SentInv ==
  /\ worker = "send" =>
       queue_ = <<>> /\ fsm_ \in Late /\ Len(reports_) <= 1
  /\ Posting /\ report = "SENT" =>
       queue_ = <<>> /\ fsm_ \in Late /\ commanded /\ Len(reports_) <= 1
  /\ \A i \in 1..Len(reports_) : reports_[i] = "SENT" =>
       /\ queue_ = <<>> /\ fsm_ \in Late /\ commanded
       /\ i <= 2 /\ Owed <= i + 1
       /\ worker # "send" /\ ~(Posting /\ report = "SENT")
       /\ \A j \in 1..Len(reports_) : reports_[j] = "SENT" => j = i

OwedInv ==
  /\ Owed <= 3
  /\ fsm_ \notin Late => Owed <= 1

IInv ==
  /\ WorkerInv
  /\ QueueInv
  /\ SentInv
  /\ OwedInv
  /\ RecoveringWasCommanded

\* The variables IInv is about.
core == <<fsm_, queue_, reports_, active_, worker, report, commanded>>

\* What the transition table does with each event (apply).
LEMMA ApplyFacts ==
  ASSUME NEW s \in HealthState
  PROVE  /\ Apply(s, "HEARTBEAT_OK") = IF s = "BOOTING" THEN "HEALTHY" ELSE s
         /\ Apply(s, "HEARTBEAT_TIMEOUT") = IF s = "HEALTHY" THEN "DEGRADED" ELSE s
         /\ Apply(s, "RECOVERY_SENT") = IF s = "DEGRADED" THEN "RECOVERING" ELSE s
         /\ Apply("RECOVERING", "HEARTBEAT_RESTORED") = "HEALTHY"
         /\ Apply(s, "RECOVERY_FAILED")
              = IF s \in {"DEGRADED", "RECOVERING"} THEN "FAILED" ELSE s
         /\ Apply(s, "CRITICAL_FAULT")
              = IF s \in {"HEALTHY", "DEGRADED"} THEN "SAFE_MODE" ELSE s
<1> USE DEF HealthState
<1>1. CASE s = "BOOTING"
  BY <1>1 DEF Apply
<1>2. CASE s = "HEALTHY"
  BY <1>2 DEF Apply
<1>3. CASE s = "DEGRADED"
  BY <1>3 DEF Apply
<1>4. CASE s = "RECOVERING"
  BY <1>4 DEF Apply
<1>5. CASE s \in {"FAILED", "SAFE_MODE"}
  BY <1>5 DEF Apply
<1> QED
  BY <1>1, <1>2, <1>3, <1>4, <1>5

\* A step that leaves these alone (the environment, epoll_wait, reading the
\* eventfd, frames that are only answered) keeps the invariant.
LEMMA CoreUnchanged ==
  ASSUME IInv, UNCHANGED core PROVE IInv'
BY DEF core, IInv, WorkerInv, QueueInv, SentInv, OwedInv, Owed, Posting,
       RecoverQueued, RecoveringWasCommanded

\* What the steps below use of TypeOK.
LEMMA QueueFacts ==
  ASSUME TypeOK
  PROVE  /\ queue_ \in Seq(Request) /\ Len(queue_) \in Nat
         /\ queue_ = <<>> <=> Len(queue_) <= 0
         /\ \A i \in 1..Len(queue_) : queue_[i] \in Request
         /\ reports_ \in Seq(Outcome) /\ Len(reports_) \in Nat
         /\ reports_ = <<>> <=> Len(reports_) <= 0
         /\ active_ \in BOOLEAN
         /\ fsm_ \in HealthState
BY LenProperties, EmptySeq, ElementOfSeq DEF TypeOK

\* A change of the health state alone, into a Late state, keeps the invariant.
LEMMA LateStep ==
  ASSUME IInv, fsm_' \in Late,
         UNCHANGED <<queue_, reports_, active_, worker, report, commanded>>
  PROVE  IInv'
<1>1. WorkerInv' /\ RecoveringWasCommanded'
  BY DEF IInv, WorkerInv, Posting, RecoveringWasCommanded, Late
<1>2. Owed' = Owed /\ (RecoverQueued' <=> RecoverQueued)
  BY DEF Owed, Posting, RecoverQueued
<1>3. QueueInv'
  BY <1>2 DEF IInv, QueueInv, Late
<1>4. SentInv'
  BY <1>2 DEF IInv, SentInv, Posting
<1>5. OwedInv'
  BY <1>2 DEF IInv, OwedInv
<1> QED
  BY <1>1, <1>3, <1>4, <1>5 DEF IInv

\* A heartbeat timeout asks for a recovery only out of HEALTHY, where at most
\* one report of an earlier recovery is owed (on_heartbeat_timeout).
LEMMA TimeoutStep ==
  ASSUME TypeOK, TypeOK', IInv, OnHeartbeatTimeout PROVE IInv'
<1> USE DEF devVars, loopVars, workerVars
<1>0. UNCHANGED <<reports_, active_, worker, report>>
  BY DEF OnHeartbeatTimeout
<1>q. /\ queue_ \in Seq(Request) /\ Len(queue_) \in Nat
      /\ \A i \in 1..Len(queue_) : queue_[i] \in Request
      /\ queue_ = <<>> <=> Len(queue_) <= 0
  BY QueueFacts
<1>r. reports_ \in Seq(Outcome) /\ Len(reports_) \in Nat /\ active_ \in BOOLEAN
  BY QueueFacts
<1>1. CASE fsm_ = "HEALTHY"
  <2>1. /\ fsm_' = "DEGRADED"
        /\ queue_' = Append(queue_, "RECOVER")
    BY <1>1, ApplyFacts DEF OnHeartbeatTimeout, RequestsRecovery, Valid, TypeOK
  <2>2. /\ Len(queue_') = Len(queue_) + 1
        /\ \A i \in 1..Len(queue_) : queue_'[i] = queue_[i]
        /\ queue_'[Len(queue_) + 1] = "RECOVER"
        /\ queue_' # <<>>
    BY <1>q, <2>1, AppendProperties DEF Request
  <2>a. ~RecoverQueued
    BY <1>1 DEF IInv, QueueInv, Late
  <2>b. Len(queue_) <= 2 /\ (Len(queue_) >= 2 => queue_[2] = "RECOVER")
    BY DEF IInv, QueueInv
  <2>3. Len(queue_) <= 1 /\ \A i \in 1..Len(queue_) : queue_[i] = "RESTORED"
    BY <1>q, <2>a, <2>b DEF RecoverQueued, Request
  <2>4. QueueInv'
    <3>1. Owed' <= 1
      BY <1>0, <1>1 DEF IInv, OwedInv, Owed, Posting, Late
    <3>2. active_' => Len(queue_') >= 2
      BY <1>0, <1>1, <1>q, <2>2 DEF IInv, QueueInv
    <3>3. /\ Len(queue_') <= 2
          /\ \A i \in 1..Len(queue_') : i < Len(queue_') => queue_'[i] = "RESTORED"
          /\ Len(queue_') >= 2 => queue_'[2] = "RECOVER"
      BY <1>q, <2>2, <2>3
    <3> QED
      BY <2>1, <3>1, <3>2, <3>3 DEF QueueInv, Late
  <2>5. SentInv' /\ OwedInv' /\ WorkerInv' /\ RecoveringWasCommanded'
    BY <1>0, <1>1, <2>1, <1>r DEF IInv, SentInv, OwedInv, Owed, Posting, WorkerInv, Late,
      RecoveringWasCommanded
  <2> QED
    BY <2>4, <2>5 DEF IInv
<1>2. CASE fsm_ # "HEALTHY"
  BY <1>0, <1>2, ApplyFacts, CoreUnchanged DEF OnHeartbeatTimeout, RequestsRecovery, TypeOK, core
<1> QED
  BY <1>1, <1>2

\* A heartbeat notifies the worker only out of RECOVERING, where the recovery
\* it ends is the one under way (process_frames, the heartbeat branch).
LEMMA HeartbeatStep ==
  ASSUME TypeOK, IInv, HeartbeatFrame PROVE IInv'
<1>0. UNCHANGED <<reports_, active_, worker, report, commanded>>
  BY DEF HeartbeatFrame, NewFrame, ReadFrame, workerVars
<1>q. /\ queue_ \in Seq(Request) /\ Len(queue_) \in Nat
      /\ queue_ = <<>> <=> Len(queue_) <= 0
  BY QueueFacts
<1>1. CASE fsm_ = "RECOVERING"
  <2>1. fsm_' = "HEALTHY" /\ queue_' = Append(queue_, "RESTORED")
    BY <1>1, ApplyFacts DEF HeartbeatFrame, TypeOK
  <2>2. queue_ = <<>>
    BY <1>1 DEF IInv, QueueInv
  <2>3. Len(queue_') <= 1 /\ queue_'[1] = "RESTORED" /\ Len(queue_') \in Nat
        /\ queue_' # <<>> /\ Len(queue_') >= 1
    BY <1>q, <2>1, <2>2, AppendProperties DEF Request
  <2>4. ~RecoverQueued'
    BY <2>3 DEF RecoverQueued
  <2>5. QueueInv'
    BY <2>1, <2>3, <2>4 DEF QueueInv
  <2>6. SentInv' /\ OwedInv' /\ WorkerInv' /\ RecoveringWasCommanded'
    BY <1>0, <1>1, <2>1 DEF IInv, SentInv, OwedInv, Owed, Posting, WorkerInv,
                            Late, RecoveringWasCommanded
  <2> QED
    BY <2>5, <2>6 DEF IInv
<1>2. CASE fsm_ = "BOOTING"
  <2>1. fsm_' = "HEALTHY" /\ queue_' = queue_
    BY <1>2, ApplyFacts DEF HeartbeatFrame, TypeOK
  <2>2. queue_ = <<>> /\ ~active_
    BY <1>2 DEF IInv, QueueInv
  <2>3. QueueInv'
    BY <1>0, <1>q, <2>1, <2>2 DEF QueueInv, RecoverQueued
  <2>4. SentInv' /\ OwedInv' /\ WorkerInv' /\ RecoveringWasCommanded'
    BY <1>0, <1>2, <2>1 DEF IInv, SentInv, OwedInv, Owed, Posting, WorkerInv,
                            Late, RecoveringWasCommanded
  <2> QED
    BY <2>3, <2>4 DEF IInv
<1>3. CASE fsm_ \notin {"RECOVERING", "BOOTING"}
  <2>1. UNCHANGED core
    BY <1>0, <1>3, ApplyFacts DEF HeartbeatFrame, TypeOK, core
  <2> QED
    BY <2>1, CoreUnchanged
<1> QED
  BY <1>1, <1>2, <1>3

\* A fault event changes the health state alone, to DEGRADED or SAFE_MODE
\* (process_frames, the fault branch).
LEMMA FaultStep ==
  ASSUME TypeOK, IInv, FaultFrame PROVE IInv'
<1>1. UNCHANGED <<queue_, reports_, active_, worker, report, commanded>>
  BY DEF FaultFrame, NewFrame, ReadFrame, workerVars
<1>2. fsm_' \in Late \/ fsm_' = fsm_
  <2>1. fsm_ \in HealthState
    BY DEF TypeOK
  <2> QED
    BY <2>1, ApplyFacts DEF FaultFrame, Late
<1> QED
  BY <1>1, <1>2, LateStep, CoreUnchanged DEF core

\* Applying the oldest report.  Only SENT leaves the Late states, and then it was
\* the only recovery under way.
LEMMA DrainStep ==
  ASSUME TypeOK, IInv, DrainReport PROVE IInv'
<1>0. UNCHANGED <<queue_, active_, worker, report, commanded>>
  BY DEF DrainReport, workerVars
<1>r. reports_ \in Seq(Outcome) /\ Len(reports_) \in Nat /\ reports_ # <<>>
  BY QueueFacts DEF DrainReport, TypeOK
<1>1. /\ Len(reports_') = Len(reports_) - 1
      /\ \A i \in 1..Len(reports_') : reports_'[i] = reports_[i+1]
      /\ Head(reports_) = reports_[1] /\ Len(reports_) >= 1
      /\ Head(reports_) \in Outcome
  BY <1>r, HeadTailProperties DEF DrainReport
<1>2. Owed' = Owed - 1 /\ Owed \in Int
  BY <1>0, <1>r, <1>1 DEF Owed, Posting
<1>3. RecoverQueued' <=> RecoverQueued
  BY <1>0 DEF RecoverQueued
<1>4. WorkerInv'
  BY <1>0 DEF IInv, WorkerInv, Posting
<1>5. CASE Head(reports_) = "SENT" /\ fsm_ = "DEGRADED"
  <2>1. fsm_' = "RECOVERING"
    BY <1>5, ApplyFacts DEF DrainReport, ReportEffect, HealthState
  <2>2. /\ queue_ = <<>> /\ commanded /\ Owed <= 2
        /\ worker # "send" /\ ~(Posting /\ report = "SENT")
        /\ \A j \in 1..Len(reports_) : reports_[j] = "SENT" => j = 1
    BY <1>5, <1>1, <1>r DEF IInv, SentInv
  <2>3. QueueInv'
    BY <1>0, <2>1, <2>2, QueueFacts DEF QueueInv, RecoverQueued
  <2>4. SentInv'
    BY <1>0, <1>r, <1>1, <2>2 DEF SentInv, Posting
  <2>5. OwedInv' /\ RecoveringWasCommanded'
    BY <1>0, <1>2, <2>2 DEF OwedInv, RecoveringWasCommanded
  <2> QED
    BY <1>4, <2>3, <2>4, <2>5 DEF IInv
<1>6. CASE ~(Head(reports_) = "SENT" /\ fsm_ = "DEGRADED")
  <2>1. fsm_' \in Late \/ fsm_' = fsm_
    <3>1. fsm_ \in HealthState
      BY DEF TypeOK
    <3> QED
      BY <1>1, <1>6, <3>1, ApplyFacts DEF DrainReport, ReportEffect, Late, Outcome
  <2>2. QueueInv'
    BY <1>0, <1>2, <1>3, <2>1 DEF IInv, QueueInv, Late
  <2>3. SentInv'
    BY <1>0, <1>r, <1>1, <1>2, <2>1 DEF IInv, SentInv, Posting
  <2>4. OwedInv' /\ RecoveringWasCommanded'
    BY <1>0, <1>2, <2>1 DEF IInv, OwedInv, RecoveringWasCommanded, Late
  <2> QED
    BY <1>4, <2>2, <2>3, <2>4 DEF IInv
<1> QED
  BY <1>5, <1>6

\* Leaving its wait the worker changes no queue (the top of run()).
LEMMA WorkerWakeStep ==
  ASSUME TypeOK, IInv, WorkerWake PROVE IInv'
<1>1. /\ UNCHANGED <<fsm_, queue_, reports_, active_, report, commanded>>
      /\ worker = "idle" /\ worker' \in {"exit", "pop"}
  BY DEF WorkerWake, shared, loopSide, loopVars
<1>2. Owed' = Owed /\ (RecoverQueued' <=> RecoverQueued)
  BY <1>1 DEF Owed, Posting, RecoverQueued
<1> QED
  BY <1>1, <1>2 DEF IInv, WorkerInv, QueueInv, SentInv, OwedInv, Posting,
                    RecoveringWasCommanded

\* A popped RECOVER finds no recovery in progress and leaves the queue empty.
LEMMA PopRecoverStep ==
  ASSUME TypeOK, IInv, PopRecover PROVE IInv'
<1>0. /\ UNCHANGED <<fsm_, reports_, report, commanded>>
      /\ worker = "pop" /\ worker' = "send" /\ active_'
      /\ queue_' = Tail(queue_) /\ queue_ # <<>> /\ Head(queue_) = "RECOVER"
  BY DEF PopRecover, loopSide, loopVars
<1>q. queue_ \in Seq(Request) /\ Len(queue_) \in Nat /\ Len(queue_) >= 1
  BY <1>0, QueueFacts
<1>r. reports_ \in Seq(Outcome) /\ Len(reports_) \in Nat
  BY QueueFacts
<1>1. Len(queue_) <= 1
  <2>1. queue_[1] = "RECOVER"
    BY <1>0, <1>q
  <2>2. 1 < Len(queue_) => queue_[1] = "RESTORED"
    BY <1>q DEF IInv, QueueInv
  <2> QED
    BY <1>q, <2>1, <2>2
<1>2. RecoverQueued
  BY <1>0, <1>q, <1>1 DEF RecoverQueued
<1>3. fsm_ \in Late /\ Owed <= 1 /\ ~active_
  BY <1>q, <1>1, <1>2 DEF IInv, QueueInv
<1>4. Len(reports_) <= 1 /\ Owed' <= 2
  BY <1>0, <1>r, <1>3 DEF Owed, Posting
<1>5. queue_' = <<>> /\ Len(queue_') <= 0 /\ Len(queue_') \in Nat
  BY <1>0, <1>q, <1>1, HeadTailProperties, EmptySeq
<1>6. QueueInv'
  BY <1>0, <1>3, <1>5 DEF QueueInv, RecoverQueued, Late
<1>7. \A i \in 1..Len(reports_) : reports_[i] # "SENT"
  BY <1>0 DEF IInv, SentInv
<1>8. SentInv'
  BY <1>0, <1>3, <1>4, <1>5, <1>7 DEF SentInv, Posting
<1>9. WorkerInv' /\ OwedInv' /\ RecoveringWasCommanded'
  <2>1. Owed' <= 3
    BY <1>4, <1>r, <1>0 DEF Owed, Posting
  <2> QED
    BY <1>0, <1>3, <2>1 DEF IInv, WorkerInv, OwedInv, Posting, RecoveringWasCommanded, Late
<1> QED
  BY <1>6, <1>8, <1>9 DEF IInv

\* A RESTORED ends the recovery in progress, if there is one: what it is owed
\* moves from active_ to the report being posted.
LEMMA PopRestoredStep ==
  ASSUME TypeOK, IInv, PopRestored PROVE IInv'
<1>0. /\ UNCHANGED <<fsm_, reports_, commanded>>
      /\ worker = "pop" /\ active_' = FALSE
      /\ queue_' = Tail(queue_) /\ queue_ # <<>> /\ Head(queue_) = "RESTORED"
      /\ IF active_ THEN report' = "SUCCESS" /\ worker' = "post"
                    ELSE UNCHANGED <<report, worker>>
  BY DEF PopRestored, loopSide, loopVars
<1>q. queue_ \in Seq(Request) /\ Len(queue_) \in Nat /\ Len(queue_) >= 1
  BY <1>0, QueueFacts
<1>r. reports_ \in Seq(Outcome) /\ Len(reports_) \in Nat /\ active_ \in BOOLEAN
  BY QueueFacts
<1>1. /\ Len(queue_') = Len(queue_) - 1 /\ Len(queue_') \in Nat
      /\ \A i \in 1..Len(queue_') : queue_'[i] = queue_[i+1]
      /\ queue_' = <<>> <=> Len(queue_') <= 0
  <2>1. /\ queue_' \in Seq(Request)
        /\ Len(queue_') = Len(queue_) - 1
        /\ \A i \in 1..Len(queue_') : queue_'[i] = queue_[i+1]
    BY <1>0, <1>q, HeadTailProperties
  <2> QED
    BY <1>q, <2>1, EmptySeq
<1>2. Owed' = Owed
  BY <1>0, <1>r DEF Owed, Posting
<1>3. Len(queue_) <= 2
  BY DEF IInv, QueueInv
<1>4. RecoverQueued' => RecoverQueued
  BY <1>0, <1>q, <1>1 DEF RecoverQueued
<1>5. QueueInv'
  BY <1>0, <1>q, <1>1, <1>2, <1>3, <1>4 DEF IInv, QueueInv
<1>6. SentInv'
  BY <1>0, <1>2 DEF IInv, SentInv, Posting
<1>7. WorkerInv' /\ OwedInv' /\ RecoveringWasCommanded'
  BY <1>0, <1>2 DEF IInv, WorkerInv, OwedInv, Posting, RecoveringWasCommanded
<1> QED
  BY <1>5, <1>6, <1>7 DEF IInv

\* A recovery still in progress when the queue is empty is reported as failed;
\* the worker goes to sleep only without one.
LEMMA CheckDeadlineStep ==
  ASSUME TypeOK, IInv, CheckDeadline PROVE IInv'
<1>0. /\ UNCHANGED <<fsm_, queue_, reports_, commanded>>
      /\ worker = "pop" /\ active_' = FALSE
      /\ IF active_ THEN report' = "FAILED" /\ worker' = "post"
                    ELSE worker' = "idle" /\ UNCHANGED report
  BY DEF CheckDeadline, shared, loopSide, loopVars
<1>r. Len(reports_) \in Nat /\ active_ \in BOOLEAN
  BY QueueFacts
<1>2. Owed' = Owed /\ (RecoverQueued' <=> RecoverQueued)
  BY <1>0, <1>r DEF Owed, Posting, RecoverQueued
<1>5. QueueInv'
  BY <1>0, <1>2 DEF IInv, QueueInv
<1>6. SentInv'
  BY <1>0, <1>2 DEF IInv, SentInv, Posting
<1>7. WorkerInv' /\ OwedInv' /\ RecoveringWasCommanded'
  BY <1>0, <1>2 DEF IInv, WorkerInv, OwedInv, Posting, RecoveringWasCommanded
<1> QED
  BY <1>5, <1>6, <1>7 DEF IInv

\* Whether the device took the command decides if SENT is reported (run(),
\* outside the lock).
LEMMA SendCommandStep ==
  ASSUME TypeOK, IInv, SendCommand PROVE IInv'
<1>0. /\ UNCHANGED <<fsm_, queue_, reports_, active_>>
      /\ worker = "send"
      /\ \/ report' = "SENT" /\ worker' = "post" /\ commanded'
         \/ worker' = "pop" /\ UNCHANGED <<report, commanded>>
  BY DEF SendCommand, loopSide, loopVars
<1>r. Len(reports_) \in Nat /\ active_ \in BOOLEAN
  BY QueueFacts
<1>1. queue_ = <<>> /\ fsm_ \in Late /\ Len(reports_) <= 1 /\ active_
  BY <1>0 DEF IInv, SentInv, WorkerInv
<1>2. \A i \in 1..Len(reports_) : reports_[i] # "SENT"
  BY <1>0 DEF IInv, SentInv
<1>3. Owed' <= 3
  BY <1>0, <1>r, <1>1 DEF Owed, Posting
<1>5. QueueInv'
  BY <1>0, <1>1 DEF IInv, QueueInv, RecoverQueued, Late
<1>6. SentInv'
  BY <1>0, <1>1, <1>2 DEF SentInv, Posting
<1>7. WorkerInv' /\ OwedInv' /\ RecoveringWasCommanded'
  BY <1>0, <1>1, <1>3 DEF IInv, WorkerInv, OwedInv, Posting,
                          RecoveringWasCommanded, Late
<1> QED
  BY <1>5, <1>6, <1>7 DEF IInv

\* Posting moves the report from the worker to the reports queue, which has
\* room for it (post_recovery_report).
LEMMA PostReportStep ==
  ASSUME TypeOK, IInv, PostReport PROVE IInv'
<1>0. /\ UNCHANGED <<fsm_, queue_, active_, report, commanded>>
      /\ worker = "post" /\ worker' = "wake"
      /\ reports_' = Append(reports_, report)
  BY DEF PostReport, loopSide, loopVars
<1>r. reports_ \in Seq(Outcome) /\ Len(reports_) \in Nat /\ active_ \in BOOLEAN
      /\ report \in Outcome
  BY <1>0, QueueFacts DEF TypeOK
<1>1. /\ Len(reports_') = Len(reports_) + 1
      /\ \A i \in 1..Len(reports_) : reports_'[i] = reports_[i]
      /\ reports_'[Len(reports_) + 1] = report
  BY <1>0, <1>r, AppendProperties
<1>2. Owed' = Owed /\ (RecoverQueued' <=> RecoverQueued)
  BY <1>0, <1>1, <1>r DEF Owed, Posting, RecoverQueued
<1>3. QueueInv'
  BY <1>0, <1>2 DEF IInv, QueueInv
<1>4. ASSUME report = "SENT" PROVE SentInv'
  <2>1. /\ queue_ = <<>> /\ fsm_ \in Late /\ commanded /\ Len(reports_) <= 1
        /\ active_
    BY <1>0, <1>4 DEF IInv, SentInv, WorkerInv, Posting
  <2>2. \A i \in 1..Len(reports_) : reports_[i] # "SENT"
    BY <1>0, <1>4 DEF IInv, SentInv, Posting
  <2>3. Owed' <= Len(reports_) + 2
    BY <1>0, <1>1, <1>r, <2>1 DEF Owed, Posting
  <2> QED
    BY <1>0, <1>1, <1>r, <2>1, <2>2, <2>3 DEF SentInv, Posting
<1>5. ASSUME report # "SENT" PROVE SentInv'
  BY <1>0, <1>1, <1>2, <1>5, <1>r DEF IInv, SentInv, Posting
<1>7. WorkerInv' /\ OwedInv' /\ RecoveringWasCommanded'
  BY <1>0, <1>2 DEF IInv, WorkerInv, OwedInv, Posting, RecoveringWasCommanded
<1> QED
  BY <1>3, <1>4, <1>5, <1>7 DEF IInv

\* Writing the eventfd changes no queue (post_recovery_report's end).
LEMMA WakeLoopStep ==
  ASSUME TypeOK, IInv, WakeLoop PROVE IInv'
<1>0. /\ UNCHANGED <<fsm_, queue_, reports_, active_, commanded>>
      /\ worker = "wake"
      /\ worker' = IF report = "FAILED" THEN "idle" ELSE "pop"
  BY DEF WakeLoop, loopSide, loopVars
<1>1. Owed' = Owed /\ (RecoverQueued' <=> RecoverQueued)
  BY <1>0 DEF Owed, Posting, RecoverQueued
<1> QED
  BY <1>0, <1>1 DEF IInv, WorkerInv, QueueInv, SentInv, OwedInv, Posting,
                    RecoveringWasCommanded

\* IInv is inductive: the steps of Next, one by one.
LEMMA IInvStep == TypeOK /\ TypeOK' /\ IInv /\ [Next]_vars => IInv'
<1> SUFFICES ASSUME TypeOK, TypeOK', IInv, [Next]_vars PROVE IInv'
  OBVIOUS
<1>1. CASE Environment
  BY <1>1, CoreUnchanged
     DEF Environment, DeviceDeliver, LinkdTake, TimerExpires, DeadlinePasses,
         Terminate, loopVars, workerVars, core
<1>2. CASE EpollWait \/ ReadWake \/ SwapReports \/ DrainDone \/ StopWorker \/ JoinWorker
  BY <1>2, CoreUnchanged
     DEF EpollWait, ReadWake, SwapReports, DrainDone, StopWorker, JoinWorker,
         workerVars, core
<1>3. CASE BadFrame \/ DuplicateFrame \/ OtherFrame
  BY <1>3, CoreUnchanged
     DEF BadFrame, DuplicateFrame, OtherFrame, NewFrame, ReadFrame, workerVars, core
<1>4. CASE UNCHANGED vars
  BY <1>4, CoreUnchanged DEF vars, core
<1> QED
  BY <1>1, <1>2, <1>3, <1>4, TimeoutStep, HeartbeatStep, FaultStep, DrainStep,
     WorkerWakeStep, PopRecoverStep, PopRestoredStep, CheckDeadlineStep,
     SendCommandStep, PostReportStep, WakeLoopStep
     DEF Next, EventLoop, HandleReadable, RecoveryWorker

\* What IInv says of the two threads' queues holds in every reachable state.
THEOREM Inductive == Spec => []IInv
<1>1. Init => IInv
  <2> SUFFICES ASSUME Init PROVE IInv
    OBVIOUS
  <2>1. Len(queue_) <= 0 /\ Len(reports_) <= 0 /\ Len(queue_) \in Nat /\ Len(reports_) \in Nat
    BY EmptySeq DEF Init
  <2>2. Owed <= 1 /\ Owed <= 3
    BY <2>1 DEF Init, Owed, Posting
  <2> QED
    BY <2>1, <2>2 DEF Init, IInv, WorkerInv, QueueInv, SentInv, OwedInv, Posting,
                      RecoverQueued, RecoveringWasCommanded
<1> QED
  BY <1>1, IInvStep, TypeCorrect, PTL DEF Spec

\* The two deques, which the code does not limit, never hold more than two
\* requests and three reports (request_recovery, notify_heartbeat_restored,
\* post_recovery_report).
THEOREM QueuesBounded == Spec => []BoundedQueues
<1>1. TypeOK /\ IInv => BoundedQueues
  <2> SUFFICES ASSUME TypeOK, IInv PROVE BoundedQueues
    OBVIOUS
  <2>1. reports_ \in Seq(Outcome) /\ Len(reports_) \in Nat /\ active_ \in BOOLEAN
    BY QueueFacts
  <2>2. Len(reports_) <= 3
    <3>1. Owed <= 3
      BY DEF IInv, OwedInv
    <3>2. Owed \in Int /\ Len(reports_) <= Owed
      <4>1. \A n \in Nat, p, a \in {0, 1} : n + p + a \in Int /\ n <= n + p + a
        OBVIOUS
      <4> QED
        BY <2>1, <4>1, Zenon DEF Owed
    <3> QED
      BY <2>1, <3>1, <3>2
  <2> QED
    BY <2>2 DEF IInv, QueueInv, BoundedQueues
<1> QED
  BY <1>1, TypeCorrect, Inductive, PTL

\* The worker never takes a RECOVER while another recovery is unanswered (run()).
THEOREM RecoverySerial == Spec => []NoRecoveryOverwritten
<1>1. TypeOK /\ IInv => NoRecoveryOverwritten
  <2> SUFFICES ASSUME TypeOK, IInv, worker = "pop", queue_ # <<>>,
                      Head(queue_) = "RECOVER"
               PROVE  ~active_
    BY DEF NoRecoveryOverwritten
  <2>q. queue_ \in Seq(Request) /\ Len(queue_) \in Nat /\ Len(queue_) >= 1
    BY QueueFacts
  <2>1. queue_[1] = "RECOVER"
    BY <2>q
  <2>2. Len(queue_) <= 1
    BY <2>q, <2>1 DEF IInv, QueueInv
  <2>3. RecoverQueued
    BY <2>q, <2>1, <2>2 DEF RecoverQueued
  <2> QED
    BY <2>q, <2>2, <2>3 DEF IInv, QueueInv
<1> QED
  BY <1>1, TypeCorrect, Inductive, PTL

\* The health state says RECOVERING only after the command of the episode was
\* written (drain_recovery_reports applies SENT).
THEOREM RecoveringCommanded == Spec => []RecoveringWasCommanded
<1>1. IInv => RecoveringWasCommanded
  BY DEF IInv
<1> QED
  BY <1>1, Inductive, PTL
===============================================================================
