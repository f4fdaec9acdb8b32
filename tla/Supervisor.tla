------------------------------ MODULE Supervisor ------------------------------
(***************************************************************************)
(* safety-supervisord in live mode: the epoll event loop, the recovery     *)
(* worker thread it talks to through two queues, and run_live's shutdown.  *)
(*                                                                         *)
(* Two threads.  The event loop owns the health state machine, the timerfd *)
(* and the duplicate table; the worker owns `active_`.  They share queue_  *)
(* (under mtx_), reports_ (under report_mtx_) and the eventfd.  A step is  *)
(* what one thread does between two points where the other can interfere.  *)
(* A definition with an underscore and a suffix (SendCommand_Unchecked) is *)
(* a variant with a plausible mistake; the specification does not use it.  *)
(*                                                                         *)
(* The driver is seen through its character device only: reads take one    *)
(* frame from rx_fifo, writes put one in tx_fifo or fail when it is full.  *)
(***************************************************************************)
EXTENDS HealthFsm, Integers, Sequences

CONSTANTS
  Frames,   \* the frames the device may hand to read()
  RxDepth,  \* how many frames the device holds for the supervisor
  TxDepth,  \* how many frames it holds for the link adapter
  Seqs      \* the sequence numbers of received frames (0..65535 in the code)

\* A frame as process_frames sees it: its validation result, its duplicate
\* key and, in a fault event, the severity.
FrameType == {"HEARTBEAT", "FAULT_EVENT", "OTHER"}
Frame == [type: FrameType, seq: Seqs, ok: BOOLEAN, severity: 0..2]

ASSUME SupervisorAssumption ==
  /\ RxDepth \in Nat \ {0}
  /\ TxDepth \in Nat \ {0}
  /\ Frames \subseteq Frame

VARIABLES
  rx_fifo,         \* device: frames waiting for read()
  tx_len,          \* device: how many written frames linkd has not taken yet
  fsm_,            \* event loop: state of the health state machine
  timer_,          \* the timerfd: "armed", or "expired" (readable)
  wake_,           \* the eventfd is readable
  seen_,           \* the keys DuplicateDetector has recorded
  events,          \* what is left of the last epoll_wait's result
  loop,            \* control point of the event loop thread
  reports_,        \* the worker's reports that the loop has not applied yet
  drained,         \* how many of them the loop has swapped into its local deque
  running,         \* g_running, cleared by a signal or at the end of the run
  queue_,          \* the worker's request queue
  stopping_,       \* RecoveryWorker::stop was called
  active_,         \* a recovery is in progress
  deadline_passed, \* and the clock has reached its deadline_at_ms_
  worker,          \* control point of the worker thread
  report,          \* the report the worker is posting
  commanded        \* history: the last requested recovery's command was written

devVars    == <<rx_fifo, tx_len>>
loopVars   == <<fsm_, timer_, seen_, events, loop, drained>>
workerVars == <<active_, deadline_passed, worker, report>>
vars == <<rx_fifo, tx_len, fsm_, timer_, wake_, seen_, events, loop,
          reports_, drained, running, queue_, stopping_, active_,
          deadline_passed, worker, report, commanded>>

\* The sequence numbers and times that requests and reports also carry are
\* copied into frames and log lines only.
Request == {"RECOVER", "RESTORED"}
Outcome == {"SENT", "SUCCESS", "FAILED"}

LoopControl   == {"run", "swap", "drain", "join", "done"}
WorkerControl == {"idle", "pop", "send", "post", "wake", "exit"}

\* Each thread's pieces of state have the types the source declares, the timer is
\* never disarmed, the worker holds a report exactly while it posts one, and the
\* queues of the device stay within their depth.
TypeOK ==
  /\ rx_fifo \in Seq(Frames) /\ Len(rx_fifo) <= RxDepth
  /\ tx_len \in 0..TxDepth
  /\ fsm_ \in HealthState
  /\ timer_ \in {"armed", "expired"}
  /\ wake_ \in BOOLEAN
  /\ seen_ \subseteq FrameType \X Seqs
  /\ events \subseteq {"device", "timer", "wake"}
  /\ loop \in LoopControl
  /\ reports_ \in Seq(Outcome)
  /\ drained \in 0..Len(reports_)
  /\ running \in BOOLEAN
  /\ queue_ \in Seq(Request)
  /\ stopping_ \in BOOLEAN
  /\ active_ \in BOOLEAN
  /\ deadline_passed \in BOOLEAN
  /\ worker \in WorkerControl
  /\ report \in IF worker \in {"post", "wake"} THEN Outcome ELSE {"NONE"}
  /\ commanded \in BOOLEAN

\* run_live after setup() and recovery.start(): the timer is armed, the
\* worker waits, nothing has been received.
Init ==
  /\ rx_fifo = <<>> /\ tx_len = 0
  /\ fsm_ = "BOOTING"
  /\ timer_ = "armed"
  /\ wake_ = FALSE
  /\ seen_ = {}
  /\ events = {}
  /\ loop = "run"
  /\ reports_ = <<>> /\ drained = 0
  /\ running = TRUE
  /\ queue_ = <<>> /\ stopping_ = FALSE
  /\ active_ = FALSE
  /\ deadline_passed = FALSE
  /\ worker = "idle"
  /\ report = "NONE"
  /\ commanded = FALSE

-------------------------------------------------------------------------------
(* The environment: the device's other end, the clock, and signals. *)

DeviceDeliver ==
  /\ Len(rx_fifo) < RxDepth
  /\ \E f \in Frames : rx_fifo' = Append(rx_fifo, f)
  /\ UNCHANGED <<tx_len, wake_, reports_, running, queue_, stopping_, commanded>>
  /\ UNCHANGED <<loopVars, workerVars>>

LinkdTake ==
  /\ tx_len > 0
  /\ tx_len' = tx_len - 1
  /\ UNCHANGED <<rx_fifo, wake_, reports_, running, queue_, stopping_, commanded>>
  /\ UNCHANGED <<loopVars, workerVars>>

TimerExpires ==
  /\ timer_ = "armed"
  /\ timer_' = "expired"
  /\ UNCHANGED <<fsm_, seen_, events, loop, drained>>
  /\ UNCHANGED <<devVars, workerVars>>
  /\ UNCHANGED <<wake_, reports_, running, queue_, stopping_, commanded>>

DeadlinePasses ==
  /\ active_ /\ ~deadline_passed
  /\ deadline_passed' = TRUE
  /\ UNCHANGED <<active_, worker, report>>
  /\ UNCHANGED <<devVars, loopVars>>
  /\ UNCHANGED <<wake_, reports_, running, queue_, stopping_, commanded>>

Terminate ==
  /\ running
  /\ running' = FALSE
  /\ UNCHANGED <<devVars, loopVars, workerVars>>
  /\ UNCHANGED <<wake_, reports_, queue_, stopping_, commanded>>

Environment ==
  \/ DeviceDeliver
  \/ LinkdTake
  \/ TimerExpires
  \/ DeadlinePasses
  \/ Terminate

-------------------------------------------------------------------------------
(* The event loop. *)

\* DeviceClient::write_all: the driver refuses the frame when its queue is full.
CanSend == tx_len < TxDepth
Send == tx_len' = IF CanSend THEN tx_len + 1 ELSE tx_len

Ready == (IF rx_fifo # <<>>     THEN {"device"} ELSE {}) \cup
         (IF timer_ = "expired" THEN {"timer"}  ELSE {}) \cup
         (IF wake_              THEN {"wake"}   ELSE {})

\* epoll_wait returns every ready descriptor; their order is not fixed, so
\* the handlers below take the members of `events` in any order.
EpollWait ==
  /\ loop = "run" /\ events = {} /\ running
  /\ Ready # {}
  /\ events' = Ready
  /\ UNCHANGED <<fsm_, timer_, seen_, loop, drained>>
  /\ UNCHANGED <<devVars, workerVars>>
  /\ UNCHANGED <<wake_, reports_, running, queue_, stopping_, commanded>>

\* Only the timeout that takes the supervisor out of HEALTHY asks for a recovery.
RequestsRecovery_EveryTimeout == TRUE
RequestsRecovery == Valid(fsm_, "HEARTBEAT_TIMEOUT") /\ fsm_ = "HEALTHY"

\* on_heartbeat_timeout, called whatever read() of the timerfd returned.
OnHeartbeatTimeout ==
  /\ loop = "run" /\ "timer" \in events
  /\ events' = events \ {"timer"}
  /\ fsm_' = Apply(fsm_, "HEARTBEAT_TIMEOUT")
  /\ IF RequestsRecovery
       THEN /\ queue_' = Append(queue_, "RECOVER")
            /\ commanded' = FALSE
       ELSE UNCHANGED <<queue_, commanded>>
  /\ timer_' = "armed"
  /\ UNCHANGED <<seen_, loop, drained>>
  /\ UNCHANGED <<devVars, workerVars>>
  /\ UNCHANGED <<wake_, reports_, running, stopping_>>

ReadFrame_UntilEmpty ==
  /\ loop = "run" /\ "device" \in events
  /\ rx_fifo # <<>>
  /\ rx_fifo' = Tail(rx_fifo)
  /\ UNCHANGED <<events, loop, drained, wake_, reports_, running, stopping_>>
  /\ UNCHANGED workerVars

\* handle_readable: one blocking read() returns one frame.  The disjuncts of
\* HandleReadable are the branches of process_frames for that frame.
ReadFrame ==
  /\ loop = "run" /\ "device" \in events
  /\ rx_fifo # <<>>
  /\ events'  = events \ {"device"}
  /\ rx_fifo' = Tail(rx_fifo)
  /\ UNCHANGED <<loop, drained, wake_, reports_, running, stopping_>>
  /\ UNCHANGED workerVars

Received == Head(rx_fifo)
Key(f) == <<f.type, f.seq>>

\* A frame that fails validation is answered with a NACK and never recorded
\* as seen, so that its retransmission is not a duplicate.
BadFrame ==
  /\ ReadFrame
  /\ ~Received.ok
  /\ Send              \* a NACK
  /\ UNCHANGED <<fsm_, timer_, seen_, queue_, commanded>>

DuplicateFrame ==
  /\ ReadFrame
  /\ Received.ok /\ Key(Received) \in seen_
  /\ UNCHANGED <<fsm_, timer_, seen_, tx_len, queue_, commanded>>

NewFrame(type) ==
  /\ ReadFrame
  /\ Received.ok /\ Received.type = type
  /\ Key(Received) \notin seen_
  /\ seen_' = seen_ \cup {Key(Received)}

HeartbeatFrame ==
  /\ NewFrame("HEARTBEAT")
  /\ timer_' = "armed"
  /\ IF fsm_ = "RECOVERING"
       THEN /\ fsm_' = Apply(fsm_, "HEARTBEAT_RESTORED")
            /\ queue_' = Append(queue_, "RESTORED")
       ELSE /\ fsm_' = Apply(fsm_, "HEARTBEAT_OK")
            /\ UNCHANGED queue_
  /\ Send              \* an ACK
  /\ UNCHANGED commanded

\* A fault that is not critical degrades a HEALTHY supervisor, and does no more.
FaultFrame ==
  /\ NewFrame("FAULT_EVENT")
  /\ fsm_' = IF Received.severity >= 2    THEN Apply(fsm_, "CRITICAL_FAULT")
             ELSE IF fsm_ = "HEALTHY"     THEN Apply(fsm_, "HEARTBEAT_TIMEOUT")
             ELSE fsm_
  /\ UNCHANGED <<timer_, tx_len, queue_, commanded>>

\* Telemetry, ACK, NACK and recovery report frames are only logged.
OtherFrame ==
  /\ NewFrame("OTHER")
  /\ UNCHANGED <<fsm_, timer_, tx_len, queue_, commanded>>

HandleReadable ==
  \/ BadFrame
  \/ DuplicateFrame
  \/ HeartbeatFrame
  \/ FaultFrame
  \/ OtherFrame

\* The eventfd is read before the reports are taken.
ReadWake ==
  /\ loop = "run" /\ "wake" \in events
  /\ events' = events \ {"wake"}
  /\ wake_' = FALSE
  /\ loop' = "swap"
  /\ UNCHANGED <<fsm_, timer_, seen_, drained>>
  /\ UNCHANGED <<devVars, workerVars>>
  /\ UNCHANGED <<reports_, running, queue_, stopping_, commanded>>

SwapReports ==
  /\ loop = "swap"
  /\ drained' = Len(reports_)
  /\ loop' = "drain"
  /\ UNCHANGED <<fsm_, timer_, seen_, events>>
  /\ UNCHANGED <<devVars, workerVars>>
  /\ UNCHANGED <<wake_, reports_, running, queue_, stopping_, commanded>>

ReportEffect_FailureIgnored(state, outcome) ==
  IF outcome = "SENT" THEN Apply(state, "RECOVERY_SENT") ELSE state

\* The event a report drives; SUCCESS is only logged.
ReportEffect(state, outcome) ==
  CASE outcome = "SENT"   -> Apply(state, "RECOVERY_SENT")
    [] outcome = "FAILED" -> Apply(state, "RECOVERY_FAILED")
    [] OTHER              -> state

DrainReport ==
  /\ loop = "drain" /\ drained > 0
  /\ fsm_' = ReportEffect(fsm_, Head(reports_))
  /\ reports_' = Tail(reports_)
  /\ drained' = drained - 1
  /\ UNCHANGED <<timer_, seen_, events, loop>>
  /\ UNCHANGED <<devVars, workerVars>>
  /\ UNCHANGED <<wake_, running, queue_, stopping_, commanded>>

DrainDone_ReadsWakeAgain ==
  /\ loop = "drain" /\ drained = 0
  /\ loop' = "run"
  /\ wake_' = FALSE
  /\ UNCHANGED <<fsm_, timer_, seen_, events, drained>>
  /\ UNCHANGED <<devVars, workerVars>>
  /\ UNCHANGED <<reports_, running, queue_, stopping_, commanded>>

DrainDone ==
  /\ loop = "drain" /\ drained = 0
  /\ loop' = "run"
  /\ UNCHANGED <<fsm_, timer_, seen_, events, drained>>
  /\ UNCHANGED <<devVars, workerVars>>
  /\ UNCHANGED <<wake_, reports_, running, queue_, stopping_, commanded>>

\* run() returns once `running` is clear; run_live then calls recovery.stop(),
\* which raises stopping_ and joins the worker.
StopWorker ==
  /\ loop = "run" /\ events = {} /\ ~running
  /\ stopping_' = TRUE
  /\ loop' = "join"
  /\ UNCHANGED <<fsm_, timer_, seen_, events, drained>>
  /\ UNCHANGED <<devVars, workerVars>>
  /\ UNCHANGED <<wake_, reports_, running, queue_, commanded>>

JoinWorker ==
  /\ loop = "join" /\ worker = "exit"
  /\ loop' = "done"
  /\ UNCHANGED <<fsm_, timer_, seen_, events, drained>>
  /\ UNCHANGED <<devVars, workerVars>>
  /\ UNCHANGED <<wake_, reports_, running, queue_, stopping_, commanded>>

EventLoop ==
  \/ EpollWait
  \/ OnHeartbeatTimeout
  \/ HandleReadable
  \/ ReadWake
  \/ SwapReports
  \/ DrainReport
  \/ DrainDone
  \/ StopWorker
  \/ JoinWorker

-------------------------------------------------------------------------------
(* The recovery worker. *)

shared == <<tx_len, wake_, reports_, queue_, commanded>>
loopSide == <<rx_fifo, loopVars, running, stopping_>>

\* The top of run()'s loop.  With a recovery in progress the worker sleeps in
\* wait_until(), which returns at the deadline or on any notification; with
\* none it sleeps until there is a request or stop() is called.
WorkerShouldWake_NoStop == queue_ # <<>> \/ (active_ /\ deadline_passed)
WorkerShouldWake == stopping_ \/ queue_ # <<>> \/ (active_ /\ deadline_passed)

WorkerWake ==
  /\ worker = "idle"
  /\ WorkerShouldWake
  /\ worker' = IF stopping_ THEN "exit" ELSE "pop"
  /\ UNCHANGED <<active_, deadline_passed, report>>
  /\ UNCHANGED <<shared, loopSide>>

PopRecover ==
  /\ worker = "pop" /\ queue_ # <<>> /\ Head(queue_) = "RECOVER"
  /\ queue_' = Tail(queue_)
  /\ active_' = TRUE
  /\ deadline_passed' = FALSE
  /\ worker' = "send"
  /\ UNCHANGED <<report, tx_len, wake_, reports_, commanded>>
  /\ UNCHANGED loopSide

PopRestored_KeepsActive ==
  /\ worker = "pop" /\ queue_ # <<>> /\ Head(queue_) = "RESTORED"
  /\ queue_' = Tail(queue_)
  /\ IF active_
       THEN /\ report' = "SUCCESS"
            /\ worker' = "post"
       ELSE UNCHANGED <<report, worker>>
  /\ UNCHANGED <<active_, deadline_passed, tx_len, wake_, reports_, commanded>>
  /\ UNCHANGED loopSide

\* A RESTORED that finds no recovery in progress is dropped.
PopRestored ==
  /\ worker = "pop" /\ queue_ # <<>> /\ Head(queue_) = "RESTORED"
  /\ queue_' = Tail(queue_)
  /\ active_' = FALSE
  /\ IF active_
       THEN /\ report' = "SUCCESS"
            /\ worker' = "post"
       ELSE UNCHANGED <<report, worker>>
  /\ deadline_passed' = IF active_ THEN FALSE ELSE deadline_passed
  /\ UNCHANGED <<tx_len, wake_, reports_, commanded>>
  /\ UNCHANGED loopSide

\* The request queue is empty: a recovery still in progress is reported as
\* failed, with no look at the deadline; then the loop starts over.
CheckDeadline ==
  /\ worker = "pop" /\ queue_ = <<>>
  /\ active_' = FALSE
  /\ IF active_
       THEN /\ report' = "FAILED"
            /\ worker' = "post"
       ELSE /\ worker' = "idle"
            /\ UNCHANGED report
  /\ deadline_passed' = FALSE
  /\ UNCHANGED <<shared, loopSide>>

SendCommand_Unchecked ==
  /\ worker = "send"
  /\ Send
  /\ report' = "SENT"
  /\ worker' = "post"
  /\ commanded' = CanSend
  /\ UNCHANGED <<active_, deadline_passed, wake_, reports_, queue_>>
  /\ UNCHANGED loopSide

\* Outside the lock: REQUEST_RECOVERY is written, and SENT is reported if
\* the device took it.
SendCommand ==
  /\ worker = "send"
  /\ Send
  /\ IF CanSend
       THEN /\ report' = "SENT"
            /\ worker' = "post"
            /\ commanded' = TRUE
       ELSE /\ worker' = "pop"
            /\ UNCHANGED <<report, commanded>>
  /\ UNCHANGED <<active_, deadline_passed, wake_, reports_, queue_>>
  /\ UNCHANGED loopSide

\* post_recovery_report: the report is queued, then the eventfd is written.
PostReport ==
  /\ worker = "post"
  /\ reports_' = Append(reports_, report)
  /\ worker' = "wake"
  /\ UNCHANGED <<active_, deadline_passed, report>>
  /\ UNCHANGED <<tx_len, wake_, queue_, commanded>>
  /\ UNCHANGED loopSide

WakeLoop ==
  /\ worker = "wake"
  /\ wake_' = TRUE
  /\ worker' = IF report = "FAILED" THEN "idle" ELSE "pop"
  /\ report' = "NONE"
  /\ UNCHANGED <<active_, deadline_passed>>
  /\ UNCHANGED <<tx_len, reports_, queue_, commanded>>
  /\ UNCHANGED loopSide

RecoveryWorker ==
  \/ WorkerWake
  \/ PopRecover
  \/ PopRestored
  \/ CheckDeadline
  \/ SendCommand
  \/ PostReport
  \/ WakeLoop

-------------------------------------------------------------------------------
Next == Environment \/ EventLoop \/ RecoveryWorker

Spec == Init /\ [][Next]_vars

\* Both threads keep being scheduled; nothing is assumed of the environment.
FairSpec == Spec /\ WF_vars(EventLoop) /\ WF_vars(RecoveryWorker)
-------------------------------------------------------------------------------
(* Safety. *)

InQueue(kind) == \E i \in DOMAIN queue_ : queue_[i] = kind

\* The deques between the threads have no limit in the code.  The protocol the
\* two threads follow limits them: at most a RESTORED and a RECOVER wait for
\* the worker, and at most three reports wait for the loop.
BoundedQueues ==
  /\ Len(queue_) <= 2
  /\ Len(reports_) <= 3

\* When the worker takes a new request (run(), the RECOVER branch), the
\* recovery before it has been answered: active_seq_ is never overwritten.
NoRecoveryOverwritten ==
  worker = "pop" /\ queue_ # <<>> /\ Head(queue_) = "RECOVER" => ~active_

\* A report is never stranded: while one waits outside the loop's local deque,
\* the eventfd is readable, or the worker is about to write it, or the loop has
\* read it and is about to take the reports.
NoLostWakeup ==
  Len(reports_) > drained => wake_ \/ worker = "wake" \/ loop = "swap"

\* The loop opens the device without O_NONBLOCK, so a read() of an empty device
\* would stop timeout detection: a frame is there whenever a read is due.
ReadNeverBlocks == "device" \in events => rx_fifo # <<>>

\* The health state is RECOVERING only while the REQUEST_RECOVERY of the
\* current episode has really been written to the device.
RecoveringWasCommanded == fsm_ = "RECOVERING" => commanded
-------------------------------------------------------------------------------
(* Liveness, under FairSpec. *)

\* A recovery that was requested is answered while the supervisor runs: the
\* health state leaves DEGRADED, whether the command could be written or not.
\* The answer takes both threads, both queues and the eventfd.
RequestAnswered == InQueue("RECOVER") ~> fsm_ # "DEGRADED" \/ ~running

\* After a signal run_live comes to its end, whatever the worker is doing: the
\* pending events are handled, stop() wakes the worker and join() returns.
ShutdownCompletes == ~running ~> loop = "done" /\ worker = "exit"

-------------------------------------------------------------------------------
(* What comments and documents of the repository say, and the code does not. *)

\* recovery_worker.h: the request starts a recovery deadline, and FAILED is a
\* recovery that timed out or failed.  So one whose command was written is
\* reported as failed only once its deadline has passed.
FailedAfterDeadline ==
  [][report # "FAILED" /\ report' = "FAILED" /\ commanded => deadline_passed]_vars

\* recovery_worker.h: when the state machine enters DEGRADED, the event loop
\* asks the worker for a recovery.
DegradedRequestsRecovery ==
  [][fsm_ # "DEGRADED" /\ fsm_' = "DEGRADED"
       => queue_' = Append(queue_, "RECOVER")]_vars

\* recovery_worker.h: the worker first reports SENT and afterwards how that
\* recovery ended.  So no recovery is declared failed while the request for it
\* still waits in the worker's queue.
FailureOfOwnRecovery ==
  [][fsm_ # "FAILED" /\ fsm_' = "FAILED" => ~InQueue("RECOVER")]_vars
===============================================================================
