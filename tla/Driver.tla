-------------------------------- MODULE Driver --------------------------------
(***************************************************************************)
(* The safety_copro character device: the RX and TX kfifos, the heartbeat  *)
(* watchdog (hrtimer), the recovery work item, the calls processes make    *)
(* on /dev/safety_copro, and loading and unloading the module.             *)
(*                                                                         *)
(* Every field is read and written under dev->lock, so a step is what one  *)
(* context does under one acquisition of the lock, or one call into the    *)
(* kernel (wake_up, hrtimer_start, schedule_work).  Between two steps the  *)
(* other processes, the timer callback and the work item may run.          *)
(*                                                                         *)
(* Left out: the statistics (counters, high watermark, last fault), the    *)
(* timeline and the ioctls that read or reset them, which nothing else in  *)
(* the driver looks at; synth_seq; the timeout's value; and calls that     *)
(* return an error without changing the fields kept here.                  *)
(* A definition with an underscore and a suffix (Rearm_NotDuringRecovery)  *)
(* is a variant with a plausible mistake; the specification does not use   *)
(* it.                                                                     *)
(***************************************************************************)
EXTENDS Integers, Sequences

CONSTANTS
  Callers,  \* the processes that have the device open
  Depth     \* capacity of each kfifo (fifo_depth rounded up)

ASSUME DriverAssumption ==
  /\ Depth \in Nat \ {0}
  /\ "timer" \notin Callers
  /\ "work" \notin Callers

\* The contexts the driver's code runs in: system calls, hb_timer_fn and
\* recovery_work_fn.
Contexts == Callers \cup {"timer", "work"}

\* HEARTBEAT is one that validated; OTHER is any other frame from linkd,
\* one with a bad checksum included.  The last two the driver makes itself.
LinkFrame == {"HEARTBEAT", "OTHER"}
Frame == LinkFrame \cup {"FAULT_EVENT", "RECOVERY_REPORT"}

LinkState == {"BOOTING", "HB_OK", "HB_TIMEOUT", "RECOVERING"}

\* Where a context is: inside the handler, or blocked on a wait queue.
Pc == {"idle", "enter", "push", "wake", "heard", "rearm", "schedule",
       "wake_tx", "read", "check", "asleep", "polling"}

VARIABLES
  module,              \* "unloaded", "live", or the step of safety_copro_exit
  rx_fifo,             \* frames for the supervisor
  tx_len,              \* number of frames in tx_fifo
  state,               \* the link state
  hb_timer,            \* the hrtimer is enqueued
  work_pending,        \* recovery_work is queued
  pc,                  \* control point of every context
  frame                \* the frame a context is pushing, or "NONE"

vars == <<module, rx_fifo, tx_len, state, hb_timer, work_pending, pc, frame>>

devVars == <<rx_fifo, tx_len, state, hb_timer, work_pending>>

Init ==
  /\ module = "unloaded"
  /\ rx_fifo = <<>>
  /\ tx_len = 0
  /\ state = "BOOTING"
  /\ hb_timer = FALSE
  /\ work_pending = FALSE
  /\ pc = [c \in Contexts |-> "idle"]
  /\ frame = [c \in Contexts |-> "NONE"]

Goto(c, p) == pc' = [pc EXCEPT ![c] = p]

-------------------------------------------------------------------------------
\* Pushing a frame: the path shared by PUSH_RX, INJECT_FAULT, the timer
\* callback and the work item.

\* What a context does once its frame is queued or dropped.  A dropped
\* heartbeat ends the call, so it neither counts nor re-arms the watchdog.
AfterPush(c, queued) ==
  CASE c = "timer" -> "schedule"
    [] c \in Callers /\ queued /\ frame[c] = "HEARTBEAT" -> "heard"
    [] OTHER -> "idle"

\* kfifo_is_full.
RxFull == Len(rx_fifo) >= Depth

\* safety_fifo_push_frame under the lock.  When the queue is full the
\* frame is gone.
FifoPush(c) ==
  /\ pc[c] = "push"
  /\ \/ /\ ~RxFull
        /\ rx_fifo' = Append(rx_fifo, frame[c])
        /\ Goto(c, "wake")
        /\ UNCHANGED frame
     \/ /\ RxFull
        /\ Goto(c, AfterPush(c, FALSE))
        /\ frame' = [frame EXCEPT ![c] = "NONE"]
        /\ UNCHANGED rx_fifo
  /\ UNCHANGED <<module, tx_len, state, hb_timer, work_pending>>

\* wake_up_interruptible: the woken waiters look at their condition again.
Woken(asleep) ==
  [c \in Contexts |-> IF pc[c] \in asleep
                      THEN IF pc[c] = "asleep" THEN "check" ELSE "idle"
                      ELSE pc[c]]

\* A plausible mistake: safety_poll does not wait on rx_wq, so only blocked
\* readers are woken.
WakeReaders_NotPollers(c) ==
  /\ pc[c] = "wake"
  /\ pc' = [Woken({"asleep"}) EXCEPT ![c] = AfterPush(c, TRUE)]
  /\ frame' = [frame EXCEPT ![c] = "NONE"]
  /\ UNCHANGED <<module, devVars>>

\* The end of safety_fifo_push_frame, outside the lock.
WakeReaders(c) ==
  /\ pc[c] = "wake"
  /\ pc' = [Woken({"asleep", "polling"}) EXCEPT ![c] = AfterPush(c, TRUE)]
  /\ frame' = [frame EXCEPT ![c] = "NONE"]
  /\ UNCHANGED <<module, devVars>>

-------------------------------------------------------------------------------
\* The watchdog: heartbeats arm it, its expiry makes a fault event and
\* queues the recovery work.

\* queue_rx_from_linkd after a valid heartbeat was queued.
Heard(c) ==
  /\ pc[c] = "heard"
  /\ state' = "HB_OK"
  /\ Goto(c, "rearm")
  /\ UNCHANGED <<module, rx_fifo, tx_len, hb_timer, work_pending, frame>>

\* A plausible mistake: a pending expiry is taken for an armed watchdog and
\* the timer is not started while its callback is running.
Rearm_NotDuringCallback(c) ==
  /\ pc[c] = "rearm"
  /\ hb_timer' = (hb_timer \/ pc["timer"] = "idle")
  /\ Goto(c, "idle")
  /\ UNCHANGED <<module, rx_fifo, tx_len, state, work_pending, frame>>

\* A plausible mistake: no watchdog while the recovery work is running.
Rearm_NotDuringRecovery(c) ==
  /\ pc[c] = "rearm"
  /\ hb_timer' = (hb_timer \/ pc["work"] = "idle")
  /\ Goto(c, "idle")
  /\ UNCHANGED <<module, rx_fifo, tx_len, state, work_pending, frame>>

\* safety_timer_rearm: hrtimer_start, also when the timer is already active
\* or its callback is running.
Rearm(c) ==
  /\ pc[c] = "rearm"
  /\ hb_timer' = TRUE
  /\ Goto(c, "idle")
  /\ UNCHANGED <<module, rx_fifo, tx_len, state, work_pending, frame>>

\* The hrtimer expires: it is dequeued and its callback starts.  One
\* hrtimer's callback does not run on two CPUs at once.
TimerExpires ==
  /\ hb_timer
  /\ pc["timer"] = "idle"
  /\ hb_timer' = FALSE
  /\ Goto("timer", "enter")
  /\ UNCHANGED <<module, rx_fifo, tx_len, state, work_pending, frame>>

\* hb_timer_fn under the lock; the fault event and the recovery follow.
TimeoutRecorded ==
  /\ pc["timer"] = "enter"
  /\ state' = "HB_TIMEOUT"
  /\ frame' = [frame EXCEPT !["timer"] = "FAULT_EVENT"]
  /\ Goto("timer", "push")
  /\ UNCHANGED <<module, rx_fifo, tx_len, hb_timer, work_pending>>

\* A plausible mistake: recovery is skipped when the work item is running.
TimerSchedules_UnlessRunning ==
  /\ pc["timer"] = "schedule"
  /\ work_pending' = (work_pending \/ pc["work"] = "idle")
  /\ Goto("timer", "idle")
  /\ UNCHANGED <<module, rx_fifo, tx_len, state, hb_timer, frame>>

\* safety_recovery_schedule at the end of hb_timer_fn, which does not
\* restart the timer.  Queueing a queued work item again has no effect.
TimerSchedules ==
  /\ pc["timer"] = "schedule"
  /\ work_pending' = TRUE
  /\ Goto("timer", "idle")
  /\ UNCHANGED <<module, rx_fifo, tx_len, state, hb_timer, frame>>

\* The system workqueue runs the item; from here it can be queued again.
WorkStarts ==
  /\ work_pending
  /\ pc["work"] = "idle"
  /\ work_pending' = FALSE
  /\ Goto("work", "enter")
  /\ UNCHANGED <<module, rx_fifo, tx_len, state, hb_timer, frame>>

\* recovery_work_fn under the lock; the recovery report follows.
RecoveryRecorded ==
  /\ pc["work"] = "enter"
  /\ state' = "RECOVERING"
  /\ frame' = [frame EXCEPT !["work"] = "RECOVERY_REPORT"]
  /\ Goto("work", "push")
  /\ UNCHANGED <<module, rx_fifo, tx_len, hb_timer, work_pending>>

-------------------------------------------------------------------------------
\* Calls on the device.  A call starts in a context that is idle.

Enter(c) == module = "live" /\ pc[c] = "idle"

\* ioc_push_rx_frame and queue_rx_from_linkd up to the push: frames with a
\* bad magic, version or length are refused before this.
PushRx(c) ==
  /\ Enter(c)
  /\ \E f \in LinkFrame : frame' = [frame EXCEPT ![c] = f]
  /\ Goto(c, "push")
  /\ UNCHANGED <<module, devVars>>

\* ioc_inject_fault.
InjectFault(c) ==
  /\ Enter(c)
  /\ frame' = [frame EXCEPT ![c] = "FAULT_EVENT"]
  /\ Goto(c, "push")
  /\ UNCHANGED <<module, devVars>>

\* ioc_set_hb_timeout: the watchdog is armed whether it was active or not.
SetHbTimeout(c) ==
  /\ Enter(c)
  /\ Goto(c, "rearm")
  /\ UNCHANGED <<module, devVars, frame>>

\* SAFETY_IOC_FORCE_RECOVERY.
ForceRecovery(c) ==
  /\ Enter(c)
  /\ work_pending' = TRUE
  /\ UNCHANGED <<module, rx_fifo, tx_len, state, hb_timer, pc, frame>>

\* safety_write of a valid frame; with tx_fifo full it fails with -EAGAIN.
Write(c) ==
  /\ Enter(c)
  /\ tx_len < Depth
  /\ tx_len' = tx_len + 1
  /\ Goto(c, "wake_tx")
  /\ UNCHANGED <<module, rx_fifo, state, hb_timer, work_pending, frame>>

\* The end of safety_fifo_push_tx_frame: tx_wq has only pollers on it.
WakeTx(c) ==
  /\ pc[c] = "wake_tx"
  /\ pc' = [Woken({"polling"}) EXCEPT ![c] = "idle"]
  /\ UNCHANGED <<module, devVars, frame>>

\* ioc_pop_tx_frame.
PopTx(c) ==
  /\ Enter(c)
  /\ tx_len > 0
  /\ tx_len' = tx_len - 1
  /\ UNCHANGED <<module, rx_fifo, state, hb_timer, work_pending, pc, frame>>

\* safety_read's attempt to pop.  The popped frame leaves the driver, also
\* when the caller's buffer turns out too small for it.
TryRead(c) ==
  /\ Enter(c) \/ pc[c] = "read"
  /\ \/ /\ rx_fifo # <<>>
        /\ rx_fifo' = Tail(rx_fifo)
        /\ Goto(c, "idle")
     \/ /\ rx_fifo = <<>>
        /\ Goto(c, "check")
        /\ UNCHANGED rx_fifo
  /\ UNCHANGED <<module, tx_len, state, hb_timer, work_pending, frame>>

\* wait_event_interruptible: the caller is on rx_wq before it evaluates the
\* condition, so checking and going to sleep are one step.
WaitEvent(c) ==
  /\ pc[c] = "check"
  /\ Goto(c, IF rx_fifo # <<>> THEN "read" ELSE "asleep")
  /\ UNCHANGED <<module, devVars, frame>>

\* safety_poll finds neither queue readable and the caller sleeps on both
\* wait queues.  The non-blocking read that finds nothing changes nothing.
Poll(c) ==
  /\ Enter(c)
  /\ rx_fifo = <<>>
  /\ tx_len = 0
  /\ Goto(c, "polling")
  /\ UNCHANGED <<module, devVars, frame>>

\* A signal ends a blocked read; a signal or a timeout ends a poll.
Interrupted(c) ==
  /\ pc[c] \in {"asleep", "polling"}
  /\ Goto(c, "idle")
  /\ UNCHANGED <<module, devVars, frame>>

-------------------------------------------------------------------------------
\* Loading and unloading the module.

\* safety_copro_init: everything is set up before the device is registered.
\* When a step fails it undoes the earlier ones and nothing is left.
Load ==
  /\ module = "unloaded"
  /\ module' = "live"
  /\ UNCHANGED <<devVars, pc, frame>>

\* safety_copro_exit up to misc_deregister.  An open file holds the module,
\* so no call is in progress, and none starts afterwards.
Deregister ==
  /\ module = "live"
  /\ \A c \in Callers : pc[c] = "idle"
  /\ module' = "cancel_timer"
  /\ UNCHANGED <<devVars, pc, frame>>

\* A plausible mistake: the timer is dequeued without waiting for a callback
\* that is already running.
CancelTimer_NoWait ==
  /\ module = "cancel_timer"
  /\ hb_timer' = FALSE
  /\ module' = "cancel_work"
  /\ UNCHANGED <<rx_fifo, tx_len, state, work_pending, pc, frame>>

\* safety_timer_destroy: hrtimer_cancel waits for a running callback.
CancelTimer ==
  /\ module = "cancel_timer"
  /\ pc["timer"] = "idle"
  /\ hb_timer' = FALSE
  /\ module' = "cancel_work"
  /\ UNCHANGED <<rx_fifo, tx_len, state, work_pending, pc, frame>>

\* safety_recovery_destroy: cancel_work_sync dequeues the item and waits for
\* a running one.
CancelWork ==
  /\ module = "cancel_work"
  /\ pc["work"] = "idle"
  /\ work_pending' = FALSE
  /\ module' = "free"
  /\ UNCHANGED <<rx_fifo, tx_len, state, hb_timer, pc, frame>>

\* The rest of safety_copro_exit: the queues and the device are freed; a
\* later load starts from a zeroed device.
Free ==
  /\ module = "free"
  /\ module' = "unloaded"
  /\ rx_fifo' = <<>>
  /\ tx_len' = 0
  /\ state' = "BOOTING"
  /\ UNCHANGED <<hb_timer, work_pending, pc, frame>>

-------------------------------------------------------------------------------
\* A system call that was made goes on; only sleep keeps it waiting.
Call(c) ==
  \/ FifoPush(c) \/ WakeReaders(c) \/ Heard(c) \/ Rearm(c) \/ WakeTx(c)
  \/ WaitEvent(c) \/ (pc[c] = "read" /\ TryRead(c))

Start(c) ==
  \/ PushRx(c) \/ InjectFault(c) \/ SetHbTimeout(c) \/ ForceRecovery(c)
  \/ Write(c) \/ PopTx(c) \/ Poll(c)
  \/ (Enter(c) /\ TryRead(c))

TimerCallback ==
  \/ TimeoutRecorded \/ FifoPush("timer") \/ WakeReaders("timer")
  \/ TimerSchedules

WorkItem == RecoveryRecorded \/ FifoPush("work") \/ WakeReaders("work")

Exit == CancelTimer \/ CancelWork \/ Free

Next ==
  \/ \E c \in Callers : Call(c) \/ Start(c) \/ Interrupted(c)
  \/ TimerExpires \/ TimerCallback
  \/ WorkStarts \/ WorkItem
  \/ Load \/ Deregister \/ Exit

Spec == Init /\ [][Next]_vars

\* The kernel runs what is runnable: calls go on, an armed timer expires, a
\* queued work item runs, and an unload that has begun completes.  No
\* process has to make a call.
FairSpec ==
  /\ Spec
  /\ \A c \in Callers : WF_vars(Call(c))
  /\ WF_vars(TimerExpires) /\ WF_vars(TimerCallback)
  /\ WF_vars(WorkStarts) /\ WF_vars(WorkItem)
  /\ WF_vars(Exit)

-------------------------------------------------------------------------------
\* Queues keep to their depth, and every context is at a point of its code.
TypeOK ==
  /\ module \in {"unloaded", "live", "cancel_timer", "cancel_work", "free"}
  /\ rx_fifo \in Seq(Frame)
  /\ Len(rx_fifo) <= Depth
  /\ tx_len \in 0..Depth
  /\ state \in LinkState
  /\ hb_timer \in BOOLEAN
  /\ work_pending \in BOOLEAN
  /\ pc \in [Contexts -> Pc]
  /\ frame \in [Contexts -> Frame \cup {"NONE"}]
  /\ \A c \in Contexts : pc[c] \in {"push", "wake"} => frame[c] \in Frame

\* While the link counts as alive something will notice its silence: the
\* watchdog is armed, or has expired and its callback is about to record the
\* timeout, or a caller is about to arm it.  queue_rx_from_linkd sets HB_OK
\* and re-arms outside one critical section, with hb_timer_fn free to run in
\* between.
WatchdogLive ==
  module = "live" /\ state = "HB_OK" =>
    \/ hb_timer
    \/ pc["timer"] = "enter"
    \/ \E c \in Callers : pc[c] = "rearm"

\* A recorded timeout has its recovery ahead of it: the callback has yet to
\* queue the work, or the work is queued, or it has just started.  A work
\* item that is past its critical section does not count: the timeout came
\* after it.
TimeoutHasRecovery ==
  module = "live" /\ state = "HB_TIMEOUT" =>
    \/ pc["timer"] \in {"push", "wake", "schedule"}
    \/ work_pending
    \/ pc["work"] = "enter"

\* No sleeper is forgotten: while frames wait in a queue, a process asleep
\* in read() or poll() has a waker on its way, whatever other readers took
\* in the meantime.
SleepersWoken ==
  \A c \in Callers :
    /\ pc[c] \in {"asleep", "polling"} /\ rx_fifo # <<>> =>
         \E d \in Contexts : pc[d] = "wake"
    /\ pc[c] = "polling" /\ tx_len > 0 =>
         \E d \in Callers : pc[d] = "wake_tx"

\* Once safety_copro_exit frees the device no timer, callback, work item or
\* call is left that could touch it (the order of the teardown, and that
\* each cancellation waits).
FreedQuiet ==
  module \in {"free", "unloaded"} =>
    /\ ~hb_timer
    /\ ~work_pending
    /\ \A c \in Contexts : pc[c] = "idle"

\* A link that stays silent is noticed: if from some point on nobody arms
\* the watchdog, from some point on the state is not HB_OK.
SilenceDetected ==
  <>[](\A c \in Callers : pc[c] # "rearm") => <>[](state # "HB_OK")

\* The link state never stays at HB_TIMEOUT: the recovery work, a heartbeat
\* or the end of the module follows.
TimeoutHandled ==
  state = "HB_TIMEOUT" ~> state # "HB_TIMEOUT"
===============================================================================
