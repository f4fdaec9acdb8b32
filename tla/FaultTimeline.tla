--------------------------- MODULE FaultTimeline ---------------------------
(***************************************************************************)
(* The fault timeline of the tracing agent: the BPF programs attached to   *)
(* the driver's tracepoints, the ring buffer they share, and the reporter  *)
(* that reads it, counts hits and pairs events into fault cycles.          *)
(*                                                                         *)
(* The driver appears as the contexts that hit these tracepoints, each     *)
(* with its tracepoints in the order of the code: linkd pushing a frame,   *)
(* the heartbeat timer's callback, the recovery work, the two threads of   *)
(* the supervisor that write frames, and safetyctl, which writes frames,   *)
(* injects faults and forces recoveries.  They run on different CPUs, so a *)
(* program is cut into the steps another CPU can see: the counter, the     *)
(* flag recovery_pending, reserving a record and submitting it.  The timer *)
(* may also interrupt one of the others inside a program; the kernel then  *)
(* skips the timer's program.                                              *)
(*                                                                         *)
(* Left out: timestamps, so a cycle is the positions of its events and not *)
(* the times between them; the counts of frame_received, frame_dropped and *)
(* poll_wakeup; that a counter is kept per CPU and summed by the reader.   *)
(* A definition with an underscore and a suffix (Enter_CountedOnce) is a   *)
(* variant with a plausible mistake; the specification does not use it.    *)
(***************************************************************************)
EXTENDS Integers, Sequences, FiniteSetsExt

CONSTANTS
  RingCapacity,   \* records that fit in timeline_rb
  MAX_TIMELINE,   \* events the reporter keeps
  MaxTimeouts,    \* bound: how often the heartbeat timer expires
  MaxRecoveries,  \* bound: how often the recovery work runs
  MaxFrames       \* bound: frames linkd, the supervisor and safetyctl push

ASSUME TimelineAssumption ==
  /\ RingCapacity \in Nat \ {0}
  /\ {MAX_TIMELINE, MaxTimeouts, MaxRecoveries, MaxFrames} \subseteq Nat

Writers == {"loop", "worker", "ctl"}
Contexts == {"linkd", "timer", "work"} \cup Writers

\* The programs, by the tracepoint they are attached to, and what they record.
Counted == {"timeout_detected", "recovery_queued"}
Tracepoint == Counted \cup {"frame_received"}

Kind(tp) ==
  CASE tp = "frame_received"   -> "HEARTBEAT_RESTORED"
    [] tp = "timeout_detected" -> "TIMEOUT"
    [] tp = "recovery_queued"  -> "RECOVERY"

VARIABLES
  hb_timer,          \* driver: the watchdog is armed
  work_pending,      \* driver: the recovery work is queued
  timeouts,          \* driver: timeout_count
  scheduled,         \* history: timeouts whose callback has queued the work
  answered,          \* history: of those, the ones the running work came after
  pushed,            \* how many frames linkd and the writers have pushed
  pc,                \* control point of every context
  prog,              \* the tracepoint whose program a context is in
  recovery_pending,  \* the flag shared by the programs
  tp_counters,       \* hits of every tracepoint
  timeline_rb,       \* records, oldest first, not consumed yet
  g_timeline,        \* events the reporter has kept
  reporter,          \* control point of the reporter
  counts             \* the counters as read for the report

driverVars == <<hb_timer, work_pending, timeouts, scheduled, answered, pushed>>
traceVars  == <<recovery_pending, tp_counters, timeline_rb>>
userVars   == <<g_timeline, reporter, counts>>
vars == <<hb_timer, work_pending, timeouts, scheduled, answered, pushed,
          pc, prog, recovery_pending, tp_counters, timeline_rb,
          g_timeline, reporter, counts>>

\* The tracer is attached to a running driver.
Init ==
  /\ hb_timer \in BOOLEAN
  /\ work_pending \in BOOLEAN
  /\ timeouts = 0 /\ scheduled = 0 /\ answered = 0
  /\ pushed = 0
  /\ pc = [c \in Contexts |-> "idle"]
  /\ prog = [c \in Contexts |-> "frame_received"]
  /\ recovery_pending = FALSE
  /\ tp_counters = [tp \in Counted |-> 0]
  /\ timeline_rb = <<>> /\ g_timeline = <<>>
  /\ reporter = "polling"
  /\ counts = [tp \in Counted |-> 0]

Goto(c, p) == pc' = [pc EXCEPT ![c] = p]

\* The driver runs on after the reports are written, but unobserved: the
\* model ends there.
At(c, p) == pc[c] = p /\ reporter # "reported"

\* Context c hits a tracepoint: its program starts.
Hit(c, tp) == Goto(c, "enter") /\ prog' = [prog EXCEPT ![c] = tp]

----------------------------------------------------------------------------
(* The driver's code around the tracepoints. *)

\* What follows a program in its context.
After(c) ==
  CASE prog[c] # "frame_received" -> "push"
    [] c = "timer"                -> "schedule"
    [] c = "linkd"                -> "queued"
    [] OTHER                      -> "idle"

\* queue_rx_from_linkd is called with a frame.
PushRx ==
  /\ At("linkd", "idle")
  /\ pushed < MaxFrames
  /\ pushed' = pushed + 1
  /\ Goto("linkd", "push")
  /\ UNCHANGED <<hb_timer, work_pending, timeouts, scheduled, answered, prog>>
  /\ UNCHANGED <<traceVars, userVars>>

\* safety_write: push_tx_frame hits frame_received like the RX path.
WriteTx(c) ==
  /\ At(c, "idle")
  /\ pushed < MaxFrames
  /\ pushed' = pushed + 1
  /\ Hit(c, "frame_received")
  /\ UNCHANGED <<hb_timer, work_pending, timeouts, scheduled, answered>>
  /\ UNCHANGED <<traceVars, userVars>>

\* SAFETY_IOC_INJECT_FAULT, which goes on with a push of its own.
InjectFault ==
  /\ At("ctl", "idle")
  /\ pushed < MaxFrames
  /\ pushed' = pushed + 1
  /\ Goto("ctl", "push")
  /\ UNCHANGED <<hb_timer, work_pending, timeouts, scheduled, answered, prog>>
  /\ UNCHANGED <<traceVars, userVars>>

\* safety_fifo_push_frame: queued, or dropped because the queue is full.  A
\* program the kernel skips looks the same from here.
Push(c) ==
  /\ At(c, "push")
  /\ \/ Hit(c, "frame_received")
     \/ /\ Goto(c, IF c = "timer" THEN "schedule" ELSE "idle")
        /\ prog' = [prog EXCEPT ![c] = "frame_received"]
  /\ UNCHANGED <<driverVars, traceVars, userVars>>

\* The end of queue_rx_from_linkd: a valid heartbeat arms the watchdog.
Queued ==
  /\ At("linkd", "queued")
  /\ hb_timer' \in {hb_timer, TRUE}
  /\ Goto("linkd", "idle")
  /\ UNCHANGED <<work_pending, timeouts, scheduled, answered, pushed, prog>>
  /\ UNCHANGED <<traceVars, userVars>>

\* The kernel does not start a program on a CPU that is inside another one.
\* Only the timer interrupts, and only a context inside a program.
InProgram(c) == pc[c] \in {"enter", "raise", "clear", "reserve", "submit"}
Nested == \E c \in Contexts \ {"timer"} : InProgram(c)

\* hb_timer_fn up to its tracepoint.
TimerExpires_SchedulesFirst ==
  /\ At("timer", "idle")
  /\ hb_timer
  /\ timeouts < MaxTimeouts
  /\ hb_timer' = FALSE
  /\ timeouts' = timeouts + 1
  /\ work_pending' = TRUE /\ scheduled' = timeouts'
  /\ Hit("timer", "timeout_detected")
  /\ UNCHANGED <<answered, pushed>>
  /\ UNCHANGED <<traceVars, userVars>>
TimerExpires ==
  /\ At("timer", "idle")
  /\ hb_timer
  /\ timeouts < MaxTimeouts
  /\ hb_timer' = FALSE
  /\ timeouts' = timeouts + 1
  /\ \/ Hit("timer", "timeout_detected")
     \/ Nested /\ Goto("timer", "push") /\ UNCHANGED prog
  /\ UNCHANGED <<work_pending, scheduled, answered, pushed>>
  /\ UNCHANGED <<traceVars, userVars>>

\* safety_recovery_schedule at the end of hb_timer_fn.
TimerSchedules ==
  /\ At("timer", "schedule")
  /\ work_pending' = TRUE
  /\ scheduled' = timeouts
  /\ Goto("timer", "idle")
  /\ UNCHANGED <<hb_timer, timeouts, answered, pushed, prog>>
  /\ UNCHANGED <<traceVars, userVars>>

\* SAFETY_IOC_FORCE_RECOVERY.
ForceRecovery ==
  /\ At("ctl", "idle")
  /\ work_pending' = TRUE
  /\ UNCHANGED <<hb_timer, timeouts, scheduled, answered, pushed, pc, prog>>
  /\ UNCHANGED <<traceVars, userVars>>

\* recovery_work_fn up to its tracepoint.
WorkStarts ==
  /\ At("work", "idle")
  /\ work_pending
  /\ tp_counters["recovery_queued"] < MaxRecoveries
  /\ work_pending' = FALSE
  /\ answered' = scheduled
  /\ Hit("work", "recovery_queued")
  /\ UNCHANGED <<hb_timer, timeouts, scheduled, pushed>>
  /\ UNCHANGED <<traceVars, userVars>>

----------------------------------------------------------------------------
(* The BPF programs. *)

\* What a program does after it has counted: frame_received tests the flag.
Second(c) ==
  CASE prog[c] = "timeout_detected" -> "reserve"
    [] prog[c] = "recovery_queued"  -> "raise"
    [] prog[c] = "frame_received"   -> IF recovery_pending THEN "clear" ELSE After(c)

\* The first part of every program: counter_inc, up to the test of the flag in
\* frame_received.
Enter_CountedOnce(c) ==
  /\ At(c, "enter")
  /\ tp_counters' = [tp \in DOMAIN tp_counters |->
       tp_counters[tp] + IF tp = prog[c] /\ ~recovery_pending THEN 1 ELSE 0]
  /\ Goto(c, Second(c))
  /\ UNCHANGED <<driverVars, prog, recovery_pending, timeline_rb, userVars>>
Enter(c) ==
  /\ At(c, "enter")
  /\ tp_counters' = [tp \in DOMAIN tp_counters |->
                      tp_counters[tp] + IF tp = prog[c] THEN 1 ELSE 0]
  /\ Goto(c, Second(c))
  /\ UNCHANGED <<driverVars, prog, recovery_pending, timeline_rb, userVars>>

\* handle_safety_recovery_queued raises the flag before it reserves its record.
RaiseFlag(c) ==
  /\ At(c, "raise")
  /\ recovery_pending' = TRUE
  /\ Goto(c, "reserve")
  /\ UNCHANGED <<driverVars, prog, tp_counters, timeline_rb, userVars>>

\* handle_safety_frame_received has read the flag as set and clears it.
ClearFlag(c) ==
  /\ At(c, "clear")
  /\ recovery_pending' = FALSE
  /\ Goto(c, "reserve")
  /\ UNCHANGED <<driverVars, prog, tp_counters, timeline_rb, userVars>>

\* The record a program reserves.  In place of aux it has the context, which
\* tells the frames apart, and which timeout it is or came after.
Record(c) ==
  [kind |-> Kind(prog[c]), by |-> c, busy |-> TRUE,
   of |-> CASE prog[c] = "timeout_detected" -> timeouts
            [] prog[c] = "recovery_queued"  -> answered
            [] prog[c] = "frame_received"   -> 0]

\* bpf_ringbuf_reserve; without room the event is lost and nothing says so.
Reserve(c) ==
  /\ At(c, "reserve")
  /\ \/ /\ Len(timeline_rb) < RingCapacity
        /\ timeline_rb' = Append(timeline_rb, Record(c))
        /\ Goto(c, "submit")
     \/ /\ Len(timeline_rb) = RingCapacity
        /\ Goto(c, After(c))
        /\ UNCHANGED timeline_rb
  /\ UNCHANGED <<driverVars, prog, recovery_pending, tp_counters, userVars>>

\* bpf_ringbuf_submit.
Submit(c) ==
  /\ At(c, "submit")
  /\ timeline_rb' = [i \in DOMAIN timeline_rb |->
       IF timeline_rb[i].by = c THEN [timeline_rb[i] EXCEPT !.busy = FALSE]
                                ELSE timeline_rb[i]]
  /\ Goto(c, After(c))
  /\ UNCHANGED <<driverVars, prog, recovery_pending, tp_counters, userVars>>

----------------------------------------------------------------------------
(* The reporter. *)

\* A record that is still being written stops the consumer.
Readable == timeline_rb # <<>> /\ ~Head(timeline_rb).busy

\* handle_rb_event, called by ring_buffer__poll and ring_buffer__consume.
Consume ==
  /\ reporter \in {"polling", "draining"}
  /\ Readable
  /\ g_timeline' = IF Len(g_timeline) < MAX_TIMELINE
                     THEN Append(g_timeline, Head(timeline_rb)) ELSE g_timeline
  /\ timeline_rb' = Tail(timeline_rb)
  /\ UNCHANGED <<driverVars, pc, prog, recovery_pending, tp_counters>>
  /\ UNCHANGED <<reporter, counts>>

\* The duration is over, a signal arrived or polling failed.  The programs
\* stay attached until the reports are written.
Stop ==
  /\ reporter = "polling"
  /\ reporter' = "draining"
  /\ UNCHANGED <<driverVars, pc, prog, traceVars, g_timeline, counts>>

\* The last drain has ended: generate_reports reads the counters.
GenerateReports ==
  /\ reporter = "draining"
  /\ ~Readable
  /\ reporter' = "reported"
  /\ counts' = tp_counters
  /\ UNCHANGED <<driverVars, pc, prog, traceVars, g_timeline>>

\* write_fault_timeline's inner loop, from event j of cycle i on: the first
\* RECOVERY, the first HEARTBEAT_RESTORED after it, nothing past the next
\* TIMEOUT.  0 stands for a time that was not found; next is where the outer
\* loop goes on.
Search_AnyRestored(tl) ==
  LET search[j \in 1..(Len(tl) + 1), recovery \in 0..Len(tl)] ==
        IF j > Len(tl) \/ tl[j].kind = "TIMEOUT"
          THEN [recovery |-> recovery, restored |-> 0, next |-> j]
        ELSE IF recovery = 0 /\ tl[j].kind = "RECOVERY" THEN search[j + 1, j]
        ELSE IF tl[j].kind = "HEARTBEAT_RESTORED"
          THEN [recovery |-> recovery, restored |-> j, next |-> j]
        ELSE search[j + 1, recovery]
  IN  search
Search(tl) ==
  LET search[j \in 1..(Len(tl) + 1), recovery \in 0..Len(tl)] ==
        IF j > Len(tl) \/ tl[j].kind = "TIMEOUT"
          THEN [recovery |-> recovery, restored |-> 0, next |-> j]
        ELSE IF recovery = 0 /\ tl[j].kind = "RECOVERY" THEN search[j + 1, j]
        ELSE IF recovery # 0 /\ tl[j].kind = "HEARTBEAT_RESTORED"
          THEN [recovery |-> recovery, restored |-> j, next |-> j]
        ELSE search[j + 1, recovery]
  IN  search

\* Its outer loop: a row for every TIMEOUT.
Cycles(tl) ==
  LET cycles[i \in 1..(Len(tl) + 1)] ==
        IF i > Len(tl) THEN <<>>
        ELSE IF tl[i].kind # "TIMEOUT" THEN cycles[i + 1]
        ELSE LET found == Search(tl)[i + 1, 0]
             IN  <<[timeout |-> i, recovery |-> found.recovery,
                    restored |-> found.restored]>> \o cycles[found.next]
  IN  cycles[1]

----------------------------------------------------------------------------
Driver ==
  \/ PushRx \/ Queued \/ InjectFault \/ ForceRecovery
  \/ \E c \in Writers : WriteTx(c)
  \/ TimerExpires \/ TimerSchedules \/ WorkStarts
  \/ \E c \in Contexts : Push(c)

Program(c) == Enter(c) \/ RaiseFlag(c) \/ ClearFlag(c) \/ Reserve(c) \/ Submit(c)

Next ==
  \/ Driver
  \/ \E c \in Contexts : Program(c)
  \/ Consume \/ Stop \/ GenerateReports

Spec == Init /\ [][Next]_vars

----------------------------------------------------------------------------
Event(busy) ==
  [kind: {Kind(tp) : tp \in Tracepoint}, by: Contexts, busy: busy,
   of: 0..MaxTimeouts]

\* The variables have the types of the source, the ring and the table keep to
\* their sizes, and an event the reporter kept was submitted.
TypeOK ==
  /\ {hb_timer, work_pending, recovery_pending} \subseteq BOOLEAN
  /\ {timeouts, scheduled, answered} \subseteq 0..MaxTimeouts
  /\ pushed \in 0..MaxFrames
  /\ pc \in [Contexts -> {"idle", "push", "queued", "schedule",
                           "enter", "raise", "clear", "reserve", "submit"}]
  /\ prog \in [Contexts -> Tracepoint]
  /\ tp_counters \in [Counted -> Nat] /\ counts \in [Counted -> Nat]
  /\ timeline_rb \in Seq(Event(BOOLEAN)) /\ Len(timeline_rb) <= RingCapacity
  /\ g_timeline \in Seq(Event({FALSE}))
  /\ Len(g_timeline) <= MAX_TIMELINE
  /\ reporter \in {"polling", "draining", "reported"}

\* Everything that was recorded, in the order of the report.
Recorded == g_timeline \o timeline_rb

\* A recovery is never listed before a timeout it answers, although the two
\* are recorded by different CPUs: hb_timer_fn hits its tracepoint before it
\* queues the work, whatever the ring lost and however late the work runs.
CausalOrder ==
  \A i, j \in 1..Len(Recorded) :
    /\ Recorded[i].kind = "RECOVERY"
    /\ Recorded[j].kind = "TIMEOUT"
    /\ Recorded[j].of <= Recorded[i].of
    => j < i

Count(s, Test(_)) == Cardinality({i \in 1..Len(s) : Test(s[i])})

\* The tracepoint counts in the report are never below the number of events
\* listed in it: every program counts before it reserves, and the counters
\* are read after the last drain, while the programs are still attached.
CountsCoverTimeline ==
  reporter = "reported" =>
    \A tp \in Counted :
      Count(g_timeline, LAMBDA e : e.kind = Kind(tp)) <= counts[tp]

\* The cycles of a timeline, without the loop: for every TIMEOUT the first
\* RECOVERY before the next TIMEOUT, and the first HEARTBEAT_RESTORED after
\* that one and before the next TIMEOUT.
Window(tl, i) ==
  {k \in (i + 1)..Len(tl) : \A m \in (i + 1)..k : tl[m].kind # "TIMEOUT"}
First(S) == IF S = {} THEN 0 ELSE Min(S)
CycleOf(tl, i) ==
  LET recovery == First({k \in Window(tl, i) : tl[k].kind = "RECOVERY"})
      restored == {k \in Window(tl, i) : tl[k].kind = "HEARTBEAT_RESTORED"}
  IN  [timeout |-> i, recovery |-> recovery,
       restored |-> IF recovery = 0 THEN 0 ELSE First({k \in restored : k > recovery})]

\* The single pass of write_fault_timeline pairs every timeline as its rule
\* says, one row for each timeout in order, also when events are missing or
\* HEARTBEAT_RESTORED comes before its RECOVERY.
CyclesPaired ==
  LET cycles == Cycles(Recorded) IN
    /\ \A n \in 1..Len(cycles) : cycles[n] = CycleOf(Recorded, cycles[n].timeout)
    /\ {cycles[n].timeout : n \in 1..Len(cycles)}
         = {i \in 1..Len(Recorded) : Recorded[i].kind = "TIMEOUT"}
    /\ \A n \in 2..Len(cycles) : cycles[n - 1].timeout < cycles[n].timeout

\* What the report calls HEARTBEAT_RESTORED is a frame that linkd brought in
\* after the recovery (the comment on recovery_pending and the pairing rule of
\* the agent's README).
RestoredByLink ==
  \A i \in 1..Len(g_timeline) :
    g_timeline[i].kind = "HEARTBEAT_RESTORED" => g_timeline[i].by = "linkd"

\* Only the first frame after a recovery is reported (the comment in
\* handle_safety_frame_received).  The code does not do this: it tests the flag
\* and clears it in two steps, and two contexts may both see it up.
FirstFrameOnly ==
  Count(Recorded, LAMBDA e : e.kind = "HEARTBEAT_RESTORED")
    <= tp_counters["recovery_queued"]
=============================================================================
