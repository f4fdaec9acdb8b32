---------------------------- MODULE DriverStats ----------------------------
(***************************************************************************)
(* The driver's statistics: the counters under dev->lock, the per-CPU      *)
(* counters outside it, the timeline ring, and those who look at them      *)
(* while frames come in: SAFETY_IOC_GET_STATS, SAFETY_IOC_RESET_STATS and  *)
(* the files in debugfs.                                                   *)
(*                                                                         *)
(* A frame is pushed into rx_fifo by one of four contexts: linkd           *)
(* (PUSH_RX), hb_timer_fn, recovery_work_fn and a process in INJECT_FAULT; *)
(* and into tx_fifo by the two threads of the supervisor that write.  A    *)
(* frame that finds its queue full is dropped, and counted in two places.  *)
(* A step is one critical section or one access to one CPU's counters,     *)
(* which on arm64 is a single atomic access.  The context may be on any    *)
(* CPU at each of its steps.                                               *)
(*                                                                         *)
(* Left out: bytes, which go with rx_frames; the counters of faults,       *)
(* timeouts, retries and protocol errors and the last fault, which are     *)
(* kept under the lock like the two counters here; times and sequence      *)
(* numbers in the timeline; the contents of the queues; that a counter     *)
(* wraps at 2^32.                                                          *)
(* A definition with an underscore and a suffix (ResetCpu_RxOnly) is a     *)
(* variant with a plausible mistake; the specification does not use it.    *)
(***************************************************************************)
EXTENDS Integers, Sequences, FiniteSets, FiniteSetsExt

CONSTANTS
  NCpus,                  \* number of possible CPUs
  Depth,                  \* capacity of rx_fifo and of tx_fifo
  SAFETY_TIMELINE_DEPTH,  \* entries of the timeline ring
  MaxPushes,              \* bound: how many frames are pushed
  MaxCalls                \* bound: how often each of the readers is called

ASSUME StatsAssumption ==
  /\ NCpus \in Nat \ {0} /\ Depth \in Nat \ {0}
  /\ SAFETY_TIMELINE_DEPTH \in Nat \ {0}
  /\ {MaxPushes, MaxCalls} \subseteq Nat

Cpus == 1..NCpus
Pushers == {"linkd", "timer", "work", "ctl"}  \* of rx_fifo
Writers == {"loop", "worker"}                 \* of tx_fifo
Contexts == Pushers \cup Writers
\* What linkd pushes: a heartbeat, one with a bad checksum, another frame.
Frame == {"beat", "bad_beat", "other"}
TimelineEvent == {"FRAME_RX", "HEARTBEAT", "TIMEOUT", "RECOVERY", "FAULT_INJECT"}

VARIABLES
  rx_len, fifo_high_watermark,             \* frames in rx_fifo, and the most
  tx_len,                                  \* frames in tx_fifo
  heartbeat_count, dropped_frame_count,    \* counters under the lock
  timeline, timeline_head, timeline_filled, \* the ring
  rx_frames, dropped,  \* the counters of every CPU
  pc,               \* control point of every context
  frame,            \* the frame linkd is pushing
  pushes,           \* how many pushes have begun
  reset,            \* RESET_STATS: "idle", or the next CPU to clear
  resets,           \* how many resets have begun
  reader,           \* GET_STATS and percpu_stats: the step and the next CPU
  calls,            \* how many reads have begun
  shown,            \* what the reader has collected so far
  kept,             \* history: frames in rx_fifo at the last reset
  trail,            \* history: the newest timeline events since the last reset
  raced,            \* history: pushes that overlapped the last reset
  undisturbed       \* history: no reset has overlapped the current read

fifoVars   == <<rx_len, fifo_high_watermark, kept>>
countVars  == <<heartbeat_count, dropped_frame_count>>
ringVars   == <<timeline, timeline_head, timeline_filled, trail>>
pcpuVars   == <<rx_frames, dropped>>
ctxVars    == <<pc, frame, pushes>>
resetVars  == <<reset, resets>>
readerVars == <<reader, calls, shown>>
vars == <<rx_len, fifo_high_watermark, kept, tx_len, heartbeat_count,
          dropped_frame_count, timeline,
          timeline_head, timeline_filled, rx_frames, dropped, pc, frame,
          pushes, reset, resets, reader, calls, shown, trail, raced,
          undisturbed>>

Idle == [step |-> "idle", cpu |-> 1]
Nothing == [heartbeat |-> 0, rx_total |-> 0, rows |-> 0]

\* safety_percpu_init, and a zeroed device.
Init ==
  /\ rx_len = 0 /\ fifo_high_watermark = 0 /\ kept = 0 /\ tx_len = 0
  /\ heartbeat_count = 0 /\ dropped_frame_count = 0
  /\ timeline = [i \in 0..(SAFETY_TIMELINE_DEPTH - 1) |-> "NONE"]
  /\ timeline_head = 0 /\ timeline_filled = 0 /\ trail = <<>>
  /\ rx_frames = [cpu \in Cpus |-> 0] /\ dropped = [cpu \in Cpus |-> 0]
  /\ pc = [c \in Contexts |-> "idle"] /\ frame = "other" /\ pushes = 0
  /\ reset = Idle /\ resets = 0
  /\ reader = Idle /\ calls = 0 /\ shown = Nothing
  /\ raced = 0 /\ undisturbed = TRUE

----------------------------------------------------------------------------
(* Pushing a frame. *)

Goto(c, p) == pc' = [pc EXCEPT ![c] = p]

\* The newest SAFETY_TIMELINE_DEPTH elements of s.
Newest(s) ==
  SubSeq(s, Len(s) - Min({Len(s), SAFETY_TIMELINE_DEPTH}) + 1, Len(s))

\* safety_timeline_record_locked.
TimelineRecord(e) ==
  /\ timeline' = [timeline EXCEPT ![timeline_head] = e]
  /\ timeline_head' = (timeline_head + 1) % SAFETY_TIMELINE_DEPTH
  /\ timeline_filled' = Min({timeline_filled + 1, SAFETY_TIMELINE_DEPTH})
  /\ trail' = Newest(Append(trail, e))

\* A push begins.  One that begins while RESET_STATS runs overlaps it.
Begin(c) ==
  /\ pc[c] = "idle"
  /\ pushes < MaxPushes
  /\ pushes' = pushes + 1
  /\ raced' = raced + IF reset.step = "idle" THEN 0 ELSE 1
  /\ Goto(c, "push")
  /\ UNCHANGED <<fifoVars, countVars, pcpuVars, resetVars, readerVars>>
  /\ UNCHANGED <<tx_len, undisturbed>>

\* queue_rx_from_linkd up to the push, for a frame it does not refuse.
LinkdPushes ==
  /\ Begin("linkd")
  /\ frame' \in Frame
  /\ UNCHANGED ringVars

\* hb_timer_fn and recovery_work_fn under the lock; a frame follows.
TimerFires ==
  /\ Begin("timer")
  /\ TimelineRecord("TIMEOUT")
  /\ UNCHANGED frame
WorkRuns ==
  /\ Begin("work")
  /\ TimelineRecord("RECOVERY")
  /\ UNCHANGED frame

\* ioc_inject_fault up to the push of its FAULT_EVENT.
InjectFault ==
  /\ Begin("ctl")
  /\ UNCHANGED <<ringVars, frame>>

\* The timeline event the context gives to safety_fifo_push_frame.
EventOf(c) ==
  CASE c = "linkd" -> IF frame = "other" THEN "FRAME_RX" ELSE "HEARTBEAT"
    [] c = "work"  -> "RECOVERY"
    [] c \in {"timer", "ctl"} -> "FAULT_INJECT"

\* safety_fifo_push_frame under the lock.
FifoPush_WatermarkFirst(c) ==
  /\ pc[c] = "push"
  /\ \/ /\ rx_len < Depth
        /\ rx_len' = rx_len + 1
        /\ fifo_high_watermark' = Max({rx_len, fifo_high_watermark})
        /\ TimelineRecord(EventOf(c))
        /\ Goto(c, "inc_rx")
     \/ /\ rx_len = Depth
        /\ Goto(c, "drop")
        /\ UNCHANGED <<rx_len, fifo_high_watermark, ringVars>>
  /\ UNCHANGED <<kept, countVars, pcpuVars, frame, pushes>>
  /\ UNCHANGED <<tx_len, resetVars, readerVars, raced, undisturbed>>
FifoPush(c) ==
  /\ pc[c] = "push"
  /\ \/ /\ rx_len < Depth
        /\ rx_len' = rx_len + 1
        /\ fifo_high_watermark' = Max({rx_len + 1, fifo_high_watermark})
        /\ TimelineRecord(EventOf(c))
        /\ Goto(c, "inc_rx")
     \/ /\ rx_len = Depth
        /\ Goto(c, "drop")
        /\ UNCHANGED <<rx_len, fifo_high_watermark, ringVars>>
  /\ UNCHANGED <<kept, countVars, pcpuVars, frame, pushes>>
  /\ UNCHANGED <<tx_len, resetVars, readerVars, raced, undisturbed>>

\* safety_percpu_inc_rx.
IncRx(c) ==
  /\ pc[c] = "inc_rx"
  /\ \E cpu \in Cpus : rx_frames' = [rx_frames EXCEPT ![cpu] = @ + 1]
  /\ Goto(c, IF c = "linkd" /\ frame = "beat" THEN "heard" ELSE "idle")
  /\ UNCHANGED <<fifoVars, countVars, ringVars, dropped, frame, pushes>>
  /\ UNCHANGED <<tx_len, resetVars, readerVars, raced, undisturbed>>

\* The end of queue_rx_from_linkd for a heartbeat.
Heard ==
  /\ pc["linkd"] = "heard"
  /\ heartbeat_count' = heartbeat_count + 1
  /\ Goto("linkd", "idle")
  /\ UNCHANGED <<fifoVars, dropped_frame_count, ringVars, pcpuVars, frame>>
  /\ UNCHANGED <<tx_len, pushes, resetVars, readerVars, raced, undisturbed>>

\* record_drop, and the same lines of safety_synth_and_push: the counter
\* under the lock, then the one of this CPU.
RecordDrop(c) ==
  /\ pc[c] = "drop"
  /\ dropped_frame_count' = dropped_frame_count + 1
  /\ Goto(c, "inc_dropped")
  /\ UNCHANGED <<fifoVars, heartbeat_count, ringVars, pcpuVars, frame>>
  /\ UNCHANGED <<tx_len, pushes, resetVars, readerVars, raced, undisturbed>>
IncDropped(c) ==
  /\ pc[c] = "inc_dropped"
  /\ \E cpu \in Cpus : dropped' = [dropped EXCEPT ![cpu] = @ + 1]
  /\ Goto(c, "idle")
  /\ UNCHANGED <<fifoVars, countVars, ringVars, rx_frames, frame, pushes>>
  /\ UNCHANGED <<tx_len, resetVars, readerVars, raced, undisturbed>>

\* safety_fifo_pop_frame for a reader.
PopFrame ==
  /\ rx_len > 0
  /\ rx_len' = rx_len - 1
  /\ UNCHANGED <<fifo_high_watermark, kept, countVars, ringVars, pcpuVars>>
  /\ UNCHANGED <<tx_len, ctxVars, resetVars, readerVars, raced, undisturbed>>

\* safety_write of one of the supervisor's threads, up to record_drop: with
\* room in tx_fifo safety_fifo_push_tx_frame queues the frame, without it the
\* frame is dropped.
PushTx(c) ==
  /\ pc[c] = "idle"
  /\ pushes < MaxPushes
  /\ pushes' = pushes + 1
  /\ raced' = raced + IF reset.step = "idle" THEN 0 ELSE 1
  /\ \/ /\ tx_len < Depth
        /\ tx_len' = tx_len + 1
        /\ TimelineRecord("RECOVERY")
        /\ UNCHANGED pc
     \/ /\ tx_len = Depth
        /\ Goto(c, "drop")
        /\ UNCHANGED <<tx_len, ringVars>>
  /\ UNCHANGED <<fifoVars, countVars, pcpuVars, frame>>
  /\ UNCHANGED <<resetVars, readerVars, undisturbed>>

\* safety_fifo_pop_tx_frame for linkd.
PopTx ==
  /\ tx_len > 0
  /\ tx_len' = tx_len - 1
  /\ UNCHANGED <<fifoVars, countVars, ringVars, pcpuVars>>
  /\ UNCHANGED <<ctxVars, resetVars, readerVars, raced, undisturbed>>

----------------------------------------------------------------------------
(* RESET_STATS. *)

\* ioc_reset_stats under the lock.
ResetLocked_KeepsHead ==
  /\ reset.step = "idle"
  /\ resets < MaxCalls
  /\ resets' = resets + 1
  /\ heartbeat_count' = 0 /\ dropped_frame_count' = 0
  /\ fifo_high_watermark' = 0 /\ kept' = rx_len
  /\ timeline_filled' = 0 /\ trail' = <<>>
  /\ reset' = [step |-> "clear", cpu |-> 1]
  /\ raced' = Cardinality({c \in Contexts : pc[c] # "idle"})
  /\ undisturbed' = FALSE
  /\ UNCHANGED <<rx_len, tx_len, timeline, timeline_head, pcpuVars, ctxVars,
                 readerVars>>
ResetLocked ==
  /\ reset.step = "idle"
  /\ resets < MaxCalls
  /\ resets' = resets + 1
  /\ heartbeat_count' = 0 /\ dropped_frame_count' = 0
  /\ fifo_high_watermark' = 0 /\ kept' = rx_len
  /\ timeline_head' = 0 /\ timeline_filled' = 0 /\ trail' = <<>>
  /\ reset' = [step |-> "clear", cpu |-> 1]
  /\ raced' = Cardinality({c \in Contexts : pc[c] # "idle"})
  /\ undisturbed' = FALSE
  /\ UNCHANGED <<rx_len, tx_len, timeline, pcpuVars, ctxVars, readerVars>>

\* The next turn of a loop over the CPUs that is at step s, and what follows.
NextCpu(at, s, after) ==
  IF at.cpu < NCpus THEN [step |-> s, cpu |-> at.cpu + 1]
                    ELSE [step |-> after, cpu |-> 1]

\* One turn of safety_percpu_reset.
ResetCpu_RxOnly ==
  /\ reset.step = "clear"
  /\ rx_frames' = [rx_frames EXCEPT ![reset.cpu] = 0]
  /\ reset' = NextCpu(reset, "clear", "idle")
  /\ UNCHANGED <<fifoVars, countVars, ringVars, dropped, ctxVars, resets>>
  /\ UNCHANGED <<tx_len, readerVars, raced, undisturbed>>
ResetCpu ==
  /\ reset.step = "clear"
  /\ rx_frames' = [rx_frames EXCEPT ![reset.cpu] = 0]
  /\ dropped' = [dropped EXCEPT ![reset.cpu] = 0]
  /\ reset' = NextCpu(reset, "clear", "idle")
  /\ UNCHANGED <<fifoVars, countVars, ringVars, ctxVars, resets>>
  /\ UNCHANGED <<tx_len, readerVars, raced, undisturbed>>

----------------------------------------------------------------------------
(* GET_STATS and percpu_stats.  The reader's step says what it does next:  *)
(* print the row of a CPU, or add a CPU to the total.                      *)

StartRead(what, step) ==
  /\ reader.step = "idle"
  /\ calls < MaxCalls
  /\ calls' = calls + 1
  /\ shown' = what
  /\ reader' = [step |-> step, cpu |-> 1]
  /\ undisturbed' = (reset.step = "idle")
  /\ UNCHANGED <<fifoVars, countVars, ringVars, pcpuVars, ctxVars, resetVars>>
  /\ UNCHANGED <<tx_len, raced>>

\* ioc_get_stats: the counters under the lock, before the per-CPU total.
GetStats == StartRead([Nothing EXCEPT !.heartbeat = heartbeat_count], "sum")

\* percpu_stats_show, and the rows it prints before the total.
PercpuStatsShow == StartRead(Nothing, "row")
ShowRow ==
  /\ reader.step = "row"
  /\ shown' = [shown EXCEPT !.rows = @ + rx_frames[reader.cpu]]
  /\ reader' = NextCpu(reader, "row", "sum")
  /\ UNCHANGED <<fifoVars, countVars, ringVars, pcpuVars, ctxVars, resetVars>>
  /\ UNCHANGED <<tx_len, calls, raced, undisturbed>>

\* One turn of safety_percpu_sum.
SumCpu_CountersLast ==
  /\ reader.step = "sum"
  /\ shown' = [shown EXCEPT !.rx_total = @ + rx_frames[reader.cpu],
                            !.heartbeat = heartbeat_count]
  /\ reader' = NextCpu(reader, "sum", "idle")
  /\ UNCHANGED <<fifoVars, countVars, ringVars, pcpuVars, ctxVars, resetVars>>
  /\ UNCHANGED <<tx_len, calls, raced, undisturbed>>
SumCpu ==
  /\ reader.step = "sum"
  /\ shown' = [shown EXCEPT !.rx_total = @ + rx_frames[reader.cpu]]
  /\ reader' = NextCpu(reader, "sum", "idle")
  /\ UNCHANGED <<fifoVars, countVars, ringVars, pcpuVars, ctxVars, resetVars>>
  /\ UNCHANGED <<tx_len, calls, raced, undisturbed>>

\* timeline_show: the ring is copied under the lock, so what is shown is a
\* function of one state.
Shown ==
  LET start == IF timeline_filled < SAFETY_TIMELINE_DEPTH
               THEN 0 ELSE timeline_head
  IN  [i \in 1..timeline_filled |->
         timeline[(start + i - 1) % SAFETY_TIMELINE_DEPTH]]

Next ==
  \/ LinkdPushes \/ TimerFires \/ WorkRuns \/ InjectFault
  \/ \E c \in Pushers : FifoPush(c) \/ IncRx(c)
  \/ \E c \in Writers : PushTx(c)
  \/ \E c \in Contexts : RecordDrop(c) \/ IncDropped(c)
  \/ Heard \/ PopFrame \/ PopTx
  \/ ResetLocked \/ ResetCpu
  \/ GetStats \/ PercpuStatsShow \/ ShowRow \/ SumCpu

Spec == Init /\ [][Next]_vars

----------------------------------------------------------------------------
(* Properties. *)

\* The counters, the ring and the control points keep their types; the ring
\* index stays inside the ring (safety_timeline_record_locked).
TypeOK ==
  /\ {rx_len, tx_len, fifo_high_watermark, kept} \subseteq 0..Depth
  /\ {heartbeat_count, dropped_frame_count} \subseteq 0..MaxPushes
  /\ timeline \in [0..(SAFETY_TIMELINE_DEPTH - 1) -> TimelineEvent \cup {"NONE"}]
  /\ timeline_head \in 0..(SAFETY_TIMELINE_DEPTH - 1)
  /\ timeline_filled \in 0..SAFETY_TIMELINE_DEPTH
  /\ trail \in Seq(TimelineEvent) /\ Len(trail) <= SAFETY_TIMELINE_DEPTH
  /\ rx_frames \in [Cpus -> 0..MaxPushes] /\ dropped \in [Cpus -> 0..MaxPushes]
  /\ pc \in [Contexts ->
               {"idle", "push", "inc_rx", "heard", "drop", "inc_dropped"}]
  /\ frame \in Frame
  /\ reset \in [step : {"idle", "clear"}, cpu : Cpus]
  /\ reader \in [step : {"idle", "row", "sum"}, cpu : Cpus]
  /\ {pushes, raced} \subseteq 0..MaxPushes /\ {calls, resets} \subseteq 0..MaxCalls
  /\ shown \in [heartbeat : Nat, rx_total : Nat, rows : Nat]
  /\ undisturbed \in BOOLEAN

\* The sum of the counters f of the CPUs in S: what they counted, one by one.
Counted(f, S) == UNION {{cpu} \X (1..f[cpu]) : cpu \in S}
Sum(f, S) == Cardinality(Counted(f, S))
Total(f) == Sum(f, Cpus)

\* What timeline_show prints is the newest events since the last
\* RESET_STATS, oldest first, whether the ring has wrapped or not.
TimelineShown == Shown = trail

\* The drops counted under the lock and the drops the CPUs counted differ by
\* no more than the pushes that overlapped the last RESET_STATS and those now
\* between the two counters.  safety_percpu_reset's comment says a race with
\* it loses a few counts; without a race they agree.
DropsAgree ==
  reset.step = "idle" =>
    LET between == Cardinality({c \in Contexts : pc[c] = "inc_dropped"})
        gap == dropped_frame_count - (between + Total(dropped))
    IN  -raced <= gap /\ gap <= raced

\* A read that no reset came into adds up, although the counters are read one
\* after the other while frames come in.  The total line of percpu_stats_show
\* is not below the sum of its rows.  GET_STATS shows no more heartbeats than
\* received frames, but for the pushes that overlapped the last reset: it
\* reads the heartbeats first, and a frame is counted on its CPU before it is
\* counted as a heartbeat.
ReadsAddUp ==
  reader.step = "idle" /\ undisturbed =>
    /\ shown.rows <= shown.rx_total
    /\ shown.heartbeat <= shown.rx_total + raced

\* ringbuf_status_show shows more frames than the high watermark only when
\* they were queued at the last RESET_STATS.
WatermarkCovers == rx_len <= Max({fifo_high_watermark, kept})
=============================================================================
