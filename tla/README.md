# Verification of the safety co-processor supervisor

TLA+ models of the real-time safety co-processor system in `src/`, the TLC runs
that check them on small instances, and TLAPS proofs of their main invariants.
`PROJECT.json` lists, machine-readably, the components, the runs, the source
lines behind every definition, the hazards, the findings and the theorems.

## The system

```
 Zephyr firmware --UART/pty--> pty_bridge --pty--> safety-linkd --ioctl--> safety_copro.ko
   heartbeat, telemetry,       (faults can be      (finds frames     RX kfifo --read()-->  safety-supervisord
   fault monitor,               injected)           in bytes)        TX kfifo <--write()-  safetyctl
   command handler                                                   watchdog, recovery work
```

The firmware sends heartbeats, telemetry and fault events and carries out
commands. linkd turns the byte stream into frames and pushes them into the
driver with an ioctl; it pops the frames that go the other way. The driver
queues frames in both directions, runs a heartbeat watchdog (an hrtimer) that
synthesises a fault event, and a recovery work item that synthesises a recovery
report. The supervisor reads frames, runs a health state machine, and has a
worker thread that sends `REQUEST_RECOVERY` after a heartbeat timeout.

### Inventory

| Part | Source | Status |
|---|---|---|
| Health state machine | `userspace/safety-supervisord/health_state_machine.*` | `HealthFsm` |
| Event loop, recovery worker, live mode | `event_loop.*`, `recovery_worker.*`, `main.cpp` (`run_live`), `device_client.*` | `Supervisor` |
| Frame assembler, duplicate table | `protocol.*` | duplicate table in `Supervisor` and `Link`, assembler in `Transport` |
| Logger worker | `logger_worker.*` | `Logger`, with `LogFile` as what it promises |
| Mock and replay modes | `main.cpp` (`run_mock`), `replay_mode.*` | `Offline` |
| Driver: queues, calls, watchdog, recovery work, load and unload | `linux/drivers/safety_copro/*.c` | `Driver` |
| Driver: statistics, timeline, debugfs | `safety_copro_percpu.c`, `_debugfs.c`, `_chrdev.c` | `DriverStats` |
| Firmware tasks, commands, UART sending | `zephyr/safety_copro_firmware/src/*.c` | `Firmware` |
| Firmware byte receiver | `safety_protocol.c` (`rx_feed_byte`) | one step in `Firmware`; byte by byte in `Transport` |
| linkd, pty bridge, fault injector | `userspace/safety-linkd`, `bridge` | framing in `Transport`; loops, injector and both directions in `Link`, with `LossyChannel` as what they promise |
| Sequence numbers, end to end | `safety_protocol.c`, `safety_copro_kfifo.c`, `protocol.cpp` | `Link` |
| eBPF fault timeline | `ebpf/*`, tracepoints of the driver | `FaultTimeline` |
| eBPF latency histograms | `ebpf/*` | not modelled (time only) |
| safetyctl, scripts | `userspace/safetyctl`, `scripts` | not modelled (one call each, build) |

## Modules

| Module | What it is |
|---|---|
| `HealthFsm` | the transition table as an operator `Apply` |
| `Supervisor` | the two supervisor threads, the device seen through `read`/`write`, the timer, signals |
| `SupervisorProofs` | its theorems |
| `Driver` | the driver's contexts (processes, timer callback, work item), queues, watchdog, module unload |
| `DriverProofs` | its theorems |
| `Firmware` | the four tasks, the UART interrupt, the flags and the UART mutex |
| `FirmwareProofs` | its theorems |
| `LogFile` | an abstract log: events are accepted, appear in order, and all are there when it is closed |
| `Logger` | the caller and the worker of `LoggerWorker`, with the condition variable |
| `LoggerProofs` | its theorems, with the proof that it implements `LogFile` |
| `Transport` | the four framers over byte streams, from the sender to the supervisor or the firmware |
| `Offline` | mock mode and, after it, replay of its log |
| `OfflineProofs` | its theorems |
| `DriverStats` | the driver's counters under the lock and per CPU, the timeline ring, and those who read and reset them |
| `DriverStatsProofs` | its theorems |
| `LossyChannel` | an abstract channel: it loses and damages frames, and neither doubles nor reorders them |
| `Link` | the serial link frame by frame: firmware, bridge, linkd, driver queues, supervisor |
| `LinkProofs` | its theorems, with the proof that each direction implements `LossyChannel` |
| `FaultTimeline` | the BPF programs on the driver's tracepoints, the ring buffer, the reporter |
| `FaultTimelineProofs` | its theorems |
| `MCSupervisor`, `MCDriver`, `MCFirmware`, `MCLogger`, `MCTransport`, `MCOffline`, `MCDriverStats`, `MCLink`, `MCFaultTimeline` | instances for TLC |

Names with an underscore and a suffix (`SendCommand_Unchecked`) are definitions with
a plausible mistake. No specification uses them; each shows that a property can
fail, by taking the place of the definition it is named after.

### Supervisor

A step is what one thread does between two points at which the other can
interfere: a critical section of `mtx_` or `report_mtx_`, one read or write of
the eventfd or the device. `loop` and `worker` are the control points of
`EventLoop::run` and `RecoveryWorker::run`.

* `epoll_wait` returns a set of ready descriptors (`events`) and the handlers
  run in any order. This keeps the code's behaviour that a later event of the
  same result may be out of date when its handler runs.
* `reports_` stands for the shared deque followed by the loop's local one; the
  first `drained` elements are those the loop has swapped out.
* A frame is its type, duplicate key, validation result and severity. Log
  lines and other payload are left out. The duplicate table `seen_` is kept.
* The clock is the two facts the code asks about: the timerfd has expired
  (`timer_`), the deadline has passed (`deadline_passed`).
* `commanded` is history: the last requested recovery's command was written.

### Driver

Every field is accessed under `dev->lock`, so a step is one critical section or
one kernel call between them (`wake_up`, `hrtimer_start`, `schedule_work`). `pc`
has a control point for each process and for `timer` and `work`, so that
callbacks interleave with system calls. `frame[c]` is the frame context `c` is
pushing. A process that sleeps in `poll` waits for both directions; in the
repository the supervisor waits for one and linkd for the other, which are
special cases with fewer wake-ups needed.

Module unloading is a sequence of steps (`Deregister`, `CancelTimer`,
`CancelWork`, `Free`) that the other contexts may interleave with. The Kconfig
option is a `bool` and the driver is linked into the kernel, so in this
configuration `safety_copro_exit` is written but never called. `FreedQuiet` says
that it would be right if it were.

### Firmware

The configuration has two CPUs and preemptive threads, so every `atomic_get`,
`atomic_set` and `atomic_clear` is a step. Sending is split in four (called,
waiting, holding the mutex, frame partly on the wire). `k_mutex_unlock` hands
the mutex to the waiter of highest priority. `recovered` and
`sent_safe` are history variables for properties.

### Logger

A step is one critical section of `mtx_`, one notification, or one line
written. `queue_` is the shared deque, `batch` the worker's local one, `out_`
the file. `push` and `stop` notify after they have released the mutex, so
changing the state and notifying are two steps; the condition variable may also
wake for no reason. The mapping to `LogFile` is: accepted is
`out_ \o batch \o queue_`, the file is `out_`, and it is closed when the
caller's `stop` has returned.

### Transport

A stream of bytes is on its way: read in portions of any size by the bridge
(`Forward`), then by linkd (`LinkRead`), which pushes the frames it found to the
device one by one (`PushRx`), and read from there by the assembler (`DeviceRead`);
or read by the firmware, byte by byte (`UartIsr`). The driver refuses a frame of
another version and any frame while `rx_fifo` is full, and linkd goes on with the
next one. The bridge may lose a piece or write only its beginning
(a dropped frame, a failed write). The framers are recursive operators that
follow the loops of the code. `FramesOf` is the reference: what a receiver must
find in the bytes that arrived, computed from the whole stream with no buffer.
Bytes have three values (two magic bytes and one other, which are also lengths).

### Offline

One action per kind of frame in `run_mock`, then one per line in `run_replay`.
Each action appends to `log` the lines the code pushes, in their order; replay
reads only these; what replay logs itself is left out. A line has the fields
that replay looks at. The clock is the frames' own timestamps, with the unsigned difference of the code.

### Driver statistics

Frames are pushed into `rx_fifo` by linkd, the timer callback, the recovery work
and a process in `INJECT_FAULT`, and into `tx_fifo` by the two threads of the
supervisor that write. A frame that finds its queue full is dropped and counted
under the lock and on its CPU, whichever queue it was. A step is one critical section or one access to one CPU's
counters, and a context may be on another CPU at each step. `RESET_STATS` clears
the fields under the lock (`ResetLocked`) and then one CPU after the other
(`ResetCpu`); `GET_STATS` and `percpu_stats` add up one CPU after the other.
`trail`, `kept`, `raced` and `undisturbed` are history: what the timeline should
show, the frames queued at the reset, the pushes that overlapped it, and whether
a reset came into the current read.

### Link

The composition that `Transport` cuts into bytes is here in whole frames. A
frame has its type, the counter it was numbered from, the value of that counter
and whether its checksum is right; the number it carries is the value modulo
`SeqNumbers`. Taking a number and sending are two steps of a firmware task, as
the mutex is taken between them. `Forward` is the bridge's loop for one frame,
with the injector's single counter over both directions. linkd's control points
are its poll, its inner loop over received frames, its inner loop over commands,
and `write_all`, which waits for room. A refused push, a failed write and an
injected fault lose a frame.

The driver makes frames in two contexts, the timer callback and a process in
`INJECT_FAULT` (`Makers`). Each takes a number in one critical section
(`TakeSynthSeq`) and pushes in another (`PushSynth`), so the two may push in the
other order. The supervisor answers a new heartbeat with an ACK and a bad frame
with a NACK in the step that handles it (`Answer`). A command is numbered by the
event loop (`RequestRecovery`) and written by the worker later (`WorkerSends`), so
an answer may overtake it before either is sent.

Each direction maps to `LossyChannel`: what is in flight is the content of the
queues and lines in the order of travel (towards the firmware with the frame
linkd holds), and what was sent is the numbers that are past the task, the maker or
the worker that took them.
Towards the host the driver's own frames are in the channel too: they join it on
the way, behind what is in `rx_fifo` and before what the bridge still holds.

### Fault timeline

The driver is reduced to the six contexts that hit tracepoints: linkd, the timer
callback, the recovery work, the two threads of the supervisor that write, and
safetyctl. A program is
cut into the steps another CPU can see: counting, testing the flag
`recovery_pending`, clearing it, reserving a record, submitting it. When the
ring is full the record is lost. A timer that interrupts a program on its own CPU
has its program skipped. The reporter takes a record once it is
submitted, keeps the first `MAX_TIMELINE`, drains when stopped, and then reads the
counters. `Cycles` is its single pass that pairs events; `CycleOf` is the rule
without the loop. Timestamps are left out.

## Runs

Run one with `tlc -config X.cfg M`.

| Run | Configuration | Result |
|---|---|---|
| `supervisor` | `MCSupervisor.cfg` | passes: 5 invariants, 2 liveness properties |
| `driver` | `MCDriver.cfg` | passes: 4 invariants, 2 liveness properties |
| `firmware` | `MCFirmware.cfg` | passes: 2 invariants, 3 liveness properties |
| `logger` | `MCLogger.cfg` | passes: 1 invariant, the refinement of `LogFile`, 2 liveness properties |
| `transport` | `MCTransport.cfg` | passes: 4 invariants |
| `offline` | `MCOffline.cfg` | passes: 1 invariant |
| `stats` | `MCDriverStats.cfg` | passes: 4 invariants |
| `link` | `MCLink.cfg` | passes: 1 invariant, the refinement of `LossyChannel` in each direction, 1 liveness property |
| `timeline` | `MCFaultTimeline.cfg` | passes: 3 invariants |
| `supervisor_deadline` | `MCSupervisor_deadline.cfg` | violated: a recovery is reported failed before its deadline (`FailedAfterDeadline`) |
| `supervisor_degraded` | `MCSupervisor_degraded.cfg` | violated: DEGRADED is entered with no recovery requested (`DegradedRequestsRecovery`) |
| `offline_replay` | `MCOffline_replay.cfg` | violated: replay ends in another state than the run it replays (`ReplayReproduces`) |

Every module that models code with state defines a type invariant, `TypeOK`. It is proved for
every module but `Transport`, where it holds in the instance here; no run repeats
it.

What the passing runs show:

* **supervisor**: the deques between the threads stay bounded although the code
  does not limit them (`BoundedQueues`); a recovery is never overwritten
  (`NoRecoveryOverwritten`); no report is stranded between the eventfd and the
  swap (`NoLostWakeup`); the blocking `read` is never made on an empty device
  (`ReadNeverBlocks`); RECOVERING means that the command was written
  (`RecoveringWasCommanded`); a request is answered also when the TX queue
  stays full (`RequestAnswered`); a signal ends the program
  (`ShutdownCompletes`).
* **driver**: a link that counts as alive is watched (`WatchdogLive`); a
  recorded timeout has its recovery ahead (`TimeoutHasRecovery`) and gets past
  it (`TimeoutHandled`); no sleeper is forgotten (`SleepersWoken`); nothing
  touches a freed device (`FreedQuiet`); silence is noticed
  (`SilenceDetected`).
* **firmware**: frames of the four tasks do not mix
  (`FramesWhole`); in safe mode each periodic task sends at most one more frame
  (`SafeModeQuiet`); a new critical fault leads to safe mode
  (`CriticalEntersSafeMode`); commands are finished (`CommandFinished`); the
  heartbeat goes on while it may (`HeartbeatContinues`).
* **logger**: the worker does not sleep on work with no notification to come
  (`NoSleepOnWork`); events are written in the order of the pushes and all of
  them before `stop` returns (`ImplementsLogFile`); an event is written without
  waiting for `stop` (`EventsWritten`); `stop` returns (`StopReturns`).
* **transport**: the bridge changes, loses and reorders no byte by itself
  (`BridgeTransparent`); whatever the portions, the supervisor gets exactly the
  frames of the bytes that arrived, in order, but for those of another version and
  those that met a full `rx_fifo` (`HostExact`); the firmware finds exactly the
  frames of its bytes (`FirmwareExact`); the fixed buffers are not overrun (`BuffersBounded`).
* **offline**: no recovery stays open after its frame, and in the log every
  command has its result before the next command (`RecoveryClosed`).
* **stats**: the timeline shown is the newest events since the reset, wrapped or
  not (`TimelineShown`); the two places that count the drops of both queues differ
  by at most the pushes that overlapped a reset or are between the two counts
  (`DropsAgree`); what `GET_STATS` and `percpu_stats` collect counter by counter
  adds up (`ReadsAddUp`); the queue is longer than its watermark only by what was
  queued at a reset (`WatermarkCovers`).
* **link**: nothing on the way doubles a frame or lets one overtake another
  (`UpIsLossyChannel`, `DownIsLossyChannel`); so every frame taken for a duplicate
  shares its key with a different frame, from the other counter or from its own
  counter, which has then come round (`DiscardExplained`); a command leaves the driver although
  `write_all` waits without a limit (`CommandLeaves`).
* **timeline**: a recovery is never listed before a timeout it answers
  (`CausalOrder`); the counts cover the events listed
  (`CountsCoverTimeline`); the single pass pairs events as its rule says, also
  with events missing, doubled or early (`CyclesPaired`).

A run that is violated states what a comment or a document says. The finding in
`PROJECT.json` quotes it. The counterexample is the code's behaviour.

### Bounds, and why they are enough

* Supervisor: three sequence numbers and six frames (two heartbeats, two fault
  events with one key, a corrupt frame, telemetry), one frame in each direction of the device. Two heartbeats let a recovery end and a second one begin, which
  is what the stale-report and overwriting hazards need. One slot makes the TX
  queue full and empty. Longer queues add frames that wait, not new decisions:
  the theorems cover every depth and every set of frames.
* Driver: two processes, queues of depth 1, both callbacks. Two processes give
  a reader and a pusher, or two competing readers. Theorems cover any number and
  any depth. Nothing else is bounded.
* Firmware: a message queue of one command, and one of two hosts, which between
  them send every command; each has a way to clear every flag it raises. Theorems
  cover every set of commands.
* Logger: two kinds of events, four pushes: a batch being written, a batch
  queued behind it, and one more. Theorems cover any number and any events.
* Transport: a header of 4 bytes and at most 1 byte of payload; all streams of
  6 bytes, which is longer than a frame, and concatenations of three pieces
  chosen to end in half a magic, a header or a frame, or to have another version;
  one loss or cut. `rx_fifo` holds one frame, so that a second one is refused and
  a third one after it can be taken. The
  framers depend on the sizes only through comparisons, so small ones reach
  every branch, an over-long length among them.
* Offline: files of up to four frames: a heartbeat, a late one, one after it,
  and one frame of any other kind between them. Timestamps wrap at 4.
  Theorems cover every file.
* DriverStats: two CPUs, queues of one frame (a second one is dropped), a ring
  of two entries (one push records up to two, so two pushes wrap it), two pushes,
  one reset and one read. A race needs one push and one reset or read; the second
  push gives counts on both CPUs. A third exceeds 13 million states. Theorems cover
  any number of CPUs, pushes, resets and reads, and every depth.
* Link: two sequence numbers, lines and queues of one frame, three frames from
  the firmware, one from the driver, two from the supervisor (two commands, two
  answers, or a command and an answer). Three frames use a number twice; lines of one frame make every wait and every refusal happen. The injector
  damages every second and drops every third frame it sees, of any type. Two
  frames of the driver, whose makers then overlap, with two of the firmware also
  pass, and so do three frames of the supervisor (18 minutes). Theorems
  cover every size and every setting of the injector.
* FaultTimeline: a ring and a table of two records, two timeouts, two runs of
  the work, one frame. The ring and the table overflow, and a recovery can
  be late enough to answer two timeouts. Theorems cover every size.

No symmetry is declared: many runs check liveness, and the others are small.

### Fairness

* Supervisor: weak fairness of the event loop and of the worker, two runnable
  threads. Nothing is assumed about the device, the timer or signals.
* Driver: calls that are running go on, an armed timer expires, a queued work
  item runs, an unload that began completes. No process has to call.
* Firmware: weak fairness of each task. The host need not send. Without time in
  the model, the tasks of higher priority could take turns on the mutex for
  ever; the sleeps in the code exclude this, so two properties about the fault
  monitor assume that it does not wait for the mutex for ever.
* Logger: the worker runs, and a call the caller has begun goes on. Nobody has
  to push, or to stop.
* Link: the bridge forwards towards the firmware and linkd goes on; both block only
  in poll. Nothing is assumed of the other direction. No write has to fail, and neither the
  firmware, the driver nor the supervisor has to send. The frames of the firmware are bounded: with a UART that
  always has more to read, linkd would never leave its inner loop and commands
  would wait for ever.

Deadlock is checked in the driver's and the firmware's runs. The others end:
when the program does, when the stream is read, when the log is replayed, when
the report is written, or when the bounds on frames and calls are used up.

## Proofs

For every value of the constants (assumptions: depths, the number of CPUs and the
wrap of numbers and timestamps are positive, bounds are natural numbers, the
frames and commands are of the declared kinds, `"timer"` and `"work"` are no
process names):

* **SupervisorProofs**: `TypeCorrect`, `WakeupSafe` and `ReadSafe` follow from
  the type invariant and their own induction. `QueuesBounded`,
  `RecoverySerial` and `RecoveringCommanded` need `IInv`. Its idea: a recovery
  is one token. It is requested (a RECOVER at the end of `queue_`), being sent
  (`worker = "send"`), or announced (a SENT on its way). There is at most one
  and only while the health state is DEGRADED, FAILED or SAFE_MODE (`Late`).
  `Owed` counts the reports on their way and the one an active recovery will
  still make; it is at most 3, and at most 1 outside `Late`. None of the three
  properties is inductive without this: that `queue_` is short depends on how
  often HEALTHY can be left, which depends on the reports still to be applied.
* **DriverProofs**: `DriverTypeCorrect`, then `WatchdogSafe`,
  `TimeoutRecovers`, `NoLostSleeper` and `UnloadSafe` from `DriverInv`, which
  adds `Stopped`: what each step of the unload has stopped stays stopped.
* **FirmwareProofs**: `FirmwareTypeCorrect`; `WholeFrames` from `MutexInv` (the
  task inside the critical section is the owner, the buffer and the line are
  its own); `QuietInSafeMode` from `QuietInv` (a task that has sent its one
  frame in safe mode is not about to send another).
* **LoggerProofs**: `LoggerTypeCorrect`; `WakeupNotLost` and
  `LoggerImplementsLogFile` from `PlaceInv`, which says what the two control
  points allow (a worker that has returned has left nothing behind and was told
  to stop; the caller past `start` has a worker). The refinement then goes
  action by action: a push is an `Accept`, a line is a `WriteLine`, taking a batch
  only moves events inside `out_ \o batch \o queue_` and is a stutter, and the
  join is the `Close`. Its algebra is in the lemmas `AppendLast` and `MoveFirst`.
* **LinkProofs**: `LinkTypeCorrect`; `NumbersDiffer` and `SynthNumbersDiffer` (two
  tasks, and two makers of the driver, never hold the same number between taking
  it and sending); and `UpImplementsLossyChannel` and `DownImplementsLossyChannel`
  from these three. The mapping concatenates the queues
  of a direction, so a step of the program is one of a few steps of the whole:
  moving a frame from one queue to the next is a stutter (`MoveFirst`), a
  refused push, a failed write or an injected drop loses an element in the middle
  (`LoseMiddle`), a damaged frame changes one there (`ChangeMiddle`), and a frame
  of the driver joins there (`JoinMiddle`). `UpStep` and `DownStep` then go action
  by action. `DiscardsExplained` needs `OneOfEach`: on the way every number of
  a counter occurs once (`EachOnce`), what was taken is not on the way any more,
  and every key in the table is that of a frame taken. It is shown from the steps
  of the abstract channel, not from those of the program (`EachOnceKept`,
  `NoneComesBack`).
* **DriverStatsProofs**: `TimelineFaithful` from `RingInv`, which says where each
  of the newest events is in the ring, before it is full and once it has wrapped;
  `WatermarkHolds`; `StatsTypeCorrect` from `Accounts` (a push is counted at most
  once in each place, so the counters stay below the pushes begun);
  `DropsCounted` from `DropInv`, in which the pushes between the two
  places where a drop is counted, and the CPUs a reset has not come to yet, are
  allowed for; `ReadsHold` from `BeatInv` (a heartbeat is counted after its frame, but
  for pushes that overlapped a reset) and `ReadInv` (what a reader has
  collected so far, with what the CPUs ahead of it hold now). None of the
  three properties mentions the half-done reset or the half-done read, so none is
  inductive by itself. A sum over the CPUs is the size of a set of pairs
  (`Counted`), which the facts about finite sets apply to.
* **FaultTimelineProofs**: `TimelineCausal`, for every size of the ring and of
  the table and any number of timeouts, recoveries and frames, from an invariant
  with four parts: types; the numbers of timeouts (`answered <= scheduled <= timeouts`,
  and while the timer is in its callback the timeout it is about is not scheduled
  yet); every two records, in the table, in the ring or one in each, are in
  a permitted order; and a recorded recovery has at most the number `answered`. The
  timer records its timeout before it queues the work, so the record it appends
  has a larger number than every recovery recorded so far. `CausalOrder` alone
  is not inductive: it does not know which timeout is being recorded. The steps on
  sequences are the lemmas `AppendOrdered` and `ConsumeOrdered`. `ReportCounts`
  comes from `CountInv`, which keeps accounts: the records of a kind in the table
  and in the ring, with the one its program still has in hand, are at most the
  counter (`CountedFirst`). `TimelineTypeCorrect` is the types.
* **OfflineProofs**: `RecoveriesClosed`, `ReplayBehind` and `OfflineTypeCorrect`, for
  every file. `ReplayBehind` says how far replay is from what `ReplayReproduces`
  asks: without a critical fault it ends in the state of the recorded run, or in
  RECOVERING when the last heartbeat was late (`ReplayOneBehind`). `Says` puts together what matters of a log: the state replay reaches at
  its end, whether the last heartbeat was late, whether a critical fault was acted
  on, whether a command waits for its result. `SaysMore` tells what one more line
  does to it; a frame appends a few lines, each by that lemma. `OInv` relates the
  end of the log to the state of `run_mock` (`Fits`) and the place of
  `run_replay` to the states on the way (`Tracks`). `ReplayOneBehind` speaks of
  the end only, so by itself it says nothing that a step could preserve. The states
  on the way are not a recursive definition but a function that exists
  (`Passes`): each line adds one state to it.

Run `tlapm M.tla`; the largest modules take about ten minutes. Only
model-checked:

* all liveness properties, because the proof system does not handle fairness;
* `Transport`, whose framers are recursive operators, as the loops of the code
  are: what they find in every stream would need induction over the stream, which is
  out of the provers' reach, and so are theorems in a module with such operators;
* `CyclesPaired` of `FaultTimeline`, which is about what a recursive function
  (the reporter's single pass) computes for every list.

## Disagreements noticed without a run

Five of them have a definition in a module. To see the trace, check the
definition under `Spec` with the constants of the configuration named.

* `FailureOfOwnRecovery` (`Supervisor`, `MCSupervisor.cfg`, a PROPERTY): after a
  heartbeat ended a recovery early, its FAILED report can be applied to the next
  recovery while the request for that one still waits (`event_loop.cpp:278`;
  reports carry no identity).
* `RecoveredIsNormal` (`Firmware`, `MCFirmware.cfg`, an INVARIANT):
  `fault_monitor_task.c:60` sends the report of a critical fault and then sets
  safe mode; a REQUEST_RECOVERY handled in between (`command_handler_task.c:123`)
  is reported as done, and safe mode is entered after it.
* `NothingDiscarded` (`Link`, `MCLink.cfg`, an INVARIANT): `safety_protocol.h:102`
  says that the sequence number serves to detect duplicates. No duplicate exists
  on the way, yet frames are discarded as such: after 65536 frames of the firmware
  its numbers are all in the table, which nothing prunes, and a FAULT_EVENT made
  by the driver has numbers from its own counter (`safety_copro_kfifo.c:197` says
  that these need not be strict) and can hide one of the firmware, or the reverse.
* `RestoredByLink` (`FaultTimeline`, `MCFaultTimeline.cfg`, an INVARIANT):
  `ebpf/README.md:183` and `safety_trace.bpf.c:149` take the first frame after a
  recovery for the restored heartbeat. That frame is often the recovery report
  which `recovery_work_fn` itself pushes, and may be a frame the supervisor writes.
* `FirstFrameOnly` (`FaultTimeline`, `MCFaultTimeline.cfg`, an INVARIANT):
  `safety_trace.bpf.c:432` says that only the first frame after a recovery is
  reported. The flag is tested and cleared in two steps, so programs on two CPUs
  may both see it raised and one recovery gets two HEARTBEAT_RESTORED. And when
  the ring is full the flag is cleared and the report lost.

Others:

* `safety_trace.bpf.c:423` takes the time of a restored heartbeat before it tests the
  flag, so it may lie before the time of the recovery it follows in the ring; the
  reporter subtracts the two as unsigned numbers.
* `docs/architecture.md:68` draws a critical fault from RECOVERING to SAFE_MODE;
  the RECOVERING row of `health_state_machine.cpp` does not have it.
* `safety_copro.h:105` calls `fifo_high_watermark` the largest occupancy
  observed; `RESET_STATS` zeroes it with frames queued.
* `safety_copro.h:55` says that in RECOVERING the work is in progress; the state
  stays until the next heartbeat or timeout.
* `event_loop.cpp:70` says that each heartbeat resets the timer. When a
  heartbeat and the timer are in one epoll result, the timeout is handled after
  the reset (`event_loop.cpp:117`: the handler runs whatever the read returned).
* `safety_copro_chrdev.c:331` and `safety_copro_timer.c:16`: setting the timeout
  also arms a watchdog that no heartbeat has started.
* `fault_monitor_task.c:58`: a critical fault cleared and injected again between
  two scans is not reported.
* `logger_worker.h:3` speaks of a bounded queue; it is a deque without a limit.
* `README.md:323` and `docs/build-and-run.md:301` of the repository say that the
  bridge drops every fifth HEARTBEAT; `fault_injector.cpp:68` counts the frames
  of all types and both directions, and the type filter comes second (`Dropped`
  in `Link`).
* Mock mode records a bad frame in the duplicate table and live mode does not
  (`main.cpp:203`): a retransmission is a duplicate in one, processed in the other.
* The firmware discards the whole header of an over-long frame, the host framers
  only its first byte; after such a header they can find different frames.

## Not modelled

* Formatting, log text, option parsing, opening devices, scripts: no decision of
  the system depends on them. safetyctl makes one call and prints the result; the
  calls are those of `Driver` and `DriverStats`.
* The eBPF programs on system calls and the scheduler, and the latency
  histograms: they sort differences of time into buckets, and time is not in the
  models.
* CRC-32 and packing: a frame is damaged or not. The order of the validation
  checks shows only in the text of an error.
* The files `last_fault` and `protocol_error` and the counters behind them, which
  are written and copied under the one lock.
* A restart of the firmware, whose numbers begin again at 0 while the supervisor
  keeps its table. `DiscardExplained` holds for one run of the firmware.
* `Supervisor`, `Driver` and `Firmware` as one state machine. `Link` composes what
  they exchange. The product of the three full models is out of TLC's reach:
  each of them has between 10^5 and 10^6 states by itself.
