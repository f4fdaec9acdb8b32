------------------------------- MODULE Link -------------------------------
(***************************************************************************)
(* The serial link from end to end, frame by frame.  Towards the host: the *)
(* firmware's tasks number and send frames, pty_bridge passes them through *)
(* its fault injector, safety-linkd pushes them to the driver, which adds  *)
(* frames of its own, and the supervisor drops what it takes for a         *)
(* duplicate.  Towards the firmware: the supervisor's event loop answers   *)
(* frames, its recovery worker sends commands, both into the driver,       *)
(* safety-linkd pops them and writes them to the UART, the bridge passes   *)
(* them on.                                                                *)
(*                                                                         *)
(* A frame is its type, the counter it was numbered from, that counter's   *)
(* value and whether its checksum is right; the number in the frame is the *)
(* value modulo SeqNumbers.  How frames are cut out of bytes is in         *)
(* Transport, what the supervisor and the firmware do with them in         *)
(* Supervisor and Firmware.  The injector's delay is time only.            *)
(* A definition with an underscore and a suffix (LinkdPops_Peeks) is a     *)
(* variant with a plausible mistake; the specification does not use it.    *)
(***************************************************************************)
EXTENDS Integers, Sequences

CONSTANTS
  SeqNumbers,       \* how many sequence numbers there are (2^16 in the code)
  RxDepth, TxDepth, \* capacities of the driver's queues
  LineSize,         \* frames a line (a PTY and the tty behind it) holds
  drop_every, corrupt_every,  \* the injector's options, 0 to switch one off
  DropTypes,      \* the types it may drop: one, or all
  MaxSent,        \* bound: frames from the firmware
  MaxSynth,       \* bound: frames from the driver
  MaxCommands     \* bound: frames from the supervisor

ASSUME LinkAssumption ==
  /\ {SeqNumbers, RxDepth, TxDepth, LineSize} \subseteq Nat \ {0}
  /\ {drop_every, corrupt_every, MaxSent, MaxSynth, MaxCommands} \subseteq Nat

\* Two of the firmware's tasks, and the type of the frames each sends.
Tasks == {"heartbeat", "monitor"}
TypeSent == [heartbeat |-> "HEARTBEAT", monitor |-> "FAULT_EVENT"]
UpFrame == [type : {"HEARTBEAT", "FAULT_EVENT"}, origin : {"firmware", "driver"},
            n : Nat, ok : BOOLEAN]
DownFrame == [type : {"COMMAND", "ACK", "NACK"}, origin : {"supervisor"},
              n : Nat, ok : BOOLEAN]
None == [ok |-> FALSE]
Seq16(f) == f.n % SeqNumbers

\* Where the driver makes a FAULT_EVENT of its own: in the callback of the
\* watchdog and in SAFETY_IOC_INJECT_FAULT.
Makers == {"timer", "ioctl"}

VARIABLES
  tx_sequence,    \* the firmware's counter
  number,         \* the number a task took for the frame it is sending, or -1
  synth_seq,      \* the driver's counter
  synth,          \* the number a maker took for the frame it is pushing, or -1
  commands,       \* the supervisor's counter
  requests,       \* the numbers of the commands its worker has yet to write
  line,           \* frames on the four lines, the oldest first
  frame_counter,  \* frames the injector has seen, in both directions
  rx_fifo, tx_fifo, \* the driver's queues
  linkd,          \* control point of safety-linkd
  held,           \* the command safety-linkd has popped, if any
  seen,           \* the supervisor's table of (type, number)
  accepted,       \* history: the frames it took for new ones
  discarded,      \* history: the frame it last took for a duplicate, if any
  got             \* history: the last frame to come out, in each direction

vars == <<tx_sequence, number, synth_seq, synth, commands, requests, line,
          frame_counter, rx_fifo, tx_fifo, linkd, held, seen, accepted, discarded, got>>
fwVars     == <<tx_sequence, number>>
drvVars    == <<synth_seq, synth>>
loopVars   == <<commands, requests>>
superVars  == <<seen, accepted, discarded>>

\* fw_out and host_in carry frames to the host, host_out and fw_in to the
\* firmware; the bridge moves them from the first to the second.
Lines == {"fw_out", "host_in", "host_out", "fw_in"}

Init ==
  /\ tx_sequence = 0 /\ number = [t \in Tasks |-> -1]
  /\ synth_seq = 0 /\ synth = [m \in Makers |-> -1]
  /\ commands = 0 /\ requests = {}
  /\ line = [l \in Lines |-> <<>>] /\ frame_counter = 0
  /\ rx_fifo = <<>> /\ tx_fifo = <<>>
  /\ linkd = "poll" /\ held = <<>>
  /\ seen = {} /\ accepted = {} /\ discarded = None
  /\ got = [up |-> None, down |-> None]

----------------------------------------------------------------------------
(* The firmware. *)

\* safety_send_frame up to the mutex: atomic_inc of the counter.
TakeNumber(t) ==
  /\ number[t] = -1
  /\ tx_sequence < MaxSent
  /\ number' = [number EXCEPT ![t] = tx_sequence]
  /\ tx_sequence' = tx_sequence + 1
  /\ UNCHANGED <<drvVars, loopVars, line, frame_counter, rx_fifo, tx_fifo>>
  /\ UNCHANGED <<linkd, held, superVars, got>>

\* The rest of it: the frame goes out whole, under tx_mutex.
SendFrame(t) ==
  /\ number[t] # -1
  /\ Len(line["fw_out"]) < LineSize
  /\ line' = [line EXCEPT !["fw_out"] =
                Append(@, [type |-> TypeSent[t], origin |-> "firmware",
                           n |-> number[t], ok |-> TRUE])]
  /\ number' = [number EXCEPT ![t] = -1]
  /\ UNCHANGED <<tx_sequence, drvVars, loopVars, frame_counter, rx_fifo>>
  /\ UNCHANGED <<tx_fifo, linkd, held, superVars, got>>

\* uart_isr takes a command off the line.
FirmwareReceives ==
  /\ line["fw_in"] # <<>>
  /\ got' = [got EXCEPT !.down = Head(line["fw_in"])]
  /\ line' = [line EXCEPT !["fw_in"] = Tail(@)]
  /\ UNCHANGED <<fwVars, drvVars, loopVars, frame_counter, rx_fifo, tx_fifo>>
  /\ UNCHANGED <<linkd, held, superVars>>

----------------------------------------------------------------------------
(* The bridge. *)

Every(k, n) == n > 0 /\ k % n = 0

\* FaultInjector::process for a frame that is the k-th it sees: whether the
\* frame is dropped, and the frame that is passed on.
Dropped(f, k) == f.type \in DropTypes /\ Every(k, drop_every)
PassedOn(f, k) == [f EXCEPT !.ok = @ /\ ~Every(k, corrupt_every)]

\* forward for one frame: the write may fail, when the line is full or
\* nobody has opened the other end, and the frame is given up.
Forward(from, to) ==
  /\ line[from] # <<>>
  /\ frame_counter' = frame_counter + 1
  /\ LET f == Head(line[from])
         rest == [line EXCEPT ![from] = Tail(@)]
     IN  \/ /\ Dropped(f, frame_counter')
            /\ line' = rest
         \/ /\ ~Dropped(f, frame_counter')
            /\ \/ /\ Len(line[to]) < LineSize
                  /\ line' = [rest EXCEPT ![to] =
                                Append(@, PassedOn(f, frame_counter'))]
               \/ line' = rest
  /\ UNCHANGED <<fwVars, drvVars, loopVars, rx_fifo, tx_fifo, linkd, held>>
  /\ UNCHANGED <<superVars, got>>

----------------------------------------------------------------------------
(* safety-linkd. *)

LinkdUnchanged ==
  /\ UNCHANGED <<fwVars, drvVars, loopVars, frame_counter, superVars, got>>

\* safety-linkd ends after a signal, its duration, or an error of poll or of
\* reading the UART.
LinkdStops ==
  /\ linkd \in {"poll", "read"}
  /\ linkd' = "stopped"
  /\ UNCHANGED <<line, rx_fifo, tx_fifo, held>> /\ LinkdUnchanged

\* The top of the loop: poll returns after 100 ms at the latest.
LinkdPolls_InputOnly ==
  /\ linkd = "poll"
  /\ linkd' = IF line["host_in"] # <<>> THEN "read" ELSE "poll"
  /\ UNCHANGED <<line, rx_fifo, tx_fifo, held>> /\ LinkdUnchanged
LinkdPolls ==
  /\ linkd = "poll"
  /\ linkd' = IF line["host_in"] # <<>> THEN "read" ELSE "pop"
  /\ UNCHANGED <<line, rx_fifo, tx_fifo, held>> /\ LinkdUnchanged

\* The inner loop over the UART: push_rx_frame for every frame, which the
\* driver refuses when rx_fifo is full, until nothing more is there.
LinkdPushes_TwiceIfFull ==
  /\ linkd = "read" /\ line["host_in"] # <<>>
  /\ \/ /\ Len(rx_fifo) < RxDepth
        /\ rx_fifo' = Append(rx_fifo, Head(line["host_in"]))
        /\ line' = IF Len(rx_fifo') = RxDepth THEN line
                   ELSE [line EXCEPT !["host_in"] = Tail(@)]
     \/ /\ Len(rx_fifo) = RxDepth
        /\ UNCHANGED <<rx_fifo, line>>
  /\ UNCHANGED <<tx_fifo, linkd, held>> /\ LinkdUnchanged
LinkdPushes ==
  /\ linkd = "read" /\ line["host_in"] # <<>>
  /\ line' = [line EXCEPT !["host_in"] = Tail(@)]
  /\ \/ /\ Len(rx_fifo) < RxDepth
        /\ rx_fifo' = Append(rx_fifo, Head(line["host_in"]))
     \/ /\ Len(rx_fifo) = RxDepth
        /\ UNCHANGED rx_fifo
  /\ UNCHANGED <<tx_fifo, linkd, held>> /\ LinkdUnchanged
LinkdReadEmpty ==
  /\ linkd = "read" /\ line["host_in"] = <<>>
  /\ linkd' = "pop"
  /\ UNCHANGED <<line, rx_fifo, tx_fifo, held>> /\ LinkdUnchanged

\* The inner loop over the commands: pop_tx_frame, until there is none.
LinkdPops_Peeks ==
  /\ linkd = "pop" /\ tx_fifo # <<>>
  /\ held' = <<Head(tx_fifo)>>
  /\ linkd' = "write"
  /\ UNCHANGED <<line, rx_fifo, tx_fifo>> /\ LinkdUnchanged
LinkdPops ==
  /\ linkd = "pop" /\ tx_fifo # <<>>
  /\ held' = <<Head(tx_fifo)>> /\ tx_fifo' = Tail(tx_fifo)
  /\ linkd' = "write"
  /\ UNCHANGED <<line, rx_fifo>> /\ LinkdUnchanged
LinkdPopEmpty ==
  /\ linkd = "pop" /\ tx_fifo = <<>>
  /\ linkd' = "poll"
  /\ UNCHANGED <<line, rx_fifo, tx_fifo, held>> /\ LinkdUnchanged

\* write_all: it tries again as long as the line takes nothing (EAGAIN).
LinkdWrites ==
  /\ linkd = "write"
  /\ Len(line["host_out"]) < LineSize
  /\ line' = [line EXCEPT !["host_out"] = Append(@, held[1])]
  /\ held' = <<>>
  /\ linkd' = "pop"
  /\ UNCHANGED <<rx_fifo, tx_fifo>> /\ LinkdUnchanged

\* write_all returns false after any other error, and the command is lost.
LinkdWriteFails ==
  /\ linkd = "write"
  /\ held' = <<>>
  /\ linkd' = "pop"
  /\ UNCHANGED <<line, rx_fifo, tx_fifo>> /\ LinkdUnchanged

LinkdStep ==
  \/ LinkdPolls \/ LinkdPushes \/ LinkdReadEmpty
  \/ LinkdPops \/ LinkdPopEmpty \/ LinkdWrites

----------------------------------------------------------------------------
(* The driver and the supervisor. *)

\* safety_synth_and_push takes a number under the lock, and then pushes the
\* frame under it once more; the frame is dropped when rx_fifo is full.
TakeSynthSeq(m) ==
  /\ synth[m] = -1
  /\ synth_seq < MaxSynth
  /\ synth' = [synth EXCEPT ![m] = synth_seq]
  /\ synth_seq' = synth_seq + 1
  /\ UNCHANGED <<fwVars, loopVars, line, frame_counter, rx_fifo, tx_fifo>>
  /\ UNCHANGED <<linkd, held, superVars, got>>
PushSynth(m) ==
  /\ synth[m] # -1
  /\ synth' = [synth EXCEPT ![m] = -1]
  /\ \/ /\ Len(rx_fifo) < RxDepth
        /\ rx_fifo' = Append(rx_fifo, [type |-> "FAULT_EVENT", origin |-> "driver",
                                       n |-> synth[m], ok |-> TRUE])
     \/ /\ Len(rx_fifo) = RxDepth
        /\ UNCHANGED rx_fifo
  /\ UNCHANGED <<fwVars, synth_seq, loopVars, line, frame_counter, tx_fifo>>
  /\ UNCHANGED <<linkd, held, superVars, got>>

\* process_frames for one frame: a bad checksum, a duplicate, a new frame.
Handle_BadOnesSeen(f) ==
  LET key == <<f.type, Seq16(f)>>
  IN  \/ /\ key \in seen
         /\ discarded' = f
         /\ UNCHANGED <<seen, accepted>>
      \/ /\ key \notin seen
         /\ seen' = seen \cup {key}
         /\ accepted' = IF f.ok THEN accepted \cup {f} ELSE accepted
         /\ UNCHANGED discarded
Handle(f) ==
  LET key == <<f.type, Seq16(f)>>
  IN  \/ /\ ~f.ok
         /\ UNCHANGED superVars
      \/ /\ f.ok /\ key \in seen
         /\ discarded' = f
         /\ UNCHANGED <<seen, accepted>>
      \/ /\ f.ok /\ key \notin seen
         /\ seen' = seen \cup {key}
         /\ accepted' = accepted \cup {f}
         /\ UNCHANGED discarded

\* send_out: the frame goes into tx_fifo, or is refused when that is full.
SendOut(type, n) ==
  \/ /\ Len(tx_fifo) < TxDepth
     /\ tx_fifo' = Append(tx_fifo, [type |-> type, origin |-> "supervisor",
                                    n |-> n, ok |-> TRUE])
  \/ /\ Len(tx_fifo) = TxDepth
     /\ UNCHANGED tx_fifo

\* A bad frame is answered by a NACK and a new heartbeat by an ACK; nothing
\* else is answered.
Answered(f) ==
  \/ ~f.ok
  \/ f.type = "HEARTBEAT" /\ <<f.type, Seq16(f)>> \notin seen
Answer(f) ==
  \/ /\ Answered(f)
     /\ commands < MaxCommands
     /\ commands' = commands + 1
     /\ SendOut(IF f.ok THEN "ACK" ELSE "NACK", commands)
  \/ /\ ~Answered(f)
     /\ UNCHANGED <<commands, tx_fifo>>

SupervisorReads ==
  /\ rx_fifo # <<>>
  /\ Handle(Head(rx_fifo))
  /\ Answer(Head(rx_fifo))
  /\ rx_fifo' = Tail(rx_fifo)
  /\ got' = [got EXCEPT !.up = Head(rx_fifo)]
  /\ UNCHANGED <<fwVars, drvVars, requests, line, frame_counter, linkd, held>>

\* on_heartbeat_timeout: the event loop takes a number for the command that it
\* asks the recovery worker to send.
RequestRecovery ==
  /\ commands < MaxCommands
  /\ commands' = commands + 1
  /\ requests' = requests \cup {commands}
  /\ UNCHANGED <<fwVars, drvVars, line, frame_counter, rx_fifo, tx_fifo>>
  /\ UNCHANGED <<linkd, held, superVars, got>>

\* The worker sends the command it was asked for first.
WorkerSends(n) ==
  /\ \A m \in requests : n <= m
  /\ requests' = requests \ {n}
  /\ SendOut("COMMAND", n)
  /\ UNCHANGED <<fwVars, drvVars, commands, line, frame_counter, rx_fifo>>
  /\ UNCHANGED <<linkd, held, superVars, got>>

Next ==
  \/ \E t \in Tasks : TakeNumber(t) \/ SendFrame(t)
  \/ FirmwareReceives
  \/ Forward("fw_out", "host_in") \/ Forward("host_out", "fw_in")
  \/ LinkdStops \/ LinkdStep \/ LinkdWriteFails
  \/ \E m \in Makers : TakeSynthSeq(m) \/ PushSynth(m)
  \/ SupervisorReads \/ RequestRecovery
  \/ \E n \in requests : WorkerSends(n)

Spec == Init /\ [][Next]_vars

\* The bridge, in the direction of the firmware, and safety-linkd keep running
\* as long as they have something to do: each is one thread that blocks only in
\* poll.  No write has to fail.
FairSpec ==
  /\ Spec
  /\ WF_vars(LinkdStep)
  /\ WF_vars(Forward("host_out", "fw_in"))

----------------------------------------------------------------------------
(* Properties. *)

\* Queues and lines keep their types and their bounds (kfifo_is_full in the
\* driver, one frame held by safety-linkd).
FrameOn(l) == IF l \in {"fw_out", "host_in"} THEN UpFrame ELSE DownFrame
LinkdAt == {"poll", "read", "pop", "write", "stopped"}
HeldAt(p) == IF p = "write" THEN 1 ELSE 0
TypeOK ==
  /\ tx_sequence \in 0..MaxSent /\ number \in [Tasks -> -1..MaxSent]
  /\ synth_seq \in 0..MaxSynth /\ synth \in [Makers -> -1..MaxSynth]
  /\ commands \in 0..MaxCommands /\ requests \subseteq 0..(commands - 1)
  /\ DOMAIN line = Lines /\ frame_counter \in Nat
  /\ \A l \in Lines : line[l] \in Seq(FrameOn(l)) /\ Len(line[l]) <= LineSize
  /\ rx_fifo \in Seq(UpFrame) /\ Len(rx_fifo) <= RxDepth
  /\ tx_fifo \in Seq(DownFrame) /\ Len(tx_fifo) <= TxDepth
  /\ linkd \in LinkdAt /\ held \in Seq(DownFrame) /\ Len(held) = HeldAt(linkd)
  /\ seen \subseteq {"HEARTBEAT", "FAULT_EVENT"} \X (0..(SeqNumbers - 1))
  /\ accepted \subseteq UpFrame /\ discarded \in UpFrame \cup {None}
  /\ got \in [up : UpFrame \cup {None}, down : DownFrame \cup {None}]

\* Towards the host, bridge, safety-linkd and driver together are a channel
\* that loses and damages frames but neither doubles nor reorders them; the
\* driver's own frames join it on the way.
FwSent == (0..(tx_sequence - 1)) \ {number[t] : t \in Tasks}
SynthSent == (0..(synth_seq - 1)) \ {synth[m] : m \in Makers}
SentUp == ({"firmware"} \X FwSent) \cup ({"driver"} \X SynthSent)
InflightUp == rx_fifo \o line["host_in"] \o line["fw_out"]
Up == INSTANCE LossyChannel WITH
        Near <- [type : {"HEARTBEAT", "FAULT_EVENT"}, origin : {"firmware"},
                 n : 0..MaxSent, ok : {TRUE}],
        Far <- [type : {"FAULT_EVENT"}, origin : {"driver"},
                n : 0..MaxSynth, ok : {TRUE}],
        sent <- SentUp, inflight <- InflightUp,
        got <- got.up
UpIsLossyChannel == Up!Spec

\* Towards the firmware, driver, safety-linkd and bridge are such a channel
\* too: no command or answer is sent twice or overtakes another one in tx_fifo.
SentDown == {"supervisor"} \X ((0..(commands - 1)) \ requests)
InflightDown == line["fw_in"] \o line["host_out"] \o held \o tx_fifo
Down == INSTANCE LossyChannel WITH
          Near <- [type : {"COMMAND", "ACK", "NACK"}, origin : {"supervisor"},
                   n : 0..MaxCommands, ok : {TRUE}],
          Far <- {},
          sent <- SentDown, inflight <- InflightDown,
          got <- got.down
DownIsLossyChannel == Down!Spec

\* What the supervisor discards as a duplicate has the type and number of a
\* frame it took before, and that was another frame: one from the other
\* counter, or from the same counter, which has then used up its numbers.  So
\* no heartbeat is discarded before the firmware has sent SeqNumbers frames.
Counter(origin) == IF origin = "firmware" THEN tx_sequence ELSE synth_seq
DiscardExplained ==
  discarded # None =>
    \E f \in accepted :
      /\ f.type = discarded.type /\ Seq16(f) = Seq16(discarded)
      /\ \/ f.origin # discarded.origin
         \/ f.n # discarded.n /\ Counter(f.origin) > SeqNumbers

\* A command in tx_fifo is popped and written, or its write fails, unless
\* safety-linkd is stopped: the wait for room in write_all ends, because the
\* bridge never waits in turn.
CommandLeaves ==
  \A k \in 0..(MaxCommands - 1) :
    LET waits == \E i \in DOMAIN (held \o tx_fifo) : (held \o tx_fifo)[i].n = k
    IN  waits ~> (~waits \/ linkd = "stopped")

\* No frame is discarded as a duplicate: nothing on the way doubles one.
\* The sequence number is there to tell duplicates (safety_protocol.h).
NothingDiscarded == discarded = None
=============================================================================
