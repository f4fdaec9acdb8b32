------------------------------ MODULE Offline ------------------------------
(***************************************************************************)
(* The two offline modes of safety-supervisord, one after the other, as    *)
(* the host demo runs them: run_mock feeds the frames of a recorded file   *)
(* to the health state machine, with the clock taken from the frames, and  *)
(* logs to events.jsonl; run_replay feeds that log to a state machine of   *)
(* its own.  Both are single-threaded; that the log holds what was pushed, *)
(* in order, is shown in Logger.  What run_replay prints and logs itself   *)
(* is left out.                                                            *)
(* A definition with an underscore and a suffix (Asks_Always) is a variant *)
(* with a plausible mistake; the specification does not use it.            *)
(***************************************************************************)
EXTENDS Integers, Sequences, HealthFsm

CONSTANTS Frames,       \* the frames a file can hold, see Frame
          Seq16,        \* sequence numbers
          Wrap,         \* timestamps wrap here (2^32 in the code)
          HbTimeout,    \* --hb-timeout-ms
          MaxFrames     \* bound: how many frames the file holds

\* A parsed frame: validate_result, type, sequence number, time, severity.
Frame == [ok: BOOLEAN,
          type: {"HEARTBEAT", "FAULT_EVENT", "TELEMETRY"},
          seq: Seq16, ts: 0..(Wrap - 1), severity: 0..2]

ASSUME OfflineAssumption ==
    /\ Wrap \in Nat \ {0} /\ HbTimeout \in Nat /\ MaxFrames \in Nat
    /\ Frames \subseteq Frame

VARIABLES
    mode,           \* "mock", then "replay", then "done"
    left,           \* how many frames the file may still hold
    fsm,            \* the health state of run_mock
    have_last_hb, last_hb_ts,   \* the last heartbeat processed
    in_recovery,    \* a recovery was requested and not yet answered
    seen,           \* the duplicate table
    log,            \* events.jsonl
    line,           \* how many lines run_replay has read
    replay_fsm      \* the health state of run_replay

mockVars == <<left, fsm, have_last_hb, last_hb_ts, in_recovery, seen, log>>
replayVars == <<line, replay_fsm>>
vars == <<mode, mockVars, replayVars>>

Init ==
    /\ mode = "mock" /\ left = MaxFrames
    /\ fsm = "BOOTING" /\ replay_fsm = "BOOTING"
    /\ have_last_hb = FALSE /\ last_hb_ts = 0
    /\ in_recovery = FALSE
    /\ seen = {}
    /\ log = <<>> /\ line = 0

-----------------------------------------------------------------------------
(* Lines of the log. *)

Event(kind) == [kind |-> kind, frame_type |-> "", from_state |-> "",
                to_state |-> "", detail |-> ""]
FrameEvent(kind, type) == [Event(kind) EXCEPT !.frame_type = type]

\* The hook of the state machine: a line for every valid transition.
Changed(state, event) ==
    IF Valid(state, event)
    THEN <<[Event("state_change") EXCEPT !.from_state = state,
                                         !.to_state = Apply(state, event),
                                         !.detail = event]>>
    ELSE <<>>

When(condition, lines) == IF condition THEN lines ELSE <<>>

-----------------------------------------------------------------------------
(* run_mock, frame by frame. *)

Key(f) == <<f.type, f.seq>>

NextFrame == mode = "mock" /\ left > 0 /\ left' = left - 1
Fresh(f) == f.ok /\ Key(f) \notin seen /\ seen' = seen \cup {Key(f)}

\* A frame that fails validation is NACKed and still enters the table.
BadFrame(f) ==
    /\ NextFrame
    /\ ~f.ok
    /\ log' = log \o <<FrameEvent("checksum_error", f.type), FrameEvent("tx_nack", "NACK")>>
    /\ seen' = seen \cup {Key(f)}
    /\ UNCHANGED <<mode, fsm, have_last_hb, last_hb_ts, in_recovery, replayVars>>

DuplicateFrame(f) ==
    /\ NextFrame
    /\ f.ok /\ Key(f) \in seen
    /\ log' = Append(log, FrameEvent("duplicate", f.type))
    /\ UNCHANGED <<mode, fsm, have_last_hb, last_hb_ts, in_recovery, seen, replayVars>>

\* The time since the last heartbeat, in unsigned arithmetic.
Late(f) == have_last_hb /\ (f.ts - last_hb_ts) % Wrap > HbTimeout

\* The event a heartbeat stands for.
HeartbeatEvent(state) ==
    IF state = "RECOVERING" THEN "HEARTBEAT_RESTORED" ELSE "HEARTBEAT_OK"

\* What one heartbeat does to the state machine: a gap is a timeout, which
\* takes HEALTHY through DEGRADED to RECOVERING, and then the heartbeat counts.
Asks_Always(f) == Late(f)
Asks(f) == Late(f) /\ fsm = "HEALTHY"
AfterTimeout(f) == IF Late(f) THEN Apply(fsm, "HEARTBEAT_TIMEOUT") ELSE fsm
AfterCommand(f) ==
    IF Asks(f) THEN Apply(AfterTimeout(f), "RECOVERY_SENT") ELSE AfterTimeout(f)
AfterHeartbeat(f) == Apply(AfterCommand(f), HeartbeatEvent(AfterCommand(f)))

Heartbeat(f) ==
    LET pending == in_recovery \/ Asks(f)
        success == pending /\ AfterCommand(f) = "RECOVERING"
    IN  /\ NextFrame
        /\ Fresh(f) /\ f.type = "HEARTBEAT"
        /\ log' = log \o <<FrameEvent("rx_frame", "HEARTBEAT")>>
                  \o When(Late(f), <<FrameEvent("timeout", "HEARTBEAT")>>
                                   \o Changed(fsm, "HEARTBEAT_TIMEOUT"))
                  \o When(Asks(f), <<[FrameEvent("tx_command", "COMMAND")
                                        EXCEPT !.detail = "REQUEST_RECOVERY"]>>
                                   \o Changed(AfterTimeout(f), "RECOVERY_SENT"))
                  \o Changed(AfterCommand(f), HeartbeatEvent(AfterCommand(f)))
                  \o When(success, <<[Event("recovery_result")
                                        EXCEPT !.detail = "RECOVERY_SUCCESS"]>>)
                  \o <<FrameEvent("tx_ack", "ACK")>>
        /\ fsm' = AfterHeartbeat(f)
        /\ in_recovery' = (pending /\ ~success)
        /\ have_last_hb' = TRUE
        /\ last_hb_ts' = f.ts
        /\ UNCHANGED <<mode, replayVars>>

\* A fault event counts only when it is critical; its line says nothing of the
\* severity.
FaultEvent(f) ==
    /\ NextFrame
    /\ Fresh(f) /\ f.type = "FAULT_EVENT"
    /\ IF f.severity >= 2
       THEN /\ log' = log \o <<FrameEvent("rx_frame", f.type)>> \o Changed(fsm, "CRITICAL_FAULT")
            /\ fsm' = Apply(fsm, "CRITICAL_FAULT")
       ELSE /\ log' = Append(log, FrameEvent("rx_frame", f.type))
            /\ UNCHANGED fsm
    /\ UNCHANGED <<mode, have_last_hb, last_hb_ts, in_recovery, replayVars>>

OtherFrame(f) ==
    /\ NextFrame
    /\ Fresh(f) /\ f.type = "TELEMETRY"
    /\ log' = Append(log, FrameEvent("rx_frame", f.type))
    /\ UNCHANGED <<mode, fsm, have_last_hb, last_hb_ts, in_recovery, replayVars>>

\* The file ends, the logger is stopped, and the log is replayed.
EndOfFile ==
    /\ mode = "mock"
    /\ mode' = "replay"
    /\ UNCHANGED <<mockVars, replayVars>>

-----------------------------------------------------------------------------
(* run_replay, line by line. *)

\* The event a line of the log stands for, or "none".  (The code looks for the
\* words inside the detail.)
ReplayEvent(state, e) ==
    CASE e.kind = "rx_frame" /\ e.frame_type = "HEARTBEAT" -> HeartbeatEvent(state)
      [] e.kind = "rx_frame" /\ e.frame_type = "FAULT_EVENT"
           /\ e.detail \in {"critical", "severity=2"} -> "CRITICAL_FAULT"
      [] e.kind = "timeout" -> "HEARTBEAT_TIMEOUT"
      [] e.kind = "tx_command" /\ e.detail = "REQUEST_RECOVERY" -> "RECOVERY_SENT"
      [] OTHER -> "none"

ReplayLine ==
    /\ mode = "replay"
    /\ line < Len(log)
    /\ replay_fsm' = Apply(replay_fsm, ReplayEvent(replay_fsm, log[line + 1]))
    /\ line' = line + 1
    /\ UNCHANGED <<mode, mockVars>>

EndOfReplay ==
    /\ mode = "replay"
    /\ line = Len(log)
    /\ mode' = "done"
    /\ UNCHANGED <<mockVars, replayVars>>

Next ==
    \/ \E f \in Frames : \/ BadFrame(f) \/ DuplicateFrame(f) \/ Heartbeat(f)
                         \/ FaultEvent(f) \/ OtherFrame(f)
    \/ EndOfFile
    \/ ReplayLine
    \/ EndOfReplay

Spec == Init /\ [][Next]_vars

-----------------------------------------------------------------------------
\* The two state machines, the table and the place in the log keep their types.
TypeOK ==
    /\ mode \in {"mock", "replay", "done"}
    /\ left \in 0..MaxFrames
    /\ fsm \in HealthState /\ replay_fsm \in HealthState
    /\ have_last_hb \in BOOLEAN /\ in_recovery \in BOOLEAN
    /\ last_hb_ts \in 0..(Wrap - 1)
    /\ seen \subseteq {Key(f) : f \in Frames}
    /\ line \in 0..Len(log)

\* Line j of a log is the result of the command of line i.
Closes(l, i, j) ==
    /\ i < j /\ l[i].kind = "tx_command" /\ l[j].kind = "recovery_result"
    /\ \A k \in (i + 1)..(j - 1) : l[k].kind \notin {"tx_command", "recovery_result"}

\* Every command has its result before the next command, and every result is
\* the result of a command.
Paired(l) ==
    \A n \in DOMAIN l :
        /\ l[n].kind = "tx_command" => \E j \in DOMAIN l : Closes(l, n, j)
        /\ l[n].kind = "recovery_result" => \E i \in DOMAIN l : Closes(l, i, n)

\* In mock mode a recovery never outlives its frame: the heartbeat that shows
\* the gap also ends the recovery, every command has its result before the
\* next one, and DEGRADED, RECOVERING and FAILED are never left standing.
\* (main.cpp, run_mock: in_recovery is cleared only in RECOVERING.)
RecoveryClosed ==
    /\ ~in_recovery
    /\ fsm \in {"BOOTING", "HEALTHY", "SAFE_MODE"}
    /\ Paired(log)

\* Replaying the log of a run ends in the state the run ended in.
\* (docs/build-and-run.md:187: replay can be used to verify that the state
\* machine behaves as it did at the time.  The code does not do this.)
ReplayReproduces == mode = "done" => replay_fsm = fsm

\* A critical fault was acted on; a recovery was requested at the last heartbeat.
CriticalSeen == \E i \in DOMAIN log : log[i].to_state = "SAFE_MODE"
LastWasLate ==
    \E i \in DOMAIN log :
        /\ log[i].kind = "tx_command"
        /\ \A j \in (i + 1)..Len(log) :
               log[j].kind = "rx_frame" => log[j].frame_type # "HEARTBEAT"

\* What run_replay does instead: without a critical fault, replay ends in the
\* state of the recorded run, or is one heartbeat behind it when the last
\* heartbeat came late.  (The line of a heartbeat is written before the lines
\* of the timeout it reveals, so replay applies it first; the line of a
\* critical fault says nothing that replay would recognise.)
ReplayOneBehind ==
    mode = "done" /\ ~CriticalSeen =>
        replay_fsm = IF LastWasLate THEN "RECOVERING" ELSE fsm
=============================================================================
