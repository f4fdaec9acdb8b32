------------------------------- MODULE Firmware -------------------------------
(***************************************************************************)
(* The co-processor's firmware: the heartbeat, telemetry, fault monitor    *)
(* and command handler tasks, the fault flags they share, the queue the    *)
(* UART interrupt fills with commands, and the UART they all send on.      *)
(*                                                                         *)
(* The tasks run on two CPUs and preempt each other, so a step is one      *)
(* atomic operation on a flag, one kernel call, or the part of sending     *)
(* that can be overtaken: every atomic_get, atomic_set and atomic_clear is *)
(* a step of its own.                                                      *)
(*                                                                         *)
(* A frame is known by the task that sends it; its sequence number,        *)
(* timestamp and measurements are left out, and so are fault_count, which  *)
(* is only put in telemetry, and the time tasks sleep between rounds.      *)
(* What is not read again (ret, now, cmd, frame_buf) goes back to its      *)
(* initial value.                                                          *)
(* A definition with an underscore and a suffix is a variant with a        *)
(* plausible mistake; the specification does not use it.                   *)
(***************************************************************************)
EXTENDS Integers, Sequences

CONSTANTS
  Hosts,      \* the sets of commands that a host may send in one run
  QueueDepth  \* capacity of g_rx_msgq

Flag == {"inject_task_hang", "inject_checksum_error",
         "inject_critical_fault", "in_safe_mode"}

\* INJECT_FAULT is one command for each fault type it takes; OTHER is a
\* frame the handler refuses: an unknown command or fault type, a payload
\* of the wrong length, or a frame that is not a command.
Command == {"GET_STATUS", "INJECT_TASK_HANG", "INJECT_CHECKSUM_ERROR",
            "INJECT_CRITICAL", "RESET_FAULT_STATE", "ENTER_SAFE_MODE",
            "REQUEST_RECOVERY", "OTHER"}

ASSUME FirmwareAssumption ==
  /\ Hosts \subseteq SUBSET Command
  /\ QueueDepth \in Nat \ {0}

Tasks == {"heartbeat", "telemetry", "monitor", "command"}

\* Thread priorities, the smaller the more urgent.
Priority == [heartbeat |-> 4, command |-> 5, monitor |-> 6, telemetry |-> 7]

\* In safety_send_frame: called, blocked on tx_mutex, holding it, and
\* holding it with the frame partly on the wire.
Sending == {"send", "wait", "own", "tail"}

Pc == Sending \cup
      {"top",                             \* every task's loop
       "safe",                            \* heartbeat: second flag to read
       "critical", "edge", "enter_safe",  \* fault monitor
       "handle", "clear_checksum", "clear_critical", "clear_safe",
       "answer"}                          \* command handler

VARIABLES
  host,          \* the commands that come in this run
  g_rx_msgq,     \* commands waiting for the handler
  flag,          \* g_fault_state's flags
  tx_mutex,      \* the task that owns the mutex, or "none"
  frame_buf,     \* the task whose frame is packed in it, or "none"
  line,          \* the task whose frame is partly on the wire, or "none"
  pc,            \* control point of every task
  ret,           \* where a task goes on after safety_send_frame
  now, prev,     \* fault monitor: this round's flags, the last round's
  cmd,           \* command handler: the command being handled
  recovered,     \* history: REQUEST_RECOVERY was carried out, and no command
                 \*   since then set a flag
  sent_safe      \* history: frames of each periodic task since safe mode

txVars == <<tx_mutex, frame_buf, line>>
history == <<host, recovered, sent_safe>>
vars == <<g_rx_msgq, flag, txVars, pc, ret, now, prev, cmd, history>>

NoFault == [checksum |-> FALSE, critical |-> FALSE]

\* main(): flags cleared, no command received, all tasks at their loop.
Init ==
  /\ host \in Hosts
  /\ g_rx_msgq = <<>>
  /\ flag = [f \in Flag |-> FALSE]
  /\ tx_mutex = "none" /\ frame_buf = "none" /\ line = "none"
  /\ pc = [t \in Tasks |-> "top"]
  /\ ret = [t \in Tasks |-> "top"]
  /\ now = NoFault /\ prev = NoFault
  /\ cmd = "OTHER"
  /\ recovered = FALSE
  /\ sent_safe = [t \in {"heartbeat", "telemetry"} |-> 0]

Goto(t, p) == pc' = [pc EXCEPT ![t] = p]

\* Task t calls safety_send_frame and goes on at p when it returns.
CallSend(t, p) == Goto(t, "send") /\ ret' = [ret EXCEPT ![t] = p]

-------------------------------------------------------------------------------
(* safety_send_frame. *)

\* A plausible mistake: the static buffer is packed before the mutex is taken.
LockTx_PacksFirst(t) ==
  /\ pc[t] = "send"
  /\ frame_buf' = t
  /\ IF tx_mutex = "none" THEN tx_mutex' = t /\ Goto(t, "own")
                          ELSE UNCHANGED tx_mutex /\ Goto(t, "wait")
  /\ UNCHANGED <<g_rx_msgq, flag, line, ret, now, prev, cmd, history>>

\* k_mutex_lock.
LockTx(t) ==
  /\ pc[t] = "send"
  /\ IF tx_mutex = "none" THEN tx_mutex' = t /\ Goto(t, "own")
                          ELSE UNCHANGED tx_mutex /\ Goto(t, "wait")
  /\ UNCHANGED <<g_rx_msgq, flag, frame_buf, line, ret, now, prev, cmd,
                 history>>

\* The frame is packed in frame_buf and the first bytes are sent.
PackFrame(t) ==
  /\ pc[t] = "own"
  /\ frame_buf' = t
  /\ line' = t
  /\ Goto(t, "tail")
  /\ UNCHANGED <<g_rx_msgq, flag, tx_mutex, ret, now, prev, cmd, history>>

\* A plausible mistake: the mutex is freed and no waiter is woken.
Unlock_NoHandover(t) ==
  tx_mutex' = "none" /\ pc' = [pc EXCEPT ![t] = ret[t]]

\* k_mutex_unlock: the mutex passes to the waiter of highest priority.
Unlock(t) ==
  LET waiting == {u \in Tasks : pc[u] = "wait"} IN
  IF waiting = {}
    THEN tx_mutex' = "none" /\ pc' = [pc EXCEPT ![t] = ret[t]]
    ELSE \E u \in waiting :
           /\ \A v \in waiting : Priority[u] <= Priority[v]
           /\ tx_mutex' = u
           /\ pc' = [pc EXCEPT ![t] = ret[t], ![u] = "own"]

\* The rest of the frame goes out and the mutex is released.
FinishFrame(t) ==
  /\ pc[t] = "tail"
  /\ line' = "none"
  /\ frame_buf' = "none"
  /\ Unlock(t)
  /\ sent_safe' = IF t \in DOMAIN sent_safe /\ flag["in_safe_mode"]
                  THEN [sent_safe EXCEPT ![t] = @ + 1] ELSE sent_safe
  /\ ret' = [ret EXCEPT ![t] = "top"]
  /\ UNCHANGED <<host, g_rx_msgq, flag, now, prev, cmd, recovered>>

SendFrame(t) == LockTx(t) \/ PackFrame(t) \/ FinishFrame(t)

-------------------------------------------------------------------------------
(* The periodic tasks.  Waking from k_msleep is the step from "top". *)

HeartbeatReadsHang ==
  /\ pc["heartbeat"] = "top"
  /\ ~flag["inject_task_hang"]
  /\ Goto("heartbeat", "safe")
  /\ UNCHANGED <<g_rx_msgq, flag, txVars, ret, now, prev, cmd, history>>

\* A plausible mistake: the heartbeat goes on in safe mode.
HeartbeatReadsSafe_NotChecked ==
  /\ pc["heartbeat"] = "safe"
  /\ CallSend("heartbeat", "top")
  /\ UNCHANGED <<g_rx_msgq, flag, txVars, now, prev, cmd, history>>

HeartbeatReadsSafe ==
  /\ pc["heartbeat"] = "safe"
  /\ IF flag["in_safe_mode"]
       THEN Goto("heartbeat", "top") /\ UNCHANGED ret
       ELSE CallSend("heartbeat", "top")
  /\ UNCHANGED <<g_rx_msgq, flag, txVars, now, prev, cmd, history>>

TelemetryReadsSafe ==
  /\ pc["telemetry"] = "top"
  /\ ~flag["in_safe_mode"]
  /\ CallSend("telemetry", "top")
  /\ UNCHANGED <<g_rx_msgq, flag, txVars, now, prev, cmd, history>>

HeartbeatTask ==
  HeartbeatReadsHang \/ HeartbeatReadsSafe \/ SendFrame("heartbeat")

TelemetryTask == TelemetryReadsSafe \/ SendFrame("telemetry")

-------------------------------------------------------------------------------
(* The fault monitor: edges of the injection flags. *)

ReadChecksum ==
  /\ pc["monitor"] = "top"
  /\ now' = [now EXCEPT !.checksum = flag["inject_checksum_error"]]
  /\ Goto("monitor", "critical")
  /\ UNCHANGED <<g_rx_msgq, flag, txVars, ret, prev, cmd, history>>

\* The second flag is read; a new checksum fault is reported.
ReadCritical ==
  /\ pc["monitor"] = "critical"
  /\ now' = [now EXCEPT !.critical = flag["inject_critical_fault"]]
  /\ IF now.checksum /\ ~prev.checksum
       THEN CallSend("monitor", "edge")
       ELSE Goto("monitor", "edge") /\ UNCHANGED ret
  /\ UNCHANGED <<g_rx_msgq, flag, txVars, prev, cmd, history>>

\* A new critical fault is reported; otherwise the round ends.
CriticalEdge ==
  /\ pc["monitor"] = "edge"
  /\ IF now.critical /\ ~prev.critical
       THEN /\ CallSend("monitor", "enter_safe")
            /\ UNCHANGED <<now, prev>>
       ELSE /\ Goto("monitor", "top")
            /\ prev' = now
            /\ now' = NoFault
            /\ UNCHANGED ret
  /\ UNCHANGED <<g_rx_msgq, flag, txVars, cmd, history>>

\* A plausible mistake: the report is sent, safe mode is not entered.
EnterSafeMode_Forgotten ==
  /\ pc["monitor"] = "enter_safe"
  /\ prev' = now
  /\ now' = NoFault
  /\ Goto("monitor", "top")
  /\ UNCHANGED <<g_rx_msgq, flag, txVars, ret, cmd, history>>

EnterSafeMode ==
  /\ pc["monitor"] = "enter_safe"
  /\ flag' = [flag EXCEPT !["in_safe_mode"] = TRUE]
  /\ prev' = now
  /\ now' = NoFault
  /\ Goto("monitor", "top")
  /\ UNCHANGED <<g_rx_msgq, txVars, ret, cmd, history>>

MonitorTask ==
  \/ ReadChecksum \/ ReadCritical \/ CriticalEdge \/ EnterSafeMode
  \/ SendFrame("monitor")

-------------------------------------------------------------------------------
(* The UART interrupt and the command handler. *)

\* k_msgq_put with K_NO_WAIT: a command that finds the queue full is lost.
MsgqPut(c) ==
  g_rx_msgq' = IF Len(g_rx_msgq) < QueueDepth THEN Append(g_rx_msgq, c)
                                              ELSE g_rx_msgq

\* rx_feed_byte completes a frame that validates.
UartIsr ==
  /\ \E c \in host : MsgqPut(c)
  /\ UNCHANGED <<flag, txVars, pc, ret, now, prev, cmd, history>>

TakeCommand ==
  /\ pc["command"] = "top"
  /\ g_rx_msgq # <<>>
  /\ cmd' = Head(g_rx_msgq)
  /\ g_rx_msgq' = Tail(g_rx_msgq)
  /\ Goto("command", "handle")
  /\ UNCHANGED <<flag, txVars, ret, now, prev, history>>

Handling(p) == pc["command"] = p

\* GET_STATUS sends telemetry and then the ACK; a refused frame gets a NACK.
Reply ==
  /\ Handling("handle")
  /\ cmd \in {"GET_STATUS", "OTHER"}
  /\ CallSend("command", IF cmd = "GET_STATUS" THEN "answer" ELSE "top")
  /\ cmd' = "OTHER"
  /\ UNCHANGED <<g_rx_msgq, flag, txVars, now, prev, history>>

\* apply_inject, and the ACK.
ApplyInject ==
  /\ Handling("handle")
  /\ \/ /\ cmd = "INJECT_TASK_HANG"
        /\ flag' = [flag EXCEPT !["inject_task_hang"] = TRUE]
     \/ /\ cmd = "INJECT_CHECKSUM_ERROR"
        /\ flag' = [flag EXCEPT !["inject_checksum_error"] = TRUE]
     \/ /\ cmd = "INJECT_CRITICAL"
        /\ flag' = [flag EXCEPT !["inject_critical_fault"] = TRUE]
  /\ recovered' = FALSE
  /\ CallSend("command", "top")
  /\ cmd' = "OTHER"
  /\ UNCHANGED <<host, g_rx_msgq, txVars, now, prev, sent_safe>>

HandleEnterSafeMode ==
  /\ Handling("handle")
  /\ cmd = "ENTER_SAFE_MODE"
  /\ flag' = [flag EXCEPT !["in_safe_mode"] = TRUE]
  /\ recovered' = FALSE
  /\ CallSend("command", "top")
  /\ cmd' = "OTHER"
  /\ UNCHANGED <<host, g_rx_msgq, txVars, now, prev, sent_safe>>

\* clear_all_injects, for RESET_FAULT_STATE and REQUEST_RECOVERY: three
\* flags, one after the other.
ClearHang ==
  /\ Handling("handle")
  /\ cmd \in {"RESET_FAULT_STATE", "REQUEST_RECOVERY"}
  /\ flag' = [flag EXCEPT !["inject_task_hang"] = FALSE]
  /\ Goto("command", "clear_checksum")
  /\ UNCHANGED <<g_rx_msgq, txVars, ret, now, prev, cmd, history>>

ClearChecksum ==
  /\ Handling("clear_checksum")
  /\ flag' = [flag EXCEPT !["inject_checksum_error"] = FALSE]
  /\ Goto("command", "clear_critical")
  /\ UNCHANGED <<g_rx_msgq, txVars, ret, now, prev, cmd, history>>

ClearCritical ==
  /\ Handling("clear_critical")
  /\ flag' = [flag EXCEPT !["inject_critical_fault"] = FALSE]
  /\ Goto("command", "clear_safe")
  /\ UNCHANGED <<g_rx_msgq, txVars, ret, now, prev, cmd, history>>

\* Safe mode is left; a recovery is reported before it is acknowledged.
ClearSafeMode ==
  /\ Handling("clear_safe")
  /\ flag' = [flag EXCEPT !["in_safe_mode"] = FALSE]
  /\ IF cmd = "REQUEST_RECOVERY"
       THEN CallSend("command", "answer") /\ recovered' = TRUE
       ELSE CallSend("command", "top") /\ UNCHANGED recovered
  /\ cmd' = "OTHER"
  /\ sent_safe' = [t \in DOMAIN sent_safe |-> 0]
  /\ UNCHANGED <<host, g_rx_msgq, txVars, now, prev>>

\* The ACK that follows another frame.
Answer ==
  /\ Handling("answer")
  /\ CallSend("command", "top")
  /\ UNCHANGED <<g_rx_msgq, flag, txVars, now, prev, cmd, history>>

CommandTask ==
  \/ TakeCommand \/ Reply \/ ApplyInject \/ HandleEnterSafeMode
  \/ ClearHang \/ ClearChecksum \/ ClearCritical \/ ClearSafeMode \/ Answer
  \/ SendFrame("command")

-------------------------------------------------------------------------------
Next == HeartbeatTask \/ TelemetryTask \/ MonitorTask \/ CommandTask \/ UartIsr

Spec == Init /\ [][Next]_vars

\* Every task that can run does, in time: there are two CPUs, and the tasks
\* of higher priority sleep or block after each round.  The host need not
\* send anything.
FairSpec ==
  /\ Spec
  /\ WF_vars(HeartbeatTask) /\ WF_vars(TelemetryTask)
  /\ WF_vars(MonitorTask) /\ WF_vars(CommandTask)

-------------------------------------------------------------------------------
\* The flags, the tasks' control points and the message queue keep their types.
TypeOK ==
  /\ host \in Hosts
  /\ g_rx_msgq \in Seq(Command) /\ Len(g_rx_msgq) <= QueueDepth
  /\ flag \in [Flag -> BOOLEAN]
  /\ tx_mutex \in Tasks \cup {"none"}
  /\ frame_buf \in Tasks \cup {"none"}
  /\ line \in Tasks \cup {"none"}
  /\ pc \in [Tasks -> Pc]
  /\ ret \in [Tasks -> Pc \ Sending]
  /\ now \in [checksum: BOOLEAN, critical: BOOLEAN]
  /\ prev \in [checksum: BOOLEAN, critical: BOOLEAN]
  /\ cmd \in Command
  /\ recovered \in BOOLEAN
  /\ sent_safe \in [{"heartbeat", "telemetry"} -> Nat]

\* Frames reach the wire whole: a task that has sent the first part of its
\* frame finds its own frame in the shared buffer and nothing of another on
\* the wire when it sends the rest (safety_send_frame's static frame_buf).
FramesWhole ==
  \A t \in Tasks :
    pc[t] = "tail" => tx_mutex = t /\ frame_buf = t /\ line = t

\* In safe mode periodic data stops: a task sends at most the one frame it
\* had decided on before the flag was set, however long safe mode lasts.
SafeModeQuiet ==
  flag["in_safe_mode"] => \A t \in DOMAIN sent_safe : sent_safe[t] <= 1

\* A critical fault the monitor has not seen yet puts the firmware in safe
\* mode, unless a command clears it first, provided the monitor does not
\* wait for tx_mutex forever.  (Without time the model lets the two tasks of
\* higher priority take turns for ever; in the code one of them sleeps for
\* longer than frames take to send.)
CriticalEntersSafeMode ==
  []<>(pc["monitor"] # "wait") =>
    (flag["inject_critical_fault"] /\ ~prev.critical ~>
       flag["in_safe_mode"] \/ ~flag["inject_critical_fault"])

\* The command handler finishes every command it takes, whatever the other
\* tasks send meanwhile.
CommandFinished == Handling("handle") ~> Handling("top")

\* The heartbeat goes on: while it is neither hung nor in safe mode it sends
\* again and again, whatever the other tasks send.
HeartbeatContinues ==
  <>[](~flag["inject_task_hang"] /\ ~flag["in_safe_mode"])
    => []<>(pc["heartbeat"] = "tail")

-------------------------------------------------------------------------------
(* What comments in the firmware say of it that does not hold. *)

\* command_handler_task.c: REQUEST_RECOVERY clears the hang and leaves safe
\* mode, so that the heartbeat comes back.  So until another command sets a
\* flag, the firmware is in neither.
RecoveredIsNormal ==
  recovered => ~flag["inject_task_hang"] /\ ~flag["in_safe_mode"]
===============================================================================
