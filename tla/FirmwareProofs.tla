---------------------------- MODULE FirmwareProofs ----------------------------
(***************************************************************************)
(* The firmware for any set of commands and any depth of the queue: frames *)
(* reach the wire whole, and safe mode silences the periodic tasks.        *)
(***************************************************************************)
EXTENDS Firmware, SequenceTheorems, TLAPS

\* The tasks that send periodically.
Periodic == {"heartbeat", "telemetry"}

\* tx_mutex is what keeps frames whole: its owner is the one task past
\* k_mutex_lock, and only the owner has something in frame_buf and on the line.
MutexInv ==
  /\ \A t \in Tasks : pc[t] \in {"own", "tail"} <=> tx_mutex = t
  /\ \A t \in Tasks : pc[t] = "tail" <=> line = t
  /\ \A t \in Tasks : pc[t] = "tail" <=> frame_buf = t

\* A periodic task counts no frame outside safe mode, and none in it before
\* the one it is sending is through.
QuietInv ==
  \A t \in Periodic :
    /\ sent_safe[t] \in {0, 1}
    /\ ~flag["in_safe_mode"] => sent_safe[t] = 0
    /\ pc[t] \in Sending => sent_safe[t] = 0

-------------------------------------------------------------------------------
\* The firmware starts type correct (main() clears the flags and starts the
\* tasks at their loops).
LEMMA FirmwareTypeInit == Init => TypeOK
PROOF
  <1> SUFFICES ASSUME Init PROVE TypeOK
    OBVIOUS
  <1>1. g_rx_msgq \in Seq(Command) /\ Len(g_rx_msgq) <= QueueDepth
    <2>1. g_rx_msgq = <<>> BY DEF Init
    <2> QED BY <2>1, EmptySeq, FirmwareAssumption
  <1>2. 0 \in Nat
    OBVIOUS
  <1> QED
    BY <1>1, <1>2, Zenon DEF Init, TypeOK, Tasks, Pc, Sending, NoFault, Command

\* Sending a frame keeps the types (safety_send_frame).
LEMMA SendType ==
  ASSUME TypeOK, NEW t \in Tasks, SendFrame(t)
  PROVE  TypeOK'
PROOF
  <1>1. CASE LockTx(t)
    BY <1>1 DEF LockTx, TypeOK, Goto, Pc, Sending, history
  <1>2. CASE PackFrame(t)
    BY <1>2 DEF PackFrame, TypeOK, Goto, Pc, Sending, history
  <1>3. CASE FinishFrame(t)
    <2>1. tx_mutex' \in Tasks \cup {"none"} /\ pc' \in [Tasks -> Pc]
      BY <1>3 DEF FinishFrame, Unlock, TypeOK, Pc, Sending
    <2>2. sent_safe' \in [{"heartbeat", "telemetry"} -> Nat]
      BY <1>3 DEF FinishFrame, TypeOK
    <2>3. ret' \in [Tasks -> Pc \ Sending]
      BY <1>3 DEF FinishFrame, TypeOK, Pc, Sending
    <2> QED
      BY <1>3, <2>1, <2>2, <2>3 DEF FinishFrame, TypeOK
  <1> QED
    BY <1>1, <1>2, <1>3 DEF SendFrame

\* Every step keeps the types: the queue stays within its depth because the
\* interrupt drops what finds it full.
LEMMA FirmwareTypeStep == TypeOK /\ [Next]_vars => TypeOK'
PROOF
  <1> SUFFICES ASSUME TypeOK, [Next]_vars PROVE TypeOK'
    OBVIOUS
  <1> USE DEF Goto, CallSend, Handling, txVars, history
  <1>1. CASE UNCHANGED vars
    BY <1>1 DEF vars, TypeOK
  <1>2. CASE \E t \in Tasks : SendFrame(t)
    BY <1>2, SendType
  <1>3. CASE UartIsr
    <2>1. PICK c \in host : MsgqPut(c)
      BY <1>3 DEF UartIsr
    <2>2. c \in Command /\ g_rx_msgq \in Seq(Command) /\ Len(g_rx_msgq) \in Nat
      BY <2>1, FirmwareAssumption, LenProperties DEF TypeOK
    <2>3. g_rx_msgq' \in Seq(Command) /\ Len(g_rx_msgq') <= QueueDepth
      BY <2>1, <2>2, AppendProperties, FirmwareAssumption DEF MsgqPut, TypeOK
    <2> QED
      BY <1>3, <2>3 DEF UartIsr, TypeOK
  <1>4. CASE TakeCommand
    <2>1. g_rx_msgq \in Seq(Command) /\ g_rx_msgq # <<>>
      BY <1>4 DEF TakeCommand, TypeOK
    <2>2. /\ Head(g_rx_msgq) \in Command
          /\ Tail(g_rx_msgq) \in Seq(Command)
          /\ Len(Tail(g_rx_msgq)) = Len(g_rx_msgq) - 1
          /\ Len(g_rx_msgq) \in Nat
      BY <2>1, HeadTailProperties, LenProperties
    <2>3. Len(Tail(g_rx_msgq)) <= QueueDepth
      BY <2>2, FirmwareAssumption DEF TypeOK
    <2> QED
      BY <1>4, <2>2, <2>3 DEF TakeCommand, TypeOK, Pc, Tasks
  <1>5. CASE HeartbeatReadsHang
    BY <1>5 DEF HeartbeatReadsHang, TypeOK, Pc, Sending,
                Tasks, Flag, Command, NoFault
  <1>6. CASE HeartbeatReadsSafe
    BY <1>6 DEF HeartbeatReadsSafe, TypeOK, Pc, Sending,
                Tasks, Flag, Command, NoFault
  <1>7. CASE TelemetryReadsSafe
    BY <1>7 DEF TelemetryReadsSafe, TypeOK, Pc, Sending,
                Tasks, Flag, Command, NoFault
  <1>8. CASE ReadChecksum
    BY <1>8 DEF ReadChecksum, TypeOK, Pc, Sending,
                Tasks, Flag, Command, NoFault
  <1>9. CASE ReadCritical
    BY <1>9 DEF ReadCritical, TypeOK, Pc, Sending,
                Tasks, Flag, Command, NoFault
  <1>10. CASE CriticalEdge
    <2>1. recovered' \in BOOLEAN
      BY <1>10, Zenon DEF CriticalEdge, TypeOK
    <2>2. pc' \in [Tasks -> Pc] /\ ret' \in [Tasks -> Pc \ Sending]
      BY <1>10 DEF CriticalEdge, TypeOK, Pc, Sending, Tasks
    <2>3. flag' \in [Flag -> BOOLEAN]
      BY <1>10 DEF CriticalEdge, TypeOK, Flag
    <2>4. /\ now' \in [checksum: BOOLEAN, critical: BOOLEAN]
          /\ prev' \in [checksum: BOOLEAN, critical: BOOLEAN]
      <3>1. NoFault \in [checksum: BOOLEAN, critical: BOOLEAN]
        BY DEF NoFault
      <3> QED
        BY <1>10, <3>1, Zenon DEF CriticalEdge, TypeOK
    <2> QED
      BY <1>10, <2>1, <2>2, <2>3, <2>4, Zenon DEF CriticalEdge, TypeOK
  <1>11. CASE EnterSafeMode
    BY <1>11 DEF EnterSafeMode, TypeOK, Pc, Sending,
                Tasks, Flag, Command, NoFault
  <1>12. CASE Reply
    BY <1>12 DEF Reply, TypeOK, Pc, Sending,
                Tasks, Flag, Command, NoFault
  <1>13. CASE ApplyInject
    <2>1. recovered' \in BOOLEAN
      BY <1>13, Zenon DEF ApplyInject, TypeOK
    <2>2. pc' \in [Tasks -> Pc] /\ ret' \in [Tasks -> Pc \ Sending]
      BY <1>13 DEF ApplyInject, TypeOK, Pc, Sending, Tasks
    <2>3. flag' \in [Flag -> BOOLEAN]
      BY <1>13 DEF ApplyInject, TypeOK, Flag
    <2> QED
      BY <1>13, <2>1, <2>2, <2>3 DEF ApplyInject, TypeOK, NoFault, Command
  <1>14. CASE HandleEnterSafeMode
    <2>1. recovered' \in BOOLEAN
      BY <1>14, Zenon DEF HandleEnterSafeMode, TypeOK
    <2>2. pc' \in [Tasks -> Pc] /\ ret' \in [Tasks -> Pc \ Sending]
      BY <1>14 DEF HandleEnterSafeMode, TypeOK, Pc, Sending, Tasks
    <2>3. flag' \in [Flag -> BOOLEAN]
      BY <1>14 DEF HandleEnterSafeMode, TypeOK, Flag
    <2> QED
      BY <1>14, <2>1, <2>2, <2>3 DEF HandleEnterSafeMode, TypeOK, NoFault, Command
  <1>15. CASE ClearHang
    BY <1>15 DEF ClearHang, TypeOK, Pc, Sending,
                Tasks, Flag, Command, NoFault
  <1>16. CASE ClearChecksum
    BY <1>16 DEF ClearChecksum, TypeOK, Pc, Sending,
                Tasks, Flag, Command, NoFault
  <1>17. CASE ClearCritical
    <2>1. recovered' \in BOOLEAN
      BY <1>17, Zenon DEF ClearCritical, TypeOK
    <2>2. pc' \in [Tasks -> Pc] /\ ret' \in [Tasks -> Pc \ Sending]
      BY <1>17 DEF ClearCritical, TypeOK, Pc, Sending, Tasks
    <2>3. flag' \in [Flag -> BOOLEAN]
      BY <1>17 DEF ClearCritical, TypeOK, Flag
    <2> QED
      BY <1>17, <2>1, <2>2, <2>3 DEF ClearCritical, TypeOK, NoFault, Command
  <1>18. CASE ClearSafeMode
    <2>1. recovered' \in BOOLEAN
      BY <1>18, Zenon DEF ClearSafeMode, TypeOK
    <2>2. pc' \in [Tasks -> Pc] /\ ret' \in [Tasks -> Pc \ Sending]
      BY <1>18 DEF ClearSafeMode, TypeOK, Pc, Sending, Tasks
    <2>3. flag' \in [Flag -> BOOLEAN]
      BY <1>18 DEF ClearSafeMode, TypeOK, Flag
    <2> QED
      BY <1>18, <2>1, <2>2, <2>3 DEF ClearSafeMode, TypeOK, NoFault, Command
  <1>19. CASE Answer
    BY <1>19 DEF Answer, TypeOK, Pc, Sending,
                Tasks, Flag, Command, NoFault
  <1> QED
    BY <1>1, <1>2, <1>3, <1>4, <1>5, <1>6, <1>7, <1>8, <1>9, <1>10, <1>11,
       <1>12, <1>13, <1>14, <1>15, <1>16, <1>17, <1>18, <1>19
    DEF Next, HeartbeatTask, TelemetryTask, MonitorTask, CommandTask, Tasks

-------------------------------------------------------------------------------
\* Only the owner of tx_mutex is past k_mutex_lock, and unlocking hands it to
\* one waiter: no step of any task brings a second frame onto the line.
LEMMA MutexStep == TypeOK /\ MutexInv /\ [Next]_vars => MutexInv'
PROOF
  <1> SUFFICES ASSUME TypeOK, MutexInv, [Next]_vars PROVE MutexInv'
    OBVIOUS
  <1> USE DEF Goto, CallSend, Handling, txVars
  <1>1. CASE UNCHANGED vars
    BY <1>1 DEF vars, MutexInv
  <1>2. CASE \E t \in Tasks : SendFrame(t)
    <2> PICK t \in Tasks : SendFrame(t)
      BY <1>2
    <2>0. "none" \notin Tasks
      BY DEF Tasks
    <2>1. CASE LockTx(t)
      BY <2>0, <2>1 DEF LockTx, MutexInv, TypeOK
    <2>2. CASE PackFrame(t)
      BY <2>0, <2>2 DEF PackFrame, MutexInv, TypeOK
    <2>3. CASE FinishFrame(t)
      <3>1. ret[t] \notin Sending
        BY DEF TypeOK
      <3>2. CASE {u \in Tasks : pc[u] = "wait"} = {}
        BY <2>0, <2>3, <3>1, <3>2
        DEF FinishFrame, Unlock, MutexInv, TypeOK, Sending
      <3>3. CASE {u \in Tasks : pc[u] = "wait"} # {}
        <4>1. PICK u \in Tasks : /\ pc[u] = "wait" /\ tx_mutex' = u
                                /\ pc' = [pc EXCEPT ![t] = ret[t], ![u] = "own"]
          BY <2>3, <3>3 DEF FinishFrame, Unlock
        <4> QED
          BY <2>0, <2>3, <3>1, <4>1 DEF FinishFrame, MutexInv, TypeOK, Sending
      <3> QED
        BY <3>2, <3>3
    <2> QED
      BY <2>1, <2>2, <2>3 DEF SendFrame
  <1>3. CASE UartIsr
    BY <1>3 DEF UartIsr, MutexInv
  <1>4. CASE HeartbeatReadsHang
    BY <1>4 DEF HeartbeatReadsHang, MutexInv, TypeOK, Tasks
  <1>5. CASE HeartbeatReadsSafe
    BY <1>5 DEF HeartbeatReadsSafe, MutexInv, TypeOK, Tasks
  <1>6. CASE TelemetryReadsSafe
    BY <1>6 DEF TelemetryReadsSafe, MutexInv, TypeOK, Tasks
  <1>7. CASE ReadChecksum
    BY <1>7 DEF ReadChecksum, MutexInv, TypeOK, Tasks
  <1>8. CASE ReadCritical
    BY <1>8 DEF ReadCritical, MutexInv, TypeOK, Tasks
  <1>9. CASE CriticalEdge
    BY <1>9 DEF CriticalEdge, MutexInv, TypeOK, Tasks
  <1>10. CASE EnterSafeMode
    BY <1>10 DEF EnterSafeMode, MutexInv, TypeOK, Tasks
  <1>11. CASE TakeCommand
    BY <1>11 DEF TakeCommand, MutexInv, TypeOK, Tasks
  <1>12. CASE Reply
    BY <1>12 DEF Reply, MutexInv, TypeOK, Tasks
  <1>13. CASE ApplyInject
    BY <1>13 DEF ApplyInject, MutexInv, TypeOK, Tasks
  <1>14. CASE HandleEnterSafeMode
    BY <1>14 DEF HandleEnterSafeMode, MutexInv, TypeOK, Tasks
  <1>15. CASE ClearHang
    BY <1>15 DEF ClearHang, MutexInv, TypeOK, Tasks
  <1>16. CASE ClearChecksum
    BY <1>16 DEF ClearChecksum, MutexInv, TypeOK, Tasks
  <1>17. CASE ClearCritical
    BY <1>17 DEF ClearCritical, MutexInv, TypeOK, Tasks
  <1>18. CASE ClearSafeMode
    BY <1>18 DEF ClearSafeMode, MutexInv, TypeOK, Tasks
  <1>19. CASE Answer
    BY <1>19 DEF Answer, MutexInv, TypeOK, Tasks
  <1> QED
    BY <1>1, <1>2, <1>3, <1>4, <1>5, <1>6, <1>7, <1>8, <1>9, <1>10, <1>11,
       <1>12, <1>13, <1>14, <1>15, <1>16, <1>17, <1>18, <1>19
    DEF Next, HeartbeatTask, TelemetryTask, MonitorTask, CommandTask, Tasks

\* In safe mode a periodic task gets to safety_send_frame only with a decision
\* taken before, and a frame that ends leaves it outside.
LEMMA QuietStep == TypeOK /\ QuietInv /\ [Next]_vars => QuietInv'
PROOF
  <1> SUFFICES ASSUME TypeOK, QuietInv, [Next]_vars PROVE QuietInv'
    OBVIOUS
  <1> USE DEF Goto, CallSend, Handling, txVars, history, Periodic
  <1>1. CASE UNCHANGED vars
    BY <1>1 DEF vars, QuietInv
  <1>2. CASE \E t \in Tasks : SendFrame(t)
    <2> PICK t \in Tasks : SendFrame(t)
      BY <1>2
    <2>1. CASE LockTx(t)
      BY <2>1 DEF LockTx, QuietInv, TypeOK, Sending, Tasks
    <2>2. CASE PackFrame(t)
      BY <2>2 DEF PackFrame, QuietInv, TypeOK, Sending, Tasks
    <2>3. CASE FinishFrame(t)
      <3>1. ret[t] \notin Sending /\ pc[t] = "tail"
        BY <2>3 DEF TypeOK, FinishFrame
      <3>2. \A u \in Tasks : pc'[u] \in Sending => pc[u] \in Sending /\ u # t
        BY <2>3, <3>1 DEF FinishFrame, Unlock, TypeOK, Sending
      <3> QED
        BY <2>3, <3>1, <3>2 DEF FinishFrame, QuietInv, TypeOK, Sending, Tasks
    <2> QED
      BY <2>1, <2>2, <2>3 DEF SendFrame
  <1>3. CASE UartIsr
    BY <1>3 DEF UartIsr, QuietInv
  <1>4. CASE HeartbeatReadsHang
    BY <1>4 DEF HeartbeatReadsHang, QuietInv, TypeOK, Sending, Tasks, Flag
  <1>5. CASE HeartbeatReadsSafe
    BY <1>5 DEF HeartbeatReadsSafe, QuietInv, TypeOK, Sending, Tasks, Flag
  <1>6. CASE TelemetryReadsSafe
    BY <1>6 DEF TelemetryReadsSafe, QuietInv, TypeOK, Sending, Tasks, Flag
  <1>7. CASE ReadChecksum
    BY <1>7 DEF ReadChecksum, QuietInv, TypeOK, Sending, Tasks, Flag
  <1>8. CASE ReadCritical
    BY <1>8 DEF ReadCritical, QuietInv, TypeOK, Sending, Tasks, Flag
  <1>9. CASE CriticalEdge
    BY <1>9 DEF CriticalEdge, QuietInv, TypeOK, Sending, Tasks, Flag
  <1>10. CASE EnterSafeMode
    BY <1>10 DEF EnterSafeMode, QuietInv, TypeOK, Sending, Tasks, Flag
  <1>11. CASE TakeCommand
    BY <1>11 DEF TakeCommand, QuietInv, TypeOK, Sending, Tasks, Flag
  <1>12. CASE Reply
    BY <1>12 DEF Reply, QuietInv, TypeOK, Sending, Tasks, Flag
  <1>13. CASE ApplyInject
    BY <1>13 DEF ApplyInject, QuietInv, TypeOK, Sending, Tasks, Flag
  <1>14. CASE HandleEnterSafeMode
    BY <1>14 DEF HandleEnterSafeMode, QuietInv, TypeOK, Sending, Tasks, Flag
  <1>15. CASE ClearHang
    BY <1>15 DEF ClearHang, QuietInv, TypeOK, Sending, Tasks, Flag
  <1>16. CASE ClearChecksum
    BY <1>16 DEF ClearChecksum, QuietInv, TypeOK, Sending, Tasks, Flag
  <1>17. CASE ClearCritical
    BY <1>17 DEF ClearCritical, QuietInv, TypeOK, Sending, Tasks, Flag
  <1>18. CASE ClearSafeMode
    BY <1>18 DEF ClearSafeMode, QuietInv, TypeOK, Sending, Tasks, Flag
  <1>19. CASE Answer
    BY <1>19 DEF Answer, QuietInv, TypeOK, Sending, Tasks, Flag
  <1> QED
    BY <1>1, <1>2, <1>3, <1>4, <1>5, <1>6, <1>7, <1>8, <1>9, <1>10, <1>11,
       <1>12, <1>13, <1>14, <1>15, <1>16, <1>17, <1>18, <1>19
    DEF Next, HeartbeatTask, TelemetryTask, MonitorTask, CommandTask, Tasks

-------------------------------------------------------------------------------
\* The firmware is type correct for every set of commands and queue depth; in
\* particular g_rx_msgq never holds more than it has room for.
THEOREM FirmwareTypeCorrect == Spec => []TypeOK
PROOF
  BY FirmwareTypeInit, FirmwareTypeStep, PTL DEF Spec

\* Frames reach the wire whole, whatever the tasks do: safety_send_frame's
\* static buffer and the UART belong to one task at a time.
THEOREM WholeFrames == Spec => []FramesWhole
PROOF
  <1>1. Init => MutexInv
    BY DEF Init, MutexInv, Tasks
  <1>2. MutexInv => FramesWhole
    BY DEF MutexInv, FramesWhole
  <1> QED
    BY <1>1, <1>2, FirmwareTypeCorrect, MutexStep, PTL DEF Spec

\* In safe mode the heartbeat and telemetry tasks each send at most the one
\* frame they had decided on before.
THEOREM QuietInSafeMode == Spec => []SafeModeQuiet
PROOF
  <1>1. Init => QuietInv
    BY DEF Init, QuietInv, Tasks, Flag, Periodic, Sending
  <1>2. TypeOK /\ QuietInv => SafeModeQuiet
    BY DEF QuietInv, SafeModeQuiet, TypeOK, Periodic
  <1> QED
    BY <1>1, <1>2, FirmwareTypeCorrect, QuietStep, PTL DEF Spec
===============================================================================
