---------------------------- MODULE MCSupervisor ----------------------------
(***************************************************************************)
(* Small instances of Supervisor for TLC.                                  *)
(***************************************************************************)
EXTENDS Supervisor, TLC

CONSTANTS b1, b2, f1   \* sequence numbers

Beat(n)     == [type |-> "HEARTBEAT", seq |-> n, ok |-> TRUE, severity |-> 0]
Fault(n, s) == [type |-> "FAULT_EVENT", seq |-> n, ok |-> TRUE, severity |-> s]
Corrupt     == [type |-> "HEARTBEAT", seq |-> f1, ok |-> FALSE, severity |-> 0]
Telemetry   == [type |-> "OTHER", seq |-> f1, ok |-> TRUE, severity |-> 0]

MCSeqs == {b1, b2, f1}

\* Two heartbeats: one to become HEALTHY and one to end a recovery, so that a
\* second one can begin.  The driver and the firmware may both number a fault
\* event f1; the later one is then a duplicate.
MCFrames == {Beat(b1), Beat(b2), Fault(f1, 1), Fault(f1, 2), Corrupt, Telemetry}
=============================================================================
