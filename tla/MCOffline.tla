------------------------------ MODULE MCOffline ------------------------------
(***************************************************************************)
(* Offline for TLC: timestamps of two bits and a timeout of 1, so that     *)
(* gaps of 2 and 3 are late, across the wrap too.                          *)
(***************************************************************************)
EXTENDS Offline

Beat(seq, ts) ==
    [ok |-> TRUE, type |-> "HEARTBEAT", seq |-> seq, ts |-> ts, severity |-> 0]
Fault(severity) ==
    [ok |-> TRUE, type |-> "FAULT_EVENT", seq |-> 1, ts |-> 0, severity |-> severity]

\* Heartbeats at three times, one of them also corrupt, a warning and a critical
\* fault, and telemetry.
MCFrames ==
    {Beat(s, t) : s \in Seq16, t \in {0, 1, 3}}
      \cup {[Beat(1, 0) EXCEPT !.ok = FALSE], Fault(1), Fault(2)}
      \cup {[Fault(0) EXCEPT !.type = "TELEMETRY"]}
=============================================================================
