------------------------------ MODULE MCLink ------------------------------
(***************************************************************************)
(* Module Link for TLC: lines and queues of one frame, so that each of     *)
(* them fills up, and two sequence numbers, so that they wrap.  The        *)
(* injector drops and damages frames in turn.                              *)
(***************************************************************************)
EXTENDS Link

AllTypes == {"HEARTBEAT", "FAULT_EVENT", "COMMAND", "ACK", "NACK"}
=============================================================================
