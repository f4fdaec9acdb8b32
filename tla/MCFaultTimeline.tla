-------------------------- MODULE MCFaultTimeline --------------------------
(***************************************************************************)
(* The fault timeline with a short ring buffer and a short event table.    *)
(***************************************************************************)
EXTENDS FaultTimeline
=============================================================================
