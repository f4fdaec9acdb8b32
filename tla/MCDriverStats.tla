---------------------------- MODULE MCDriverStats ----------------------------
(***************************************************************************)
(* Module DriverStats for TLC: two CPUs, a queue of one frame so that a    *)
(* second one is dropped, a timeline of two entries so that it wraps.      *)
(***************************************************************************)
EXTENDS DriverStats
=============================================================================
