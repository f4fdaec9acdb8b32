------------------------------- MODULE MCDriver -------------------------------
(***************************************************************************)
(* The driver with a few processes, given as model values, and a short     *)
(* queue.  The state space is finite as it stands: nothing else is bounded.*)
(***************************************************************************)
EXTENDS Driver
===============================================================================
