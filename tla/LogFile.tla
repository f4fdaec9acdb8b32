------------------------------ MODULE LogFile ------------------------------
(***************************************************************************)
(* What LoggerWorker (userspace/safety-supervisord/logger_worker.h)        *)
(* promises its callers: events.jsonl receives the accepted events one     *)
(* line at a time, in the order in which they were accepted, and is closed *)
(* only when every accepted event is in it.                                *)
(***************************************************************************)
EXTENDS Naturals, Sequences

CONSTANT Event          \* the events that can be logged

VARIABLES accepted,     \* the events push() has taken, oldest first
          file,         \* the lines of events.jsonl
          closed        \* stop() has returned

vars == <<accepted, file, closed>>

Init == accepted = <<>> /\ file = <<>> /\ closed = FALSE

Accept(e) ==
    /\ ~closed
    /\ accepted' = Append(accepted, e)
    /\ UNCHANGED <<file, closed>>

\* The file grows by the oldest event it does not hold yet.
WriteLine ==
    /\ ~closed
    /\ Len(file) < Len(accepted)
    /\ file' = Append(file, accepted[Len(file) + 1])
    /\ UNCHANGED <<accepted, closed>>

Close ==
    /\ file = accepted
    /\ closed' = TRUE
    /\ UNCHANGED <<accepted, file>>

Next == (\E e \in Event : Accept(e)) \/ WriteLine \/ Close

Spec == Init /\ [][Next]_vars
=============================================================================
