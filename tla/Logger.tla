------------------------------- MODULE Logger -------------------------------
(***************************************************************************)
(* The logger of safety-supervisord (logger_worker.cpp): the thread that   *)
(* runs the event loop pushes events and finally calls stop(); a worker    *)
(* thread takes everything queued in one batch and writes it out line by   *)
(* line.  mtx_ protects queue_ and stopping_, so a step is what happens    *)
(* between two points where the other thread can get in: push() releases   *)
(* the mutex before it notifies, and the worker writes without the mutex.  *)
(* Only one thread pushes: the hook of the health FSM and the handlers of  *)
(* the event loop all run in the thread of run_live().                     *)
(* A definition with an underscore and a suffix (Notify_Never) is a        *)
(* variant with a plausible mistake; the specification does not use it.    *)
(***************************************************************************)
EXTENDS Naturals, Sequences

CONSTANTS Event,        \* the events that can be logged
          MaxEvents     \* bound: how many events one execution pushes

ASSUME MaxEventsAssumption == MaxEvents \in Nat

VARIABLES
    caller,     \* where the thread of run_live() is
    worker,     \* where run() is
    queue_,     \* events pushed and not yet taken by the worker
    batch,      \* events the worker took and has not yet written
    out_,       \* the lines written and flushed
    stopping_   \* stop() was called

vars == <<caller, worker, queue_, batch, out_, stopping_>>

CallerAt == {"start", "run", "pushed", "stop", "stopped", "join", "done"}
WorkerAt == {"none", "wait", "asleep", "write", "returned"}

Init ==
    /\ caller = "start"
    /\ worker = "none"
    /\ queue_ = <<>>
    /\ batch = <<>>
    /\ out_ = <<>>
    /\ stopping_ = FALSE

\* The events that push() has taken, in order, wherever they are now.
Accepted == out_ \o batch \o queue_

-----------------------------------------------------------------------------
\* start(): the report file opens and the worker thread starts.
Start ==
    /\ caller = "start"
    /\ caller' = "run"
    /\ worker' = "wait"
    /\ UNCHANGED <<queue_, batch, out_, stopping_>>

\* start() cannot open the file: run_live() returns, and the destructor calls
\* stop() with no thread to join.
StartFails ==
    /\ caller = "start"
    /\ caller' = "stop"
    /\ UNCHANGED <<worker, queue_, batch, out_, stopping_>>

\* push(), up to the release of the mutex.
Push(e) ==
    /\ caller = "run"
    /\ Len(Accepted) < MaxEvents
    /\ queue_' = Append(queue_, e)
    /\ caller' = "pushed"
    /\ UNCHANGED <<worker, batch, out_, stopping_>>

\* notify_one() and notify_all() wake the worker only if it sleeps.
Notify_Never == worker' = worker
Notify == worker' = IF worker = "asleep" THEN "wait" ELSE worker

\* The rest of push().
PushNotify ==
    /\ caller = "pushed"
    /\ Notify
    /\ caller' = "run"
    /\ UNCHANGED <<queue_, batch, out_, stopping_>>

\* The event loop has returned.
LoopEnds ==
    /\ caller = "run"
    /\ caller' = "stop"
    /\ UNCHANGED <<worker, queue_, batch, out_, stopping_>>

\* stop(), up to the release of the mutex.  A second stop(), from the
\* destructor, returns at once and changes nothing.
Stop ==
    /\ caller = "stop"
    /\ stopping_' = TRUE
    /\ caller' = "stopped"
    /\ UNCHANGED <<worker, queue_, batch, out_>>

\* The rest of stop() before the join.
StopNotify ==
    /\ caller = "stopped"
    /\ Notify
    /\ caller' = "join"
    /\ UNCHANGED <<queue_, batch, out_, stopping_>>

\* join() returns when the worker has returned (or never was); the file is
\* flushed and closed.
Join ==
    /\ caller = "join"
    /\ worker \in {"none", "returned"}
    /\ caller' = "done"
    /\ UNCHANGED <<worker, queue_, batch, out_, stopping_>>

-----------------------------------------------------------------------------
\* cv_.wait() tests its condition with the mutex held and sleeps if it is
\* false: no push() or stop() comes between the test and the sleep.
Sleep ==
    /\ worker = "wait"
    /\ ~stopping_ /\ queue_ = <<>>
    /\ worker' = "asleep"
    /\ UNCHANGED <<caller, queue_, batch, out_, stopping_>>

\* A condition variable may also wake by itself.
SpuriousWakeup ==
    /\ worker = "asleep"
    /\ worker' = "wait"
    /\ UNCHANGED <<caller, queue_, batch, out_, stopping_>>

\* The worker leaves only when nothing was left to take.
Returns_OnStop == stopping_
Returns == stopping_ /\ queue_ = <<>>

\* The worker takes the whole queue, and returns if there was nothing to take
\* and stop() was called.
TakeBatch ==
    /\ worker = "wait"
    /\ stopping_ \/ queue_ /= <<>>
    /\ batch' = queue_
    /\ queue_' = <<>>
    /\ worker' = IF Returns THEN "returned" ELSE "write"
    /\ UNCHANGED <<caller, out_, stopping_>>

\* serialize_event: what one iteration of the writing loop puts in the file.
Line == Head(batch)

\* One event of the batch becomes a line; after the last one the worker goes
\* back to the condition.
WriteEvent ==
    /\ worker = "write"
    /\ batch /= <<>>
    /\ out_' = Append(out_, Line)
    /\ batch' = Tail(batch)
    /\ worker' = IF Tail(batch) = <<>> THEN "wait" ELSE "write"
    /\ UNCHANGED <<caller, queue_, stopping_>>

-----------------------------------------------------------------------------
CallerStep == PushNotify \/ Stop \/ StopNotify \/ Join
WorkerStep == Sleep \/ TakeBatch \/ WriteEvent

Next ==
    \/ Start \/ StartFails \/ (\E e \in Event : Push(e)) \/ LoopEnds
    \/ CallerStep \/ WorkerStep \/ SpuriousWakeup

Spec == Init /\ [][Next]_vars

\* Both threads are scheduled: a call that has begun goes on, and so does the
\* worker.  Nothing obliges the event loop to push or to end.
FairSpec == Spec /\ WF_vars(CallerStep) /\ WF_vars(WorkerStep)

-----------------------------------------------------------------------------
\* The deques, the file and the two threads' control points keep their types.
TypeOK ==
    /\ caller \in CallerAt
    /\ worker \in WorkerAt
    /\ queue_ \in Seq(Event)
    /\ batch \in Seq(Event)
    /\ out_ \in Seq(Event)
    /\ stopping_ \in BOOLEAN

\* The worker never sleeps through work: while it is asleep with an event
\* queued or stop() called, the notification is still to come (push() and
\* stop() notify after they release the mutex).
NoSleepOnWork ==
    worker = "asleep" /\ (stopping_ \/ queue_ /= <<>>)
        => caller \in {"pushed", "stopped"}

\* The two threads together keep the promise of LogFile: lines appear in the
\* order of the pushes, no accepted event disappears between queue_, batch and
\* the file, and stop() returns only when all of them are written.
Log == INSTANCE LogFile WITH
           accepted <- Accepted, file <- out_, closed <- (caller = "done")
ImplementsLogFile == Log!Spec

\* Every accepted event reaches the file, without any call of stop(): the
\* worker flushes line by line.
EventsWritten ==
    \A n \in 1..MaxEvents : Len(Accepted) >= n ~> Len(out_) >= n

\* stop() returns, however much is queued when it is called.
StopReturns == stopping_ ~> caller = "done"
=============================================================================
