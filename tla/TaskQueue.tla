------------------------------- MODULE TaskQueue -------------------------------
(***************************************************************************)
(* The task queue of utils/task_queue.py, behind the dispatcher, the admin *)
(* server and both transport managers: coroutines that run at once while   *)
(* there is room, or wait in a queue that a drain task empties.            *)
(*                                                                         *)
(* Everything runs on one event loop: a step here is the code between two  *)
(* points where it waits or returns to the loop.  A task that has finished *)
(* still counts as active until its done callback runs.                    *)
(***************************************************************************)
EXTENDS Naturals, Sequences, FiniteSets

CONSTANTS
    Tasks,      \* coroutines handed to the queue, each once
    Max         \* max_active; 0: no limit

ASSUME QueueAssumption == Max \in Nat /\ IsFiniteSet(Tasks)

VARIABLES
    coro,       \* where each coroutine is
    future,     \* what put returned: resolves to the task once it is started
    pending,    \* pending_tasks
    active,     \* active_tasks
    direct,     \* started by run, past the queue
    drain,      \* the drain task
    cancelled,  \* the queue takes no more tasks
    asked,      \* tasks cancel() was called on
    closing     \* the call of complete()

vars == <<coro, future, pending, active, direct, drain, cancelled, asked, closing>>

CoroStates == {"new", "pending", "running", "finished", "ended", "closed"}
DrainStates == {"none", "start", "wait", "woken", "ended"}

TypeOK ==
    /\ coro \in [Tasks -> CoroStates]
    /\ future \in [Tasks -> {"none", "open", "set", "cancelled"}]
    /\ pending \in Seq(Tasks)
    /\ active \subseteq Tasks
    /\ direct \subseteq Tasks
    /\ drain \in DrainStates
    /\ cancelled \in BOOLEAN
    /\ asked \subseteq Tasks
    /\ closing \in {"no", "flush", "flushTimed", "done"}

Init ==
    /\ coro = [t \in Tasks |-> "new"]
    /\ future = [t \in Tasks |-> "none"]
    /\ pending = <<>>
    /\ active = {}
    /\ direct = {}
    /\ drain = "none"
    /\ cancelled = FALSE
    /\ asked = {}
    /\ closing = "no"

-----------------------------------------------------------------------------
Full(set) == Max # 0 /\ Cardinality(set) >= Max

\* The property, of a queue that is not cancelled.
Ready == Max = 0 \/ Cardinality(active) + Len(pending) < Max

\* Mutant: a drain task that waits is not told.
DrainForgets(queue) == IF drain \in {"none", "ended"} /\ queue # <<>> THEN "start" ELSE drain

\* drain(): wakes the drain task, or creates one when tasks are waiting.
Drain(queue) ==
    CASE drain = "wait" -> "woken"
      [] drain \in {"none", "ended"} /\ queue # <<>> -> "start"
      [] OTHER -> drain

\* run, and put of a queue that is ready.
Start(t) ==
    /\ coro' = [coro EXCEPT ![t] = "running"]
    /\ active' = active \cup {t}

\* run() bypasses the queue; a cancelled queue raises.
Run(t) ==
    /\ coro[t] = "new"
    /\ ~cancelled
    /\ Start(t)
    /\ direct' = direct \cup {t}
    /\ UNCHANGED <<future, pending, drain, cancelled, asked, closing>>

\* Mutant: put does not look whether the queue is cancelled.
PutAnyway(t) ==
    /\ coro[t] = "new"
    /\ Start(t)
    /\ future' = [future EXCEPT ![t] = "set"]
    /\ UNCHANGED <<direct, pending, drain, cancelled, asked, closing>>

Put(t) ==
    /\ coro[t] = "new"
    /\ \/ /\ cancelled
          /\ coro' = [coro EXCEPT ![t] = "closed"]
          /\ future' = [future EXCEPT ![t] = "cancelled"]
          /\ UNCHANGED <<pending, active, drain>>
       \/ /\ ~cancelled /\ Ready
          /\ Start(t)
          /\ future' = [future EXCEPT ![t] = "set"]
          /\ UNCHANGED <<pending, drain>>
       \/ /\ ~cancelled /\ ~Ready
          /\ coro' = [coro EXCEPT ![t] = "pending"]
          /\ future' = [future EXCEPT ![t] = "open"]
          /\ pending' = Append(pending, t)
          /\ drain' = Drain(pending')
          /\ UNCHANGED active
    /\ UNCHANGED <<direct, cancelled, asked, closing>>

\* The caller that awaits put's result is cancelled, and the future with it
\* (an admin request whose client is gone): the coroutine stays queued.
Abandon(t) ==
    /\ future[t] = "open"
    /\ future' = [future EXCEPT ![t] = "cancelled"]
    /\ UNCHANGED <<coro, pending, active, direct, drain, cancelled, asked, closing>>

\* The first n of the queue.
First(n) == {pending[i] : i \in 1..n}

\* _drain_loop up to its wait: tasks are started while any is pending and
\* there is room.
DrainLoop ==
    /\ drain \in {"start", "woken"}
    /\ \E n \in 0..Len(pending) :
          /\ n = Len(pending) \/ Full(active \cup First(n))
          /\ \A k \in 0..(n - 1) : ~Full(active \cup First(k))
          /\ pending' = SubSeq(pending, n + 1, Len(pending))
          /\ active' = active \cup First(n)
          /\ coro' = [t \in Tasks |-> IF t \in First(n) THEN "running" ELSE coro[t]]
          /\ future' = [t \in Tasks |-> IF t \in First(n) /\ future[t] = "open" THEN "set"
                                                                               ELSE future[t]]
          /\ drain' = IF n < Len(pending) THEN "wait" ELSE "ended"
    /\ UNCHANGED <<direct, cancelled, asked, closing>>

\* _drain_done
DrainDone ==
    /\ drain = "ended"
    /\ drain' = "none"
    /\ UNCHANGED <<coro, future, pending, active, direct, cancelled, asked, closing>>

\* A coroutine returns, raises or is cancelled.
TaskEnds(t) ==
    /\ coro[t] = "running"
    /\ coro' = [coro EXCEPT ![t] = "finished"]
    /\ UNCHANGED <<future, pending, active, direct, drain, cancelled, asked, closing>>

\* Mutant: the queue is not drained when a task completes.
CompletedTaskQuietly(t) ==
    /\ coro[t] = "finished"
    /\ coro' = [coro EXCEPT ![t] = "ended"]
    /\ active' = active \ {t}
    /\ UNCHANGED <<future, pending, direct, drain, cancelled, asked, closing>>

\* completed_task, its done callback.
CompletedTask(t) ==
    /\ coro[t] = "finished"
    /\ coro' = [coro EXCEPT ![t] = "ended"]
    /\ active' = active \ {t}
    /\ drain' = Drain(pending)
    /\ UNCHANGED <<future, pending, direct, cancelled, asked, closing>>

-----------------------------------------------------------------------------
\* The drain task is cancelled, and every pending task with its future.
CancelledPending ==
    /\ drain' = "none"
    /\ pending' = <<>>
    /\ coro' = [t \in Tasks |-> IF coro[t] = "pending" THEN "closed" ELSE coro[t]]
    /\ future' = [t \in Tasks |-> IF future[t] = "open" THEN "cancelled" ELSE future[t]]

CancelPending ==
    /\ CancelledPending
    /\ UNCHANGED <<active, direct, cancelled, asked, closing>>

Cancel ==
    /\ cancelled' = TRUE
    /\ CancelledPending
    /\ asked' = asked \cup active
    /\ UNCHANGED <<active, direct, closing>>

\* complete(None), complete(seconds) and complete(0)
Complete ==
    /\ closing = "no"
    /\ cancelled' = TRUE
    /\ CancelledPending
    /\ \/ closing' \in {"flush", "flushTimed"} /\ UNCHANGED asked
       \/ closing' = "done" /\ asked' = asked \cup active
    /\ UNCHANGED <<active, direct>>

\* flush has waited for everything.
Flushed ==
    /\ closing \in {"flush", "flushTimed"}
    /\ active = {} /\ drain = "none"
    /\ closing' = "done"
    /\ UNCHANGED <<coro, future, pending, active, direct, drain, cancelled, asked>>

\* Mutant: the time is up and the tasks are left alone.
TimedOutQuietly ==
    /\ closing = "flushTimed"
    /\ closing' = "done"
    /\ UNCHANGED <<coro, future, pending, active, direct, drain, cancelled, asked>>

\* The time is up: what still runs is cancelled.
TimedOut ==
    /\ closing = "flushTimed"
    /\ closing' = "done"
    /\ asked' = asked \cup active
    /\ UNCHANGED <<coro, future, pending, active, direct, drain, cancelled>>

-----------------------------------------------------------------------------
Next ==
    \/ \E t \in Tasks : Run(t) \/ Put(t) \/ Abandon(t) \/ TaskEnds(t) \/ CompletedTask(t)
    \/ DrainLoop \/ DrainDone
    \/ CancelPending \/ Cancel \/ Complete \/ Flushed \/ TimedOut

Spec == Init /\ [][Next]_vars

\* The event loop runs callbacks, the drain task and the timer of complete; a
\* task that was cancelled ends.  That a task ends by itself is not assumed.
Fairness ==
    /\ WF_vars(DrainLoop) /\ WF_vars(DrainDone) /\ WF_vars(Flushed) /\ WF_vars(TimedOut)
    /\ \A t \in Tasks : WF_vars(CompletedTask(t)) /\ WF_vars(t \in asked /\ TaskEnds(t))

FairSpec == Spec /\ Fairness

-----------------------------------------------------------------------------
\* Properties.

\* A coroutine is pending or active or neither, and queued at most once: it is
\* started at most once, and what is pending has not started.
OnePlace ==
    /\ active = {t \in Tasks : coro[t] \in {"running", "finished"}}
    /\ {pending[i] : i \in DOMAIN pending} = {t \in Tasks : coro[t] = "pending"}
    /\ \A i, j \in DOMAIN pending : pending[i] = pending[j] => i = j

\* Never more than max_active tasks of the queue run; run() is not counted.
LimitKept == Max # 0 => Cardinality(active \ direct) <= Max

\* A pending task is never forgotten: the drain task is about to look at the
\* queue, or waits for a task to complete while there is no room.
PendingIsServed ==
    pending # <<>> => drain \in {"start", "woken"} \/ (drain = "wait" /\ Full(active))

\* Nothing starts once the queue is cancelled, pending or handed in later.
NothingStartsAfterCancel ==
    [][cancelled => \A t \in Tasks : coro'[t] = "running" => coro[t] = "running"]_vars

TasksEnd == \A t \in Tasks : coro[t] = "running" ~> coro[t] = "finished"

\* If tasks end, every pending task is started or closed at last, whatever
\* run() starts past it, and whoever waits for put's result is told.
PendingEnds ==
    TasksEnd => \A t \in Tasks :
        /\ coro[t] = "pending" ~> coro[t] # "pending"
        /\ future[t] = "open" ~> future[t] # "open"

\* complete with a timeout returns, and every task ends.
CompleteEnds == closing = "flushTimed" ~> closing = "done" /\ active = {}

=============================================================================
