--------------------------- MODULE OutboundTransport ---------------------------
(***************************************************************************)
(* The outbound queue of transport/outbound/manager.py: messages and       *)
(* webhooks are encoded, posted, posted again when that fails, and given   *)
(* to handle_not_delivered when it fails for good.                         *)
(*                                                                         *)
(* Encoding and posting are tasks of their own; one process task looks at  *)
(* the messages and is told by an event when one of them has changed.  A   *)
(* pass of the process task does not wait anywhere, so it is one step.     *)
(***************************************************************************)
EXTENDS Naturals

CONSTANTS
    Messages,       \* messages to other agents, to encode
    Encoded,        \* messages that bring their own enc_payload
    Webhooks,       \* webhooks: a payload and no message
    MaxRetry        \* MAX_RETRY_COUNT, and the webhooks' max_attempts - 1

All == Messages \cup Encoded \cup Webhooks

ASSUME OutboundAssumption ==
    /\ MaxRetry \in Nat
    /\ Messages \cap Encoded = {} /\ Webhooks \cap (Messages \cup Encoded) = {}

VARIABLES
    place,      \* outbound_new or outbound_buffer, before it, or out of it
    st,         \* QueuedOutboundMessage.state
    error,      \* QueuedOutboundMessage.error is set
    retries,    \* posts left after a failed one
    due,        \* retry_at has passed
    proc,       \* the process task
    posted,     \* posts so far
    got,        \* posts the recipient has taken in
    acked,      \* it said so: the post did not fail
    undelivered \* given to handle_not_delivered

vars == <<place, st, error, retries, due, proc, posted, got, acked, undelivered>>

States == {"new", "pending", "encode", "deliver", "retry", "done"}
Places == {"none", "new", "buffer", "gone"}

TypeOK ==
    /\ place \in [All -> Places]
    /\ st \in [All -> States]
    /\ error \in [All -> BOOLEAN]
    /\ retries \in [All -> 0..MaxRetry]
    /\ due \in [All -> BOOLEAN]
    /\ proc \in {"none", "start", "wait", "woken", "sleep", "ended"}
    /\ posted \in [All -> Nat]
    /\ got \in [All -> Nat]
    /\ acked \subseteq All
    /\ undelivered \subseteq All

Init ==
    /\ place = [m \in All |-> "none"]
    /\ st = [m \in All |-> IF m \in Webhooks THEN "pending" ELSE "new"]
    /\ error = [m \in All |-> FALSE]
    /\ retries = [m \in All |-> MaxRetry]
    /\ due = [m \in All |-> FALSE]
    /\ proc = "none"
    /\ posted = [m \in All |-> 0]
    /\ got = [m \in All |-> 0]
    /\ acked = {}
    /\ undelivered = {}

-----------------------------------------------------------------------------
In(p)     == {m \in All : place[m] = p}
InBuffer(s) == {m \in In("buffer") : st[m] = s}

\* Mutant: a process task that waits is not told.
ProcessQueuedForgets == proc' = IF proc \in {"none", "ended"} THEN "start" ELSE proc

\* process_queued, called when there is a message: sets the event, or starts
\* the process task.
ProcessQueued ==
    proc' = CASE proc \in {"none", "ended"} -> "start"
              [] proc = "wait" -> "woken"
              [] OTHER -> proc

\* enqueue_message and enqueue_webhook
Enqueue(m) ==
    /\ place[m] = "none"
    /\ place' = [place EXCEPT ![m] = "new"]
    /\ ProcessQueued
    /\ UNCHANGED <<st, error, retries, due, posted, got, acked, undelivered>>

\* What a pass of _process_loop starts to post: what is pending and what has
\* waited for its retry.
Due      == InBuffer("pending") \cup {m \in InBuffer("retry") : due[m]}
Retrying == {m \in InBuffer("retry") : ~due[m]}
Arrived  == {m \in In("new") : m \notin Messages}

\* Only retries, or nothing to post: new messages that are ready are posted at
\* once by a second round, unless the loop sleeps for the sake of a retry.
PostedAtOnce == IF Retrying = {} THEN Arrived ELSE {}

\* Mutant: the loop waits for the event while a retry is due later.
NextProcForRetry(left) == IF left = {} THEN "ended" ELSE "wait"

NextProc(left) ==
    IF left = {} THEN "ended" ELSE IF Retrying = {} THEN "wait" ELSE "sleep"

\* Mutant: a message that could not be delivered is dropped.
NotDeliveredDropped == {}

\* Given to handle_not_delivered: not the webhooks.
NotDelivered == {m \in InBuffer("done") : error[m] /\ m \notin Webhooks}

Pass ==
    /\ proc \in {"start", "woken", "sleep"}
    /\ place' = [m \in All |-> IF m \in InBuffer("done") THEN "gone"
                               ELSE IF place[m] = "new" THEN "buffer" ELSE place[m]]
    /\ st' = [m \in All |->
                CASE m \in Due \cup PostedAtOnce -> "deliver"
                  [] m \in In("new") \cap Messages -> "encode"
                  [] m \in Arrived \ PostedAtOnce -> "pending"
                  [] OTHER -> st[m]]
    /\ due' = [m \in All |-> IF m \in Due THEN FALSE ELSE due[m]]
    /\ undelivered' = undelivered \cup NotDelivered
    /\ proc' = NextProc((In("buffer") \ InBuffer("done")) \cup In("new"))
    /\ UNCHANGED <<error, retries, posted, got, acked>>

\* _process_done
ProcessDone ==
    /\ proc = "ended"
    /\ proc' = "none"
    /\ UNCHANGED <<place, st, error, retries, due, posted, got, acked, undelivered>>

\* perform_encode ends, and finished_encode.
FinishedEncode(m) ==
    /\ m \in InBuffer("encode")
    /\ \/ st' = [st EXCEPT ![m] = "pending"] /\ UNCHANGED error
       \/ st' = [st EXCEPT ![m] = "done"] /\ error' = [error EXCEPT ![m] = TRUE]
    /\ ProcessQueued
    /\ UNCHANGED <<place, retries, due, posted, got, acked, undelivered>>

\* Mutant: the error of an earlier post stays.
PostedOkKeepsError(m) ==
    /\ m \in InBuffer("deliver")
    /\ st' = [st EXCEPT ![m] = "done"]
    /\ posted' = [posted EXCEPT ![m] = @ + 1]
    /\ got' = [got EXCEPT ![m] = @ + 1]
    /\ acked' = acked \cup {m}
    /\ ProcessQueued
    /\ UNCHANGED <<place, error, retries, due, undelivered>>

\* The post succeeds, and finished_deliver.
PostedOk(m) ==
    /\ m \in InBuffer("deliver")
    /\ st' = [st EXCEPT ![m] = "done"]
    /\ error' = [error EXCEPT ![m] = FALSE]
    /\ posted' = [posted EXCEPT ![m] = @ + 1]
    /\ got' = [got EXCEPT ![m] = @ + 1]
    /\ acked' = acked \cup {m}
    /\ ProcessQueued
    /\ UNCHANGED <<place, retries, due, undelivered>>

\* It fails: the recipient may have taken the message in nevertheless.
PostFailed(m) ==
    /\ m \in InBuffer("deliver")
    /\ error' = [error EXCEPT ![m] = TRUE]
    /\ posted' = [posted EXCEPT ![m] = @ + 1]
    /\ \/ got' = [got EXCEPT ![m] = @ + 1]
       \/ UNCHANGED got
    /\ \/ /\ retries[m] > 0
          /\ retries' = [retries EXCEPT ![m] = @ - 1]
          /\ st' = [st EXCEPT ![m] = "retry"]
       \/ /\ retries[m] = 0
          /\ st' = [st EXCEPT ![m] = "done"]
          /\ UNCHANGED retries
    /\ ProcessQueued
    /\ UNCHANGED <<place, due, acked, undelivered>>

\* Ten seconds pass.
RetryDue(m) ==
    /\ m \in Retrying
    /\ due' = [due EXCEPT ![m] = TRUE]
    /\ UNCHANGED <<place, st, error, retries, proc, posted, got, acked, undelivered>>

-----------------------------------------------------------------------------
Finishes(m) == FinishedEncode(m) \/ PostedOk(m) \/ PostFailed(m)

Next ==
    \/ \E m \in All : Enqueue(m) \/ FinishedEncode(m) \/ PostedOk(m) \/ PostFailed(m) \/ RetryDue(m)
    \/ Pass \/ ProcessDone

Spec == Init /\ [][Next]_vars

\* The event loop runs the process task, every encoding and every post ends
\* (the client session has a timeout), and time passes.  That a post ever
\* succeeds is not assumed.
Fairness ==
    /\ WF_vars(Pass)
    /\ \A m \in All : WF_vars(Finishes(m)) /\ WF_vars(RetryDue(m))

FairSpec == Spec /\ Fairness

-----------------------------------------------------------------------------
\* Properties.

\* The process task never waits for its event, or is gone, while a message
\* needs it: what it waits for is an encoding or a post that will set it.
NothingOverlooked ==
    /\ proc = "wait" => In("new") = {} /\ In("buffer") = InBuffer("encode") \cup InBuffer("deliver")
    /\ proc \in {"none", "ended"} => In("new") = {} /\ In("buffer") = {}

\* A message is posted MaxRetry + 1 times at most, so a recipient sees it at
\* most that often.
AttemptsBounded == \A m \in All : got[m] <= posted[m] /\ posted[m] <= MaxRetry + 1

\* What a recipient has acknowledged is never reported as undelivered, however
\* many posts failed before.
NeverBoth == acked \cap undelivered = {}

\* And no message leaves the queue unnoticed: it was acknowledged or reported.
\* (A webhook that fails is only logged.)
LeavesNoticed ==
    \A m \in Messages \cup Encoded : place[m] = "gone" => m \in acked \cup undelivered

\* Every message leaves the queue.
EveryMessageLeaves == \A m \in All : place[m] = "new" ~> place[m] = "gone"

=============================================================================
