---------------------------- MODULE InboundTransport ----------------------------
(***************************************************************************)
(* Messages that go back on the connection a message came in by, and what  *)
(* becomes of those that cannot: the sessions of transport/inbound, the    *)
(* routing of core/conductor.py and the queue of undelivered messages.     *)
(*                                                                         *)
(* A session holds one response.  An HTTP request is a session for one     *)
(* message and one response; a WebSocket is a session for many.  Each has  *)
(* a wait_response that waits for the response and packs it, while         *)
(* handlers of messages, of this or other sessions, route new ones.        *)
(*                                                                         *)
(* The outbound queue is the module OutboundTransport: a message given to  *)
(* it is delivered, or comes back by handle_not_delivered.                 *)
(***************************************************************************)
EXTENDS Naturals, SequencesExt, FiniteSets

CONSTANTS
    Https, Sockets,     \* requests and WebSockets, each one session
    Keys, Threads,      \* verkeys of peers and thread ids
    Msgs,               \* messages the agent sends
    To,                 \* reply_to_verkey of a message
    Thread,             \* its reply_thread_id
    Packed,             \* messages with an enc_payload: forwarded ones
    Modes,              \* values of ~transport.return_route the peers use
    MaxHandling,        \* bound: handlers running for one session
    NoMsg

Sessions == Https \cup Sockets

ASSUME InboundAssumption ==
    /\ Https \cap Sockets = {}
    /\ To \in [Msgs -> Keys] /\ Thread \in [Msgs -> Threads]
    /\ Packed \subseteq Msgs /\ NoMsg \notin Msgs
    /\ Modes \subseteq {"none", "all", "thread", "other"}
    /\ MaxHandling \in Nat \ {0}

VARIABLES
    session,        \* before it, open (in manager.sessions), or closed
    mode,           \* _reply_mode
    verkeys,        \* _reply_verkeys
    threads,        \* _reply_thread_ids
    buffer,         \* response_buffer
    waiter,         \* wait_response, and the sending of what it returned
    handling,       \* handlers running for messages of the session
    queueByKey,     \* queue_by_key, the undelivered messages
    heldBy          \* where each message is

inboundVars == <<session, mode, verkeys, threads, buffer, waiter, handling, queueByKey, heldBy>>

Waits  == {"off", "run", "blocked", "encode", "done", "send"}
Gone == {"none", "sent", "failed"}
Parts == Gone \cup {"targets", "outbound", "buffer", "undelivered"}

InboundTypeOK ==
    /\ session \in [Sessions -> {"none", "open", "closed"}]
    /\ mode \in [Sessions -> {"none", "all", "thread"}]
    /\ verkeys \in [Sessions -> SUBSET Keys]
    /\ threads \in [Sessions -> SUBSET Threads]
    /\ buffer \in [Sessions -> Msgs \cup {NoMsg}]
    /\ waiter \in [Sessions -> Waits]
    /\ handling \in [Sessions -> 0..MaxHandling]
    /\ queueByKey \in [Keys -> Seq(Msgs)]
    /\ heldBy \in [Msgs -> Parts]

InboundInit ==
    /\ session = [s \in Sessions |-> "none"]
    /\ mode = [s \in Sessions |-> "none"]
    /\ verkeys = [s \in Sessions |-> {}]
    /\ threads = [s \in Sessions |-> {}]
    /\ buffer = [s \in Sessions |-> NoMsg]
    /\ waiter = [s \in Sessions |-> "off"]
    /\ handling = [s \in Sessions |-> 0]
    /\ queueByKey = [k \in Keys |-> <<>>]
    /\ heldBy = [m \in Msgs |-> "none"]

-----------------------------------------------------------------------------
\* What a session accepts.

\* select_outbound.  can_respond is withdrawn only in the step that closes.
SelectOutbound(s, m) ==
    /\ session[s] = "open"
    /\ To[m] \in verkeys[s]
    /\ \/ mode[s] = "all"
       \/ mode[s] = "thread" /\ Thread[m] \in threads[s]

\* accept_response is going to be true: one response at a time.
Accepts(s, m) == SelectOutbound(s, m) /\ buffer[s] = NoMsg

\* Mutant: the event is not set for a response.
WokenLate(s) == waiter[s]

\* response_event.set() for whoever waits for it.
Woken(s) == IF waiter[s] = "blocked" THEN "run" ELSE waiter[s]

\* set_response
SetResponse(s, m) ==
    /\ buffer' = [buffer EXCEPT ![s] = m]
    /\ waiter' = [waiter EXCEPT ![s] = Woken(s)]

\* close of a session, and closed_session: a response that was not sent goes
\* to handle_not_returned, which runs queue_outbound for it.
Returned(s) == IF buffer[s] = NoMsg THEN {} ELSE {buffer[s]}

\* Mutant: the response of a closed session is forgotten.
CloseForgets(s) ==
    /\ session' = [session EXCEPT ![s] = "closed"]
    /\ waiter' = [waiter EXCEPT ![s] = "off"]
    /\ UNCHANGED heldBy

Close(s) ==
    /\ session' = [session EXCEPT ![s] = "closed"]
    /\ waiter' = [waiter EXCEPT ![s] = "off"]
    /\ heldBy' = [m \in Msgs |-> IF m \in Returned(s) THEN "targets" ELSE heldBy[m]]

-----------------------------------------------------------------------------
\* Requests, WebSockets and what they receive.

\* create_session.  A WebSocket starts wait_response with it.
CreateSession(s) ==
    /\ session[s] = "none"
    /\ session' = [session EXCEPT ![s] = "open"]
    /\ waiter' = [waiter EXCEPT ![s] = IF s \in Sockets THEN "run" ELSE "off"]
    /\ UNCHANGED <<mode, verkeys, threads, buffer, handling, queueByKey, heldBy>>

\* process_inbound: the route asked for last, the keys of everyone who sent.
\* A mode that is neither all nor thread counts as none and resets the threads.
ProcessInbound(s, k, m, t) ==
    /\ mode' = [mode EXCEPT ![s] = IF m \in {"all", "thread"} THEN m ELSE "none"]
    /\ verkeys' = [verkeys EXCEPT ![s] = @ \cup k]
    /\ threads' = [threads EXCEPT ![s] =
                     IF m = "thread" THEN @ \cup {t} ELSE IF m = "all" THEN @ ELSE {}]

\* A message is taken in and given to the dispatcher; k is its sender's key,
\* none if it was not encrypted by one.
Receive(s, k, m, t) ==
    /\ session[s] = "open"
    /\ handling[s] < MaxHandling
    /\ ProcessInbound(s, k, m, t)
    /\ handling' = [handling EXCEPT ![s] = @ + 1]

\* HTTP: a request that asks for no response is over, the others wait.
ReceiveHttp(s, k, m, t) ==
    /\ s \in Https /\ waiter[s] = "off"
    /\ Receive(s, k, m, t)
    /\ \/ m = "none" /\ Close(s)
       \/ /\ m # "none"
          /\ waiter' = [waiter EXCEPT ![s] = "run"]
          /\ UNCHANGED <<session, heldBy>>
    /\ UNCHANGED <<buffer, queueByKey>>

\* WebSocket: the loop that receives is the one that sends.
ReceiveSocket(s, k, m, t) ==
    /\ s \in Sockets /\ waiter[s] # "send"
    /\ Receive(s, k, m, t)
    /\ UNCHANGED <<session, buffer, waiter, queueByKey, heldBy>>

\* The peer goes, or sends what cannot be parsed: the session ends.  A send in
\* progress fails, though the peer may have the message.
PeerGone(s) ==
    /\ session[s] = "open"
    /\ Close(s)
    /\ UNCHANGED <<mode, verkeys, threads, buffer, handling, queueByKey>>

-----------------------------------------------------------------------------
\* wait_response

\* It looks at the buffer, and waits for the event if there is nothing.
WaitResponse(s) ==
    /\ waiter[s] = "run"
    /\ waiter' = [waiter EXCEPT ![s] =
                    IF buffer[s] = NoMsg THEN "blocked"
                    ELSE IF buffer[s] \in Packed THEN "done" ELSE "encode"]
    /\ UNCHANGED <<session, mode, verkeys, threads, buffer, handling, queueByKey, heldBy>>

\* encode_outbound succeeds, or fails: the response is given up.
EncodeOutbound(s) ==
    /\ waiter[s] = "encode"
    /\ \/ /\ waiter' = [waiter EXCEPT ![s] = "done"]
          /\ UNCHANGED <<buffer, heldBy>>
       \/ /\ waiter' = [waiter EXCEPT ![s] = "blocked"]
          /\ buffer' = [buffer EXCEPT ![s] = NoMsg]
          /\ heldBy' = [heldBy EXCEPT ![buffer[s]] = "failed"]
    /\ UNCHANGED <<session, mode, verkeys, threads, handling, queueByKey>>

\* HTTP: the response is cleared, the session closed with nothing to return,
\* and the server writes the response out.
Respond(s) ==
    /\ s \in Https /\ waiter[s] = "done"
    /\ buffer' = [buffer EXCEPT ![s] = NoMsg]
    /\ session' = [session EXCEPT ![s] = "closed"]
    /\ waiter' = [waiter EXCEPT ![s] = "off"]
    /\ heldBy' = [heldBy EXCEPT ![buffer[s]] = "sent"]
    /\ UNCHANGED <<mode, verkeys, threads, handling, queueByKey>>

\* WebSocket: the loop finds wait_response done and sends.
SendStarts(s) ==
    /\ s \in Sockets /\ waiter[s] = "done"
    /\ waiter' = [waiter EXCEPT ![s] = "send"]
    /\ UNCHANGED <<session, mode, verkeys, threads, buffer, handling, queueByKey, heldBy>>

\* It is sent, cleared, and the next one waited for.
Sent(s) ==
    /\ s \in Sockets /\ waiter[s] = "send"
    /\ waiter' = [waiter EXCEPT ![s] = "run"]
    /\ buffer' = [buffer EXCEPT ![s] = NoMsg]
    /\ heldBy' = [heldBy EXCEPT ![buffer[s]] = "sent"]
    /\ UNCHANGED <<session, mode, verkeys, threads, handling, queueByKey>>

-----------------------------------------------------------------------------
\* Routing.

\* return_to_session: the session of the message replied to is preferred.
Takers(m, prefer) ==
    LET ready == {s \in Sessions : Accepts(s, m)}
    IN  IF ready \cap prefer # {} THEN ready \cap prefer ELSE ready

\* outbound_message_router, called by a handler of the session in prefer for a
\* reply, or for a message that replies to none.  Messages of one kind follow
\* each other without end, one of them at a time in the agent.
Route(m, prefer) ==
    /\ heldBy[m] \in Gone
    /\ \A s \in prefer : handling[s] > 0
    /\ IF Takers(m, prefer) = {}
       THEN /\ heldBy' = [heldBy EXCEPT ![m] = "targets"]
            /\ UNCHANGED <<buffer, waiter>>
       ELSE /\ \E s \in Takers(m, prefer) : SetResponse(s, m)
            /\ heldBy' = [heldBy EXCEPT ![m] = "buffer"]
    /\ UNCHANGED <<session, mode, verkeys, threads, handling, queueByKey>>

\* handle_not_delivered and return_undelivered: queued under its key.
ReturnUndelivered(m) ==
    /\ queueByKey' = [queueByKey EXCEPT ![To[m]] = Append(@, m)]
    /\ heldBy' = [heldBy EXCEPT ![m] = "undelivered"]

\* queue_outbound has looked up the targets: no connection, no transport for
\* any, or into the outbound queue.
QueueOutbound(m) ==
    /\ heldBy[m] = "targets"
    /\ \/ heldBy' = [heldBy EXCEPT ![m] = "failed"] /\ UNCHANGED queueByKey
       \/ ReturnUndelivered(m)
       \/ heldBy' = [heldBy EXCEPT ![m] = "outbound"] /\ UNCHANGED queueByKey
    /\ UNCHANGED <<session, mode, verkeys, threads, buffer, waiter, handling>>

\* The outbound queue has delivered it, or given up.
OutboundEnds(m) ==
    /\ heldBy[m] = "outbound"
    /\ \/ heldBy' = [heldBy EXCEPT ![m] = "sent"] /\ UNCHANGED queueByKey
       \/ ReturnUndelivered(m)
    /\ UNCHANGED <<session, mode, verkeys, threads, buffer, waiter, handling>>

-----------------------------------------------------------------------------
\* The end of a handler.

\* The first message of the queue of a key that the session accepts.
FirstAccepted(s, k) ==
    SelectInSeq(queueByKey[k], LAMBDA m : Accepts(s, m))

\* process_undelivered: the session takes one message, which leaves the queue.
ProcessUndelivered(s) ==
    \E k \in verkeys[s] :
        /\ FirstAccepted(s, k) > 0
        /\ LET m == queueByKey[k][FirstAccepted(s, k)]
           IN  /\ SetResponse(s, m)
               /\ heldBy' = [heldBy EXCEPT ![m] = "buffer"]
               /\ queueByKey' = [queueByKey EXCEPT ![k] = RemoveAt(@, FirstAccepted(s, k))]

\* Mutant: only requests accept undelivered messages.
DispatchCompleteHttp(s) ==
    /\ handling[s] > 0
    /\ handling' = [handling EXCEPT ![s] = @ - 1]
    /\ \/ s \in Https /\ ProcessUndelivered(s)
       \/ /\ s \in Https => \A k \in verkeys[s] : FirstAccepted(s, k) = 0
          /\ UNCHANGED <<buffer, waiter, queueByKey, heldBy>>
    /\ UNCHANGED <<session, mode, verkeys, threads>>

\* dispatch_complete, whether the handler succeeded or not.
DispatchComplete(s) ==
    /\ handling[s] > 0
    /\ handling' = [handling EXCEPT ![s] = @ - 1]
    /\ \/ ProcessUndelivered(s)
       \/ /\ \A k \in verkeys[s] : FirstAccepted(s, k) = 0
          /\ UNCHANGED <<buffer, waiter, queueByKey, heldBy>>
    /\ UNCHANGED <<session, mode, verkeys, threads>>

-----------------------------------------------------------------------------
Senders == {{k} : k \in Keys} \cup {{}}

InboundNext ==
    \/ \E s \in Sessions :
          \/ CreateSession(s) \/ PeerGone(s) \/ DispatchComplete(s)
          \/ WaitResponse(s) \/ EncodeOutbound(s)
          \/ Respond(s) \/ SendStarts(s) \/ Sent(s)
          \/ \E k \in Senders, m \in Modes, t \in Threads :
                ReceiveHttp(s, k, m, t) \/ ReceiveSocket(s, k, m, t)
    \/ \E m \in Msgs :
          \/ \E prefer \in {{s} : s \in Sessions} \cup {{}} : Route(m, prefer)
          \/ QueueOutbound(m) \/ OutboundEnds(m)

InboundSpec == InboundInit /\ [][InboundNext]_inboundVars

\* The event loop runs wait_response and the handlers, packing and sending end,
\* and so do the look-up of targets and the attempts of the outbound queue.
InboundFairness ==
    /\ \A s \in Sessions :
          /\ WF_inboundVars(WaitResponse(s)) /\ WF_inboundVars(EncodeOutbound(s))
          /\ WF_inboundVars(Respond(s)) /\ WF_inboundVars(SendStarts(s)) /\ WF_inboundVars(Sent(s))
          /\ WF_inboundVars(DispatchComplete(s))
    /\ \A m \in Msgs : WF_inboundVars(QueueOutbound(m)) /\ WF_inboundVars(OutboundEnds(m))

InboundFairSpec == InboundSpec /\ InboundFairness

-----------------------------------------------------------------------------
\* Properties.

Holders(m) == {s \in Sessions : session[s] = "open" /\ buffer[s] = m}

Positions == UNION {DOMAIN queueByKey[k] : k \in Keys}

Queued(m) ==
    {at \in Keys \X Positions :
        at[2] \in DOMAIN queueByKey[at[1]] /\ queueByKey[at[1]][at[2]] = m}

\* Whatever closes, fails or arrives in between, a message that has been routed
\* is in the hands of exactly one part: one open session, the undelivered
\* queue once, or neither while it is elsewhere.  A message held by none would
\* be lost, one held by two would be delivered twice.
HeldOnce ==
    \A m \in Msgs :
        /\ Cardinality(Holders(m)) = (IF heldBy[m] = "buffer" THEN 1 ELSE 0)
        /\ Cardinality(Queued(m)) = (IF heldBy[m] = "undelivered" THEN 1 ELSE 0)

\* A message a session holds does not stay there while the session waits: it is
\* sent, given up, or returned when the session closes.
BufferDrains == \A m \in Msgs : heldBy[m] = "buffer" ~> heldBy[m] # "buffer"

\* A handler of the session ends and the session holds no response, the
\* handler's own reply included.
EndsEmpty(s) == handling'[s] < handling[s] /\ buffer[s] = NoMsg

\* An undelivered message does not wait for ever for a peer that keeps a
\* WebSocket open for all its responses, when handlers of what it sends end
\* again and again with no response waiting, whatever else is routed and queued
\* meanwhile.  dispatch_complete does nothing after a handler whose reply, or
\* another's, is still in the buffer: a peer whose every message is answered may
\* never be given what is undelivered.  Nor need one that writes with several
\* keys: the queues of the others may be served instead.
PickedUp ==
    \A m \in Msgs, s \in Sockets :
        /\ <>[](session[s] = "open" /\ verkeys[s] = {To[m]} /\ mode[s] = "all")
        /\ []<><<EndsEmpty(s)>>_inboundVars
        => (heldBy[m] = "undelivered" ~> heldBy[m] # "undelivered")
=============================================================================
