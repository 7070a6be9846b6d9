------------------------------ MODULE Connection ------------------------------
(***************************************************************************)
(* The making of a connection, by connections 1.0 (RFC 160) or by DID      *)
(* exchange (RFC 23): an inviter with one invitation and the invitees that *)
(* got it.                                                                 *)
(*                                                                         *)
(* Every handler works on a copy of a record and saves all of it at once:  *)
(* an await lies between every two steps of a handler.  What is done to a  *)
(* message before its handler runs (find_inbound_connection) is one step   *)
(* of its own for a request; a complete and a ping, whose handlers save no *)
(* more than a state, are one step with it.                                *)
(* An invitee is named by its DID, a request by its invitee and a number;  *)
(* 0 stands for no DID.                                                    *)
(***************************************************************************)
EXTENDS Naturals, Sequences, FiniteSets

CONSTANTS
    Invitees,
    Tasks,          \* what the inviter can do at a time
    Settings,       \* ways to set up the agents, who is invited, and how many faults
    MaxAsks         \* bound: requests of one invitee

SettingOK(s) ==
    /\ {s.didx, s.multi, s.auto, s.serial} \subseteq BOOLEAN
    /\ s.invited \subseteq Invitees
    /\ s.faults \in Nat

ASSUME ConnectionAssumption ==
    /\ 0 \notin Invitees
    /\ MaxAsks \in Nat \ {0}
    /\ \A s \in Settings : SettingOK(s)

VARIABLES
    setting,        \* how the agents are set up, and bounds (below); never changed
    recs,           \* the inviter's records; the first is the invitation's
    attached,       \* the requests attached to each of them
    dids,           \* DIDs the inviter has made
    hand,           \* its handlers
    inv,            \* the record of each invitee
    asks,           \* the requests it has made
    ask, take,      \* its handlers: of the invitation, and of a response
    msgs,           \* messages on their way
    cached,         \* pairs of sender and recipient whose connection the inviter cached
    accepted,       \* history: the DIDs an invitee has accepted
    uncached,       \* history: invitees whose request is not in the cache, or no longer
    faults

inviter == <<recs, attached, dids, hand>>
invitee == <<inv, asks, ask, take, accepted>>
vars == <<setting, inviter, invitee, msgs, cached, uncached, faults>>

didx   == setting.didx      \* DID exchange, or connections 1.0
multi  == setting.multi     \* the invitation may be used many times
auto   == setting.auto      \* requests and invitations are accepted without asking
serial == setting.serial    \* no agent does two things at a time

\* Bound: a step that says Fault is taken no more often than the setting allows.
Fault == faults < setting.faults /\ faults' = faults + 1

States == {"invitation", "request", "response", "completed"}
Ready == {"response", "completed"}            \* is_ready

Message(kind, i, did, req) == [kind |-> kind, who |-> i, did |-> did, req |-> req]
NoRequest == <<0, 0>>
NoMessage == Message("none", 0, 0, NoRequest)

\* A record of the inviter, and the invitation's.
ConnRecord(state, my) == [state |-> state, my |-> my, their |-> 0, req |-> NoRequest]
Invitation == ConnRecord("invitation", 0)

\* A handler of the inviter that has nothing to do.
Idle == [pc |-> "idle", msg |-> NoMessage, rec |-> 1, copy |-> Invitation, resaves |-> FALSE]

\* An invitee's record when the invitation has been received, and idle handlers.
Invited == [state |-> "invitation", their |-> 0, req |-> NoRequest]
NotAsking == [pc |-> "idle", copy |-> Invited]
NotTaking == [pc |-> "idle", copy |-> Invited, msg |-> NoMessage]

Requests == (Invitees \X (1..MaxAsks)) \cup {NoRequest}

TypeOK ==
    /\ setting \in Settings
    /\ \A r \in DOMAIN recs :
          /\ recs[r].state \in States /\ recs[r].my \in 0..dids
          /\ recs[r].their \in Invitees \cup {0} /\ recs[r].req \in Requests
    /\ DOMAIN attached = DOMAIN recs
    /\ DOMAIN hand = Tasks
    /\ \A t \in Tasks : hand[t].pc \in {"idle", "find", "new", "save", "attach", "respond", "resave"}
    /\ \A i \in Invitees :
          /\ inv[i].state \in States /\ inv[i].their \in 0..dids /\ inv[i].req \in Requests
          /\ asks[i] \in 0..MaxAsks
          /\ ask[i].pc \in {"idle", "save", "resave"}
          /\ take[i].pc \in {"idle", "save", "complete"}
          /\ accepted[i] \subseteq 1..dids
    /\ \A m \in msgs : m.kind \in {"request", "response", "complete", "ping", "ping_response"}
    /\ uncached \subseteq Invitees /\ faults \in 0..setting.faults

Init ==
    /\ setting \in Settings
    /\ recs = <<Invitation>> /\ attached = <<(<<>>)>> /\ dids = 0
    /\ hand = [t \in Tasks |-> Idle]
    /\ inv = [i \in Invitees |-> Invited]
    /\ asks = [i \in Invitees |-> 0]
    /\ ask = [i \in Invitees |-> NotAsking]
    /\ take = [i \in Invitees |-> NotTaking]
    /\ accepted = [i \in Invitees |-> {}]
    /\ msgs = {} /\ cached = {} /\ uncached = {} /\ faults = 0

\* m is delivered: once, or again later, because its sender had no answer.
Delivered(m) ==
    /\ m \in msgs
    /\ \/ msgs' = msgs \ {m} /\ UNCHANGED faults
       \/ Fault /\ UNCHANGED msgs

Free(t) == hand[t].pc = "idle" /\ (serial => \A u \in Tasks : hand[u].pc = "idle")
InviteeFree(i) == serial => ask[i].pc = "idle" /\ take[i].pc = "idle"

-----------------------------------------------------------------------------
\* The inviter's connection for a message from invitee i to its DID, or to the
\* key of its invitation if that is 0.

\* retrieve_by_did
Matching(i, did) ==
    {r \in DOMAIN recs : recs[r].their = i /\ (did = 0 \/ recs[r].my = did)}

\* retrieve_by_invitation_key: records that are still invitations.
Open == {r \in DOMAIN recs : recs[r].state = "invitation"}

\* More than one record is an error, and the message is dropped.
Ambiguous(i, did) == <<i, did>> \notin cached /\ Cardinality(Matching(i, did)) > 1

\* find_connection with auto_complete: whoever answers is connected.
Promoted(i, did) ==
    [r \in DOMAIN recs |->
        IF <<i, did>> \notin cached /\ Matching(i, did) = {r} /\ recs[r].state = "response"
        THEN [recs[r] EXCEPT !.state = "completed"] ELSE recs[r]]

\* A record is found, or the invitation by its key; more than one invitation is
\* an error that counts as none.
Finds(i, did) ==
    <<i, did>> \in cached \/ Matching(i, did) # {} \/ (did = 0 /\ Cardinality(Open) = 1)

\* Mutant: only connections that exist are cached, not invitations.
FindInboundUncached(i, did) ==
    cached' = IF Matching(i, did) # {} THEN cached \cup {<<i, did>>} ELSE cached

\* find_inbound_connection caches what it finds, be it the invitation.
FindInbound(i, did) ==
    cached' = IF Finds(i, did) THEN cached \cup {<<i, did>>} ELSE cached

-----------------------------------------------------------------------------
\* The inviter's handler of a request

\* Mutant: the invitation's record is used whatever the invitation is for.
FirstStepInPlace(r) == "save"

\* is_multiuse_invitation: the first request of many does not use it up.
FirstStep(r) == IF multi /\ r = 1 THEN "new" ELSE "save"

\* The dispatcher has looked for the connection, and starts the handler whether it
\* has found one or not.
ReceiveRequest(t, m) ==
    /\ m.kind = "request" /\ Free(t) /\ Delivered(m)
    /\ \/ /\ Ambiguous(m.who, 0)
          /\ UNCHANGED <<recs, cached, uncached, hand>>
       \/ /\ ~Ambiguous(m.who, 0)
          /\ recs' = Promoted(m.who, 0)
          /\ FindInbound(m.who, 0)
          /\ uncached' = IF Finds(m.who, 0) THEN uncached ELSE uncached \cup {m.who}
          /\ hand' = [hand EXCEPT ![t] = [Idle EXCEPT !.pc = "find", !.msg = m]]
    /\ UNCHANGED <<setting, attached, dids, invitee>>

\* The handler looks for the invitation, and gives up if there is none, or more
\* than one.
FindInvitation(t) ==
    /\ hand[t].pc = "find"
    /\ \/ Cardinality(Open) # 1 /\ hand' = [hand EXCEPT ![t] = Idle]
       \/ /\ Cardinality(Open) = 1
          /\ \E r \in Open :
                hand' = [hand EXCEPT ![t] =
                   [pc |-> FirstStep(r), msg |-> hand[t].msg,
                    rec |-> r, copy |-> recs[r], resaves |-> didx]]
    /\ UNCHANGED <<setting, recs, attached, dids, invitee, msgs, cached, uncached, faults>>

\* An invitation for many leads to a record of its own for the request; in
\* connections 1.0 that is an invitation itself until the request is saved.
NewRecord(t) ==
    /\ hand[t].pc = "new"
    /\ LET new == ConnRecord(IF didx THEN "request" ELSE "invitation", dids + 1)
       IN  /\ recs' = Append(recs, new)
           /\ hand' = [hand EXCEPT ![t] =
                [@ EXCEPT !.pc = "save", !.rec = Len(recs) + 1, !.copy = new]]
    /\ attached' = Append(attached, <<>>)
    /\ dids' = dids + 1
    /\ UNCHANGED <<setting, invitee, msgs, cached, uncached, faults>>

\* The DID document does not fit the request: the handler ends, and a new record
\* remains as it is.
RejectRequest(t) ==
    /\ hand[t].pc = "save" /\ Fault
    /\ hand' = [hand EXCEPT ![t] = Idle]
    /\ UNCHANGED <<setting, recs, attached, dids, invitee, msgs, cached, uncached>>

\* The request is saved in the record; its id only in DID exchange.
SaveRequest(t) ==
    /\ hand[t].pc = "save"
    /\ LET h == hand[t]
           copy == [h.copy EXCEPT !.state = "request", !.their = h.msg.who,
                                  !.req = IF didx THEN h.msg.req ELSE @]
       IN  /\ recs' = [recs EXCEPT ![h.rec] = copy]
           /\ hand' = [hand EXCEPT ![t] = [@ EXCEPT !.pc = "attach", !.copy = copy]]
    /\ UNCHANGED <<setting, attached, dids, invitee, msgs, cached, uncached, faults>>

\* attach_request; a request that is not accepted by itself waits for the admin.
AttachRequest(t) ==
    /\ hand[t].pc = "attach"
    /\ attached' = [attached EXCEPT ![hand[t].rec] = Append(@, hand[t].msg)]
    /\ hand' = [hand EXCEPT ![t] = IF auto THEN [@ EXCEPT !.pc = "respond"] ELSE Idle]
    /\ UNCHANGED <<setting, recs, dids, invitee, msgs, cached, uncached, faults>>

\* The admin accepts a request that waits, if the agent leaves that to it; to
\* accept one that has had its response, which connections 1.0 lets it do, counts
\* as a fault.
AcceptRequest(t, r) ==
    /\ Free(t) /\ ~auto
    /\ \/ recs[r].state = "request" /\ UNCHANGED faults
       \/ recs[r].state = "response" /\ ~didx /\ Fault
    /\ hand' = [hand EXCEPT ![t] =
          [pc |-> "respond", msg |-> NoMessage, rec |-> r, copy |-> recs[r], resaves |-> FALSE]]
    /\ UNCHANGED <<setting, recs, attached, dids, invitee, msgs, cached, uncached>>

\* Mutant: a DID is made for every response.
CreateResponseAnew(t) ==
    /\ hand[t].pc = "respond"
    /\ LET h == hand[t]
           copy == [h.copy EXCEPT !.state = "response"]
       IN  \/ /\ Len(attached[h.rec]) # 1
              /\ hand' = [hand EXCEPT ![t] = Idle]
              /\ UNCHANGED <<recs, dids, msgs>>
           \/ /\ Len(attached[h.rec]) = 1
              /\ dids' = dids + 1
              /\ recs' = [recs EXCEPT ![h.rec] = copy]
              /\ LET request == attached[h.rec][1]
                 IN  msgs' = msgs \cup {Message("response", request.who, dids + 1, request.req)}
              /\ hand' = [hand EXCEPT ![t] =
                    IF h.resaves THEN [h EXCEPT !.pc = "resave", !.copy = copy] ELSE Idle]
    /\ UNCHANGED <<setting, attached, invitee, cached, uncached, faults>>

\* create_response: the request attached, if it is the only one, is answered with
\* the DID the record has, or with a new one.  The response is sent when the
\* record is saved.
CreateResponse(t) ==
    /\ hand[t].pc = "respond"
    /\ LET h == hand[t]
           my == IF h.copy.my # 0 THEN h.copy.my ELSE dids + 1
           copy == [h.copy EXCEPT !.state = "response", !.my = my]
       IN  \/ /\ Len(attached[h.rec]) # 1
              /\ hand' = [hand EXCEPT ![t] = Idle]
              /\ UNCHANGED <<recs, dids, msgs>>
           \/ /\ Len(attached[h.rec]) = 1
              /\ dids' = IF my > dids THEN my ELSE dids
              /\ recs' = [recs EXCEPT ![h.rec] = copy]
              /\ LET request == attached[h.rec][1]
                 IN  msgs' = msgs \cup {Message("response", request.who, my, request.req)}
              /\ hand' = [hand EXCEPT ![t] =
                    IF h.resaves THEN [h EXCEPT !.pc = "resave", !.copy = copy] ELSE Idle]
    /\ UNCHANGED <<setting, attached, invitee, cached, uncached, faults>>

\* DID exchange saves its copy once more when the response has been sent.
ResaveResponse(t) ==
    /\ hand[t].pc = "resave"
    /\ recs' = [recs EXCEPT ![hand[t].rec] = hand[t].copy]
    /\ hand' = [hand EXCEPT ![t] = Idle]
    /\ UNCHANGED <<setting, attached, dids, invitee, msgs, cached, uncached, faults>>

-----------------------------------------------------------------------------
\* The inviter's handlers of a complete and of a ping

\* accept_complete: the record with the id of the request, whatever its state.
ReceiveComplete(m) ==
    /\ m.kind = "complete" /\ Delivered(m)
    /\ \/ Ambiguous(m.who, m.did) /\ UNCHANGED <<recs, cached>>
       \/ /\ ~Ambiguous(m.who, m.did)
          /\ FindInbound(m.who, m.did)
          /\ LET found == Promoted(m.who, m.did)
                 asked == {r \in DOMAIN recs : recs[r].req = m.req}
             IN  recs' = [r \in DOMAIN recs |->
                    IF asked = {r} THEN [found[r] EXCEPT !.state = "completed"] ELSE found[r]]
    /\ UNCHANGED <<setting, attached, dids, hand, invitee, uncached>>

\* A ping is answered if the connection is found and ready.
ReceivePing(m) ==
    /\ m.kind = "ping" /\ m \in msgs
    /\ \/ Ambiguous(m.who, m.did) /\ msgs' = msgs \ {m} /\ UNCHANGED <<recs, cached>>
       \/ /\ ~Ambiguous(m.who, m.did)
          /\ FindInbound(m.who, m.did)
          /\ recs' = Promoted(m.who, m.did)
          /\ msgs' = (msgs \ {m}) \cup
                {Message("ping_response", m.who, m.did, NoRequest) :
                    r \in {s \in Matching(m.who, m.did) : recs[s].state \in Ready}}
    /\ UNCHANGED <<setting, attached, dids, hand, invitee, uncached, faults>>

-----------------------------------------------------------------------------
\* The invitee's handler of its invitation

\* The invitation is accepted: by itself, once, or by the admin, who may do it
\* again in any state; to do so counts as a fault.
AcceptInvitation(i) ==
    /\ i \in setting.invited /\ ask[i].pc = "idle" /\ InviteeFree(i)
    /\ \/ asks[i] = 0 /\ UNCHANGED faults
       \/ asks[i] \in 1..(MaxAsks - 1) /\ Fault
    /\ ask' = [ask EXCEPT ![i] = [pc |-> "save", copy |-> inv[i]]]
    /\ UNCHANGED <<setting, inviter, inv, asks, take, accepted, msgs, cached, uncached>>

\* create_request, and the request sent when the record is saved.  DID exchange
\* saves the record once more if the invitation was accepted by itself.
CreateRequest(i) ==
    /\ ask[i].pc = "save"
    /\ LET copy == [ask[i].copy EXCEPT !.state = "request", !.req = <<i, asks[i] + 1>>]
       IN  /\ inv' = [inv EXCEPT ![i] = copy]
           /\ msgs' = msgs \cup {Message("request", i, 0, copy.req)}
           /\ ask' = [ask EXCEPT ![i] =
                IF didx /\ auto /\ asks[i] = 0 THEN [pc |-> "resave", copy |-> copy] ELSE NotAsking]
    /\ asks' = [asks EXCEPT ![i] = @ + 1]
    /\ UNCHANGED <<setting, inviter, take, accepted, cached, uncached, faults>>

ResaveRequest(i) ==
    /\ ask[i].pc = "resave"
    /\ inv' = [inv EXCEPT ![i] = ask[i].copy]
    /\ ask' = [ask EXCEPT ![i] = NotAsking]
    /\ UNCHANGED <<setting, inviter, asks, take, accepted, msgs, cached, uncached, faults>>

-----------------------------------------------------------------------------
\* The invitee's handlers of a response and of the answer to a ping

\* The invitee's record when a message from one of the inviter's DIDs is there.
Answered(i, did) ==
    IF inv[i].their = did /\ inv[i].state = "response"
    THEN [inv[i] EXCEPT !.state = "completed"] ELSE inv[i]

\* accept_response: the record of the request, or else of the DID if it is one
\* already known; the state it has to be in depends on the protocol.
ReceiveResponse(m) ==
    /\ m.kind = "response" /\ Delivered(m)
    /\ LET i == m.who
           found == Answered(i, m.did)
           asked == found.req = m.req \/ (m.did \in accepted[i] /\ found.their = m.did)
           fits == found.state = "request" \/ (~didx /\ found.state = "response")
       IN  /\ take[i].pc = "idle" /\ InviteeFree(i)
           /\ inv' = [inv EXCEPT ![i] = found]
           /\ take' = IF asked /\ fits
                      THEN [take EXCEPT ![i] = [pc |-> "save", copy |-> found, msg |-> m]]
                      ELSE take
    /\ UNCHANGED <<setting, inviter, asks, ask, accepted, cached, uncached>>

\* The DID of the response is taken.  DID exchange then sends a complete and saves
\* its copy again.
SaveResponse(i) ==
    /\ take[i].pc = "save"
    /\ LET m == take[i].msg
           copy == [take[i].copy EXCEPT !.state = "response", !.their = m.did]
       IN  /\ inv' = [inv EXCEPT ![i] = copy]
           /\ accepted' = [accepted EXCEPT ![i] = @ \cup {m.did}]
           /\ IF didx
              THEN /\ msgs' = msgs \cup {Message("complete", i, m.did, m.req)}
                   /\ take' = [take EXCEPT ![i] = [@ EXCEPT !.pc = "complete", !.copy = copy]]
              ELSE take' = [take EXCEPT ![i] = NotTaking] /\ UNCHANGED msgs
    /\ UNCHANGED <<setting, inviter, asks, ask, cached, uncached, faults>>

SaveComplete(i) ==
    /\ take[i].pc = "complete"
    /\ inv' = [inv EXCEPT ![i] = [take[i].copy EXCEPT !.state = "completed"]]
    /\ take' = [take EXCEPT ![i] = NotTaking]
    /\ UNCHANGED <<setting, inviter, asks, ask, accepted, msgs, cached, uncached, faults>>

\* An invitee that is ready sends a ping, by itself or because the admin wants.
\* Bound: not once it is completed, when a ping changes nothing, and not while a
\* message from or to it is on its way.
SendPing(i) ==
    /\ inv[i].state = "response" /\ \A m \in msgs : m.who # i
    /\ msgs' = {Message("ping", i, inv[i].their, NoRequest)} \cup msgs
    /\ UNCHANGED <<setting, inviter, invitee, cached, uncached, faults>>

ReceivePingResponse(m) ==
    /\ m.kind = "ping_response" /\ m \in msgs
    /\ msgs' = msgs \ {m}
    /\ inv' = [inv EXCEPT ![m.who] = Answered(m.who, m.did)]
    /\ UNCHANGED <<setting, inviter, asks, ask, take, accepted, cached, uncached, faults>>

-----------------------------------------------------------------------------
\* The environment

Lose(m) ==
    /\ m \in msgs /\ Fault
    /\ msgs' = msgs \ {m}
    /\ UNCHANGED <<setting, inviter, invitee, cached, uncached>>

\* Those whose cached request is dropped.
Dropped(pairs) == {i \in Invitees : <<i, 0>> \in pairs}

\* A cached connection is an hour old.
Expire(pair) ==
    /\ pair \in cached /\ Fault
    /\ cached' = cached \ {pair}
    /\ uncached' = uncached \cup Dropped({pair})
    /\ UNCHANGED <<setting, inviter, invitee, msgs>>

\* An agent is started again: its records remain.
RestartInviter ==
    /\ Fault
    /\ hand' = [t \in Tasks |-> Idle]
    /\ cached' = {}
    /\ uncached' = uncached \cup Dropped(cached)
    /\ UNCHANGED <<setting, recs, attached, dids, invitee, msgs>>

RestartInvitee(i) ==
    /\ Fault
    /\ ask' = [ask EXCEPT ![i] = NotAsking]
    /\ take' = [take EXCEPT ![i] = NotTaking]
    /\ UNCHANGED <<setting, inviter, inv, asks, accepted, msgs, cached, uncached>>

-----------------------------------------------------------------------------
InviterRuns(t) ==
    \/ FindInvitation(t) \/ NewRecord(t) \/ SaveRequest(t) \/ AttachRequest(t)
    \/ CreateResponse(t) \/ ResaveResponse(t)

InviteeRuns(i) ==
    \/ CreateRequest(i) \/ ResaveRequest(i)
    \/ SaveResponse(i) \/ SaveComplete(i)

Next ==
    \/ \E m \in msgs :
          \/ \E t \in Tasks : ReceiveRequest(t, m)
          \/ ReceiveComplete(m) \/ ReceivePing(m)
          \/ ReceiveResponse(m) \/ ReceivePingResponse(m)
          \/ Lose(m)
    \/ \E t \in Tasks :
          \/ FindInvitation(t) \/ NewRecord(t) \/ RejectRequest(t)
          \/ SaveRequest(t) \/ AttachRequest(t)
          \/ \E r \in DOMAIN recs : AcceptRequest(t, r)
          \/ CreateResponse(t) \/ ResaveResponse(t)
    \/ \E i \in Invitees :
          \/ AcceptInvitation(i) \/ CreateRequest(i) \/ ResaveRequest(i)
          \/ SaveResponse(i) \/ SaveComplete(i)
          \/ SendPing(i) \/ RestartInvitee(i)
    \/ \E pair \in cached : Expire(pair)
    \/ RestartInviter

Spec == Init /\ [][Next]_vars

\* Handlers and messages that are not lost arrive at their end; invitations and
\* requests are accepted, by the agents or by their admins.
Fairness ==
    /\ \A t \in Tasks : WF_vars(InviterRuns(t))
    /\ \A i \in Invitees :
          /\ WF_vars(InviteeRuns(i))
          /\ WF_vars(asks[i] = 0 /\ AcceptInvitation(i))
          /\ WF_vars(\E m \in msgs : m.who = i /\ \E t \in Tasks : ReceiveRequest(t, m))
          /\ WF_vars(\E m \in msgs : m.who = i /\ (ReceiveComplete(m) \/ ReceiveResponse(m)))
    /\ WF_vars(\E t \in Tasks, r \in DOMAIN recs :
                  recs[r].state = "request" /\ AcceptRequest(t, r))

FairSpec == Spec /\ Fairness

-----------------------------------------------------------------------------
\* Properties.

\* The inviter has a connection with invitee i over the DID that i holds.
Agreed(i) ==
    \E r \in DOMAIN recs :
        recs[r].my = inv[i].their /\ recs[r].their = i /\ recs[r].state \in Ready

\* No two handlers of the inviter work on one record: it does one thing at a time,
\* or has a record for each request, which its admin cannot accept before it is
\* saved (as it could in DID exchange).
OneHandler == serial \/ (multi /\ (auto \/ ~didx))

\* Whoever holds a DID of the inviter has a connection with it there too, whatever
\* is lost, comes twice or overlaps in other records.
Agreement ==
    OneHandler => \A i \in Invitees : inv[i].their # 0 => Agreed(i)

\* A connection is completed for the inviter only if its invitee has accepted the
\* DID the record has, as long as the cache knows that the invitee has asked: a
\* request that comes again completes what it finds if it is not cached, as when
\* the record made for another request was taken for a second invitation.
CompletedIsKnown ==
    OneHandler =>
        \A r \in DOMAIN recs :
            recs[r].state = "completed" /\ recs[r].their \notin uncached =>
                recs[r].my \in accepted[recs[r].their]

\* One who accepts the invitation once, while no agent does two things at a time
\* and nothing goes wrong, gets its connection; of those who share an invitation
\* for one, one does.
Connected(i) == inv[i].state \in Ready /\ Agreed(i)

Connects ==
    serial ~> \/ faults > 0
              \/ multi /\ \A i \in setting.invited : Connected(i)
              \/ ~multi /\ \E i \in setting.invited : Connected(i)
=============================================================================
