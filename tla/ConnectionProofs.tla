--------------------------- MODULE ConnectionProofs ---------------------------
(***************************************************************************)
(* Proofs about connections, for any number of invitees, handlers of the   *)
(* inviter, requests, messages and faults: whoever holds a DID of the      *)
(* inviter has a connection with it there, what is completed was accepted, *)
(* and each DID has one connection.                                        *)
(*                                                                         *)
(* Types hold in every setting, and so does what is said of DIDs alone.    *)
(* The rest is shown of an inviter no two of whose handlers work on one    *)
(* record (OneHandler): it says that the copies handlers carry agree with  *)
(* the records they will be saved over, and messages and invitees with the *)
(* records they were made of.                                              *)
(***************************************************************************)
EXTENDS Connection, FiniteSetTheorems, SequenceTheorems, TLAPS

-----------------------------------------------------------------------------
\* The types of records, messages and handlers.

ConnRecs == [state : States, my : Nat, their : Invitees \cup {0}, req : Requests]
Kinds    == {"request", "response", "complete", "ping", "ping_response"}
Mail     == [kind : Kinds, who : Invitees, did : Nat, req : Requests]
Given    == Mail \cup {NoMessage}
Hands    == [pc : {"idle", "find", "new", "save", "attach", "respond", "resave"}, msg : Given,
             rec : Nat, copy : ConnRecs, resaves : BOOLEAN]
InvRecs  == [state : States, their : Nat, req : Requests]
Asking   == [pc : {"idle", "save", "resave"}, copy : InvRecs]
Taking   == [pc : {"idle", "save", "complete"}, copy : InvRecs, msg : Given]

InviterTyped ==
    /\ recs \in Seq(ConnRecs) /\ Len(recs) # 0
    /\ attached \in Seq(Seq(Mail)) /\ Len(attached) = Len(recs)
    /\ dids \in Nat
    /\ hand \in [Tasks -> Hands]
    /\ \A t \in Tasks : hand[t].rec \in 1..Len(recs)
    /\ \A t \in Tasks : hand[t].pc \in {"find", "new", "save", "attach"} =>
           hand[t].msg \in Mail /\ hand[t].msg.kind = "request"

InviteeTyped ==
    /\ inv \in [Invitees -> InvRecs]
    /\ asks \in [Invitees -> 0..MaxAsks]
    /\ ask \in [Invitees -> Asking]
    /\ \A i \in Invitees : ask[i].pc = "save" => asks[i] < MaxAsks
    /\ take \in [Invitees -> Taking]
    /\ accepted \in [Invitees -> SUBSET Nat]

CommonTyped ==
    /\ setting \in Settings
    /\ msgs \subseteq Mail
    /\ uncached \subseteq Invitees /\ faults \in 0..setting.faults

Typed == InviterTyped /\ InviteeTyped /\ CommonTyped

-----------------------------------------------------------------------------
\* The inviter.

Working == {"attach", "respond", "resave"}

\* An invitation has been asked for by nobody, what has an answer has, a record with
\* one request is of who made it, and records of their own have a DID from the start.
RecordState ==
    /\ \A r \in DOMAIN recs :
          /\ recs[r].state = "invitation" =>
                recs[r].their = 0 /\ recs[r].req = NoRequest /\ attached[r] = <<>>
          /\ Len(attached[r]) = 1 =>
                /\ attached[r][1].who = recs[r].their
                /\ didx => attached[r][1].req = recs[r].req
          /\ recs[r].state \in Ready \/ recs[r].req # NoRequest => recs[r].their # 0
          /\ r # 1 => multi /\ recs[r].my # 0
    /\ multi => recs[1].state = "invitation"

\* A record about to get its request is as it was found; then the handler's copy
\* of it is right but for its state.
HandlerOK(h) ==
    /\ h.pc = "new" => multi
    /\ h.pc \in {"save"} \cup Working => (multi => h.rec # 1)
    /\ h.pc = "save" =>
          /\ recs[h.rec].state = "invitation" \/ (didx /\ recs[h.rec].state = "request")
          /\ recs[h.rec].their = 0 /\ recs[h.rec].req = NoRequest
          /\ attached[h.rec] = <<>>
          /\ h.copy.my = recs[h.rec].my /\ h.copy.their = 0 /\ h.copy.req = NoRequest
    /\ h.pc \in Working =>
          /\ recs[h.rec].state # "invitation"
          /\ h.copy.my = recs[h.rec].my
          /\ h.copy.their = recs[h.rec].their
          /\ h.copy.req = recs[h.rec].req
    /\ h.pc = "attach" =>
          /\ h.copy.their = h.msg.who
          /\ didx => h.copy.req = h.msg.req
    /\ h.pc = "resave" => h.copy.state = "response" /\ h.copy.their # 0

HandlerState == \A t \in Tasks : HandlerOK(hand[t])

\* No handler works on a record that another is about to save its request in.
Apart ==
    \A t, u \in Tasks : t # u =>
        /\ serial => hand[t].pc = "idle" \/ hand[u].pc = "idle"
        /\ hand[t].pc = "save" /\ hand[u].pc \in {"save"} \cup Working => hand[t].rec # hand[u].rec

InviterInv == RecordState /\ HandlerState /\ Apart

-----------------------------------------------------------------------------
\* The invitees.

\* The inviter has a connection with i over did, made for the request.
Kept(did, i, req) ==
    \E r \in DOMAIN recs :
        /\ recs[r].my = did /\ recs[r].their = i /\ recs[r].state \in Ready
        /\ didx => recs[r].req = req

\* An invitee knows no DID that it has not accepted and the inviter does not keep.
Known(i, did) == did # 0 => did \in accepted[i] /\ \E req \in Requests : Kept(did, i, req)

\* What messages say is true: a response is kept to, and who completes or pings
\* has accepted the DID it writes to.
MailOK(m) ==
    /\ m.kind \in {"request", "response", "complete"} => m.req # NoRequest
    /\ m.kind \in {"response", "complete"} => m.did # 0 /\ Kept(m.did, m.who, m.req)
    /\ m.kind \in {"complete", "ping"} => m.did # 0 /\ m.did \in accepted[m.who]
    /\ m.kind = "complete" => didx

MailState == \A m \in msgs : MailOK(m)

InviteeOK(i) ==
    /\ Known(i, inv[i].their) /\ Known(i, ask[i].copy.their) /\ Known(i, take[i].copy.their)
    /\ inv[i].state = "response" => inv[i].their # 0
    /\ ask[i].pc = "resave" => ask[i].copy.state = "request"
    /\ take[i].pc = "save" =>
          /\ take[i].msg \in Mail /\ take[i].msg.who = i
          /\ take[i].msg.did # 0 /\ take[i].msg.req # NoRequest
          /\ Kept(take[i].msg.did, i, take[i].msg.req)

InviteeState == \A i \in Invitees : InviteeOK(i)

\* The requests that are attached or about to be are requests.
AskedState ==
    /\ \A t \in Tasks : hand[t].pc \in {"find", "new", "save", "attach"} => hand[t].msg.req # NoRequest
    /\ \A r \in DOMAIN attached : Len(attached[r]) = 1 => attached[r][1].req # NoRequest

InviteeInv == MailState /\ InviteeState /\ AskedState

-----------------------------------------------------------------------------
\* The cache.

\* Whoever has asked is in the cache, by the key of the invitation, or uncached.
CacheState ==
    /\ \A r \in DOMAIN recs : recs[r].their \notin {0} \cup uncached => <<recs[r].their, 0>> \in cached
    /\ \A t \in Tasks :
          hand[t].pc \in {"find", "new", "save", "attach"} /\ hand[t].msg.who \notin uncached =>
              <<hand[t].msg.who, 0>> \in cached

Sound == InviterInv /\ InviteeInv /\ CacheState /\ CompletedIsKnown

ConnInv == Typed /\ (OneHandler => Sound)

-----------------------------------------------------------------------------
\* Records and sequences.

USE ConnectionAssumption

\* A function on 1..n is a sequence of length n.
LEMMA IsSequence ==
    ASSUME NEW S, NEW n \in Nat, NEW f \in [1..n -> S]
    PROVE  f \in Seq(S) /\ Len(f) = n /\ DOMAIN f = 1..n
  BY SeqDef

\* One record is replaced.
LEMMA OneSaved ==
    ASSUME InviterTyped, NEW n \in DOMAIN recs, NEW c \in ConnRecs, recs' = [recs EXCEPT ![n] = c]
    PROVE  /\ recs' \in Seq(ConnRecs) /\ Len(recs') = Len(recs) /\ DOMAIN recs' = DOMAIN recs
           /\ \A r \in DOMAIN recs : recs'[r] = IF r = n THEN c ELSE recs[r]
<1>1. recs \in Seq(ConnRecs)
  BY DEF InviterTyped
<1> HIDE DEF ConnRecs
<1> QED BY <1>1, ExceptSeq

\* What a message tells about records with auto_complete.
LEMMA PromotedFacts ==
    ASSUME InviterTyped, NEW i, NEW did
    PROVE  /\ Promoted(i, did) \in Seq(ConnRecs)
           /\ Len(Promoted(i, did)) = Len(recs) /\ DOMAIN Promoted(i, did) = DOMAIN recs
           /\ \A r \in DOMAIN recs :
                 \/ Promoted(i, did)[r] = recs[r]
                 \/ /\ <<i, did>> \notin cached /\ r \in Matching(i, did)
                    /\ recs[r].state = "response"
                    /\ Promoted(i, did)[r] = [recs[r] EXCEPT !.state = "completed"]
<1> DEFINE P == Promoted(i, did)
<1>1. recs \in Seq(ConnRecs) /\ DOMAIN recs = 1..Len(recs) /\ Len(recs) \in Nat
      /\ \A r \in DOMAIN recs : recs[r] \in ConnRecs
  BY DEF InviterTyped
<1>2. ASSUME NEW r \in DOMAIN recs
      PROVE  \/ P[r] = recs[r]
             \/ /\ <<i, did>> \notin cached /\ r \in Matching(i, did)
                /\ recs[r].state = "response"
                /\ P[r] = [recs[r] EXCEPT !.state = "completed"]
  BY DEF Promoted
<1>3. ASSUME NEW c \in ConnRecs PROVE [c EXCEPT !.state = "completed"] \in ConnRecs
  BY DEF ConnRecs, States
<1>4. \A r \in DOMAIN recs : P[r] \in ConnRecs
  BY <1>1, <1>2, <1>3
<1>5. DOMAIN P = 1..Len(recs) /\ P = [r \in 1..Len(recs) |-> P[r]]
  BY <1>1 DEF Promoted
<1> HIDE DEF P
<1>6. P \in [1..Len(recs) -> ConnRecs]
  BY <1>1, <1>4, <1>5
<1>7. P \in Seq(ConnRecs) /\ Len(P) = Len(recs)
  BY <1>1, <1>6, IsSequence
<1> QED BY <1>1, <1>2, <1>5, <1>7 DEF P

\* Records change at most by being completed: those with a response, or with a
\* request whose number is in the message.
Advanced ==
    /\ recs' \in Seq(ConnRecs) /\ Len(recs') = Len(recs) /\ DOMAIN recs' = DOMAIN recs
    /\ \A r \in DOMAIN recs :
          /\ recs'[r].my = recs[r].my /\ recs'[r].their = recs[r].their /\ recs'[r].req = recs[r].req
          /\ \/ recs'[r].state = recs[r].state
             \/ /\ recs'[r].state = "completed"
                /\ recs[r].state = "response" \/ recs[r].req # NoRequest

\* What find_inbound_connection promotes.
LEMMA PromotedAdvances ==
    ASSUME InviterTyped, NEW i, NEW did, recs' = Promoted(i, did)
    PROVE  /\ Advanced
           /\ \A r \in DOMAIN recs : recs'[r].state = "completed" =>
                 \/ recs[r].state = "completed"
                 \/ <<i, did>> \notin cached /\ r \in Matching(i, did)
<1> DEFINE P == Promoted(i, did)
<1>1. recs' = P
  OBVIOUS
<1>2. \A r \in DOMAIN recs :
         \/ P[r] = recs[r]
         \/ /\ <<i, did>> \notin cached /\ r \in Matching(i, did)
            /\ recs[r].state = "response"
            /\ P[r] = [recs[r] EXCEPT !.state = "completed"]
  BY PromotedFacts
<1>3. P \in Seq(ConnRecs) /\ Len(P) = Len(recs) /\ DOMAIN P = DOMAIN recs
  BY PromotedFacts
<1> HIDE DEF P
<1>4. \A r \in DOMAIN recs : recs[r] \in ConnRecs
  BY DEF InviterTyped
<1>5. ASSUME NEW r \in DOMAIN recs
      PROVE  /\ recs'[r].my = recs[r].my /\ recs'[r].their = recs[r].their /\ recs'[r].req = recs[r].req
             /\ \/ recs'[r].state = recs[r].state
                \/ /\ recs'[r].state = "completed" /\ recs[r].state = "response"
                   /\ <<i, did>> \notin cached /\ r \in Matching(i, did)
  <2> PICK c \in ConnRecs : c = recs[r]
    BY <1>4
  <2>1. CASE P[r] = recs[r]
    BY <1>1, <2>1
  <2>2. CASE P[r] # recs[r]
    <3>1. P[r] = [c EXCEPT !.state = "completed"]
      BY <1>2, <2>2
    <3>2. P[r].my = c.my /\ P[r].their = c.their /\ P[r].req = c.req /\ P[r].state = "completed"
      BY <3>1 DEF ConnRecs
    <3> QED BY <3>2, <1>1, <1>2, <2>2
  <2> QED BY <2>1, <2>2
<1>6. Advanced
  BY <1>1, <1>3, <1>5 DEF Advanced
<1> QED BY <1>5, <1>6

\* Records that are ready stay so, with their DID, their invitee and its request.
Steady ==
    \A r \in DOMAIN recs :
        /\ r \in DOMAIN recs'
        /\ recs[r].state \in Ready /\ recs[r].my # 0 =>
              /\ recs'[r].state \in Ready /\ recs'[r].my = recs[r].my
              /\ recs'[r].their = recs[r].their /\ recs'[r].req = recs[r].req

\* Then no record gets other DIDs or another request.
LEMMA AdvancedIsSteady == Advanced => Steady
  BY DEF Advanced, Steady, Ready

\* A connection kept stays kept.
LEMMA KeptStays ==
    ASSUME Steady, UNCHANGED setting, NEW did, did # 0, NEW i, NEW req, Kept(did, i, req)
    PROVE  Kept(did, i, req)'
  BY DEF Steady, Kept, didx

\* What the invitees know stays true if the inviter's records stay.
LEMMA InviteesStay ==
    ASSUME InviteeState, Steady, UNCHANGED <<setting, invitee>>
    PROVE  InviteeState'
<1> SUFFICES ASSUME NEW i \in Invitees PROVE InviteeOK(i)'
  BY DEF InviteeState
<1>1. InviteeOK(i)
  BY DEF InviteeState
<1>2. ASSUME NEW did, Known(i, did) PROVE Known(i, did)'
  BY <1>2, KeptStays DEF Known, invitee
<1>3. Known(i, inv[i].their)' /\ Known(i, ask[i].copy.their)' /\ Known(i, take[i].copy.their)'
  BY <1>1, <1>2 DEF InviteeOK, invitee, Known
<1>4. take'[i].pc = "save" => Kept(take[i].msg.did, i, take[i].msg.req)'
  BY <1>1, KeptStays DEF InviteeOK, invitee
<1> QED BY <1>1, <1>3, <1>4 DEF InviteeOK, invitee

\* So does what messages say.
LEMMA MessagesStay ==
    ASSUME MailState, Steady, UNCHANGED <<setting, accepted>>, NEW m \in msgs
    PROVE  MailOK(m)'
  BY KeptStays DEF MailState, MailOK, didx

-----------------------------------------------------------------------------
\* Types.

\* A message as it is made.
LEMMA MessageTyped ==
    ASSUME NEW kind \in Kinds, NEW i \in Invitees, NEW did \in Nat, NEW req \in Requests
    PROVE  /\ Message(kind, i, did, req) \in Mail
           /\ Message(kind, i, did, req).kind = kind /\ Message(kind, i, did, req).who = i
           /\ Message(kind, i, did, req).did = did /\ Message(kind, i, did, req).req = req
  BY DEF Message, Mail

\* The parts of a setting.
LEMMA SettingTyped ==
    ASSUME CommonTyped
    PROVE  /\ didx \in BOOLEAN /\ multi \in BOOLEAN /\ auto \in BOOLEAN /\ serial \in BOOLEAN
           /\ setting.invited \subseteq Invitees /\ setting.faults \in Nat
<1>1. setting \in Settings
  BY DEF CommonTyped
<1>2. SettingOK(setting)
  BY <1>1
<1> QED BY <1>2 DEF SettingOK, didx, multi, auto, serial

\* What a step does to the bounded number of faults and to messages.
LEMMA CommonFrame ==
    ASSUME CommonTyped, UNCHANGED setting, msgs' \subseteq Mail, Fault \/ UNCHANGED faults,
           uncached' \subseteq Invitees
    PROVE  CommonTyped'
<1>1. setting.faults \in Nat /\ faults \in 0..setting.faults
  BY SettingTyped DEF CommonTyped
<1>2. setting' \in Settings /\ setting'.faults = setting.faults
  BY DEF CommonTyped
<1>3. faults' \in 0..setting'.faults
  <2>1. CASE Fault
    BY <1>1, <1>2, <2>1 DEF Fault
  <2>2. CASE UNCHANGED faults
    BY <1>1, <1>2, <2>2
  <2> QED BY <2>1, <2>2
<1> QED BY <1>2, <1>3 DEF CommonTyped

\* A message is delivered; it may come again.
LEMMA DeliveredTyped ==
    ASSUME CommonTyped, NEW m, Delivered(m), UNCHANGED setting, uncached' \subseteq uncached \cup {m.who}
    PROVE  CommonTyped' /\ m \in msgs /\ m \in Mail /\ msgs' \subseteq msgs
<1>1. m \in msgs /\ m \in Mail /\ msgs' \subseteq msgs /\ msgs' \subseteq Mail /\ (Fault \/ UNCHANGED faults)
  BY DEF Delivered, CommonTyped
<1>2. uncached' \subseteq Invitees
  BY <1>1 DEF CommonTyped, Mail
<1> QED BY <1>1, <1>2, CommonFrame

\* What one side does leaves the other side as it is.
LEMMA InviteeFrame == ASSUME InviteeTyped, UNCHANGED invitee PROVE InviteeTyped'
  BY DEF InviteeTyped, invitee

LEMMA InviterFrame == ASSUME InviterTyped, UNCHANGED inviter PROVE InviterTyped'
  BY DEF InviterTyped, inviter

\* Records are saved, and handlers stay where they are.
LEMMA RecordsTyped ==
    ASSUME InviterTyped, recs' \in Seq(ConnRecs), Len(recs') = Len(recs), UNCHANGED <<attached, dids, hand>>
    PROVE  InviterTyped'
  BY DEF InviterTyped

\* One handler goes on.
LEMMA OneHandTyped ==
    ASSUME InviterTyped, NEW t \in Tasks, NEW h \in Hands, hand' = [hand EXCEPT ![t] = h],
           h.rec \in 1..Len(recs'), Len(recs') \in Nat, Len(recs') >= Len(recs),
           h.pc \in {"find", "new", "save", "attach"} => h.msg \in Mail /\ h.msg.kind = "request"
    PROVE  /\ hand' \in [Tasks -> Hands]
           /\ \A u \in Tasks : hand'[u] = IF u = t THEN h ELSE hand[u]
           /\ \A u \in Tasks : hand'[u].rec \in 1..Len(recs')
           /\ \A u \in Tasks : hand'[u].pc \in {"find", "new", "save", "attach"} =>
                 hand'[u].msg \in Mail /\ hand'[u].msg.kind = "request"
<1>1. hand \in [Tasks -> Hands] /\ Len(recs) \in Nat
  BY DEF InviterTyped
<1> HIDE DEF Hands, Mail
<1>2. hand' \in [Tasks -> Hands] /\ \A u \in Tasks : hand'[u] = IF u = t THEN h ELSE hand[u]
  BY <1>1
<1>3. \A u \in Tasks : hand'[u].rec \in 1..Len(recs')
  <2>1. \A u \in Tasks : hand[u].rec \in 1..Len(recs)
    BY DEF InviterTyped
  <2> QED BY <1>1, <1>2, <2>1
<1> QED BY <1>2, <1>3 DEF InviterTyped

\* No handler.
LEMMA IdleTyped == Idle \in Hands /\ Idle.pc = "idle" /\ Idle.rec = 1
  BY DEF Idle, Hands, NoMessage, Given, ConnRecs, Invitation, ConnRecord, States, Requests, NoRequest

\* The initial state.
LEMMA InitTyped == Init => Typed
<1> SUFFICES ASSUME Init PROVE Typed
  OBVIOUS
<1>1. InviterTyped
  <2>1. Invitation \in ConnRecs
    BY DEF ConnRecs, Invitation, ConnRecord, States, Requests, NoRequest
  <2>2. recs \in Seq(ConnRecs) /\ Len(recs) = 1
    BY <2>1 DEF Init
  <2>3. attached \in Seq(Seq(Mail)) /\ Len(attached) = 1
    BY DEF Init
  <2>4. hand = [t \in Tasks |-> Idle] /\ dids = 0
    BY DEF Init
  <2> QED BY <2>2, <2>3, <2>4, IdleTyped DEF InviterTyped
<1>2. InviteeTyped
  <2>1. Invited \in InvRecs /\ NotAsking \in Asking /\ NotTaking \in Taking
        /\ NotAsking.pc = "idle"
    BY DEF Invited, InvRecs, NotAsking, Asking, NotTaking, Taking, NoMessage, Given, States, Requests, NoRequest
  <2> QED BY <2>1 DEF Init, InviteeTyped
<1>3. CommonTyped
  <2>1. setting \in Settings /\ msgs = {} /\ uncached = {} /\ faults = 0
    BY DEF Init
  <2>2. setting.faults \in Nat
    BY <2>1 DEF SettingOK
  <2>3. faults \in 0..setting.faults
    BY <2>1, <2>2
  <2>4. uncached \subseteq Invitees /\ msgs \subseteq Mail
    BY <2>1
  <2> QED BY <2>1, <2>3, <2>4 DEF CommonTyped
<1> QED BY <1>1, <1>2, <1>3 DEF Typed

-----------------------------------------------------------------------------
\* Types: the inviter's handlers.

\* A handler ends.
LEMMA EndTyped ==
    ASSUME InviterTyped, NEW t \in Tasks, hand' = [hand EXCEPT ![t] = Idle], UNCHANGED attached,
           recs' \in Seq(ConnRecs), Len(recs') = Len(recs), dids' \in Nat
    PROVE  InviterTyped'
<1>1. Len(recs) \in Nat /\ Len(recs) # 0
  BY DEF InviterTyped
<1>2. /\ hand' \in [Tasks -> Hands]
      /\ \A u \in Tasks : hand'[u].rec \in 1..Len(recs')
      /\ \A u \in Tasks : hand'[u].pc \in {"find", "new", "save", "attach"} =>
            hand'[u].msg \in Mail /\ hand'[u].msg.kind = "request"
  <2>1. Idle.rec \in 1..Len(recs') /\ Len(recs') \in Nat /\ Len(recs') >= Len(recs)
    BY <1>1, IdleTyped
  <2>2. Idle.pc \in {"find", "new", "save", "attach"} => Idle.msg \in Mail /\ Idle.msg.kind = "request"
    BY IdleTyped
  <2> QED BY <2>1, <2>2, IdleTyped, OneHandTyped
<1> QED BY <1>2 DEF InviterTyped

\* One handler goes on, and records stay or advance.
LEMMA GoesOnTyped ==
    ASSUME InviterTyped, NEW t \in Tasks, NEW h \in Hands, hand' = [hand EXCEPT ![t] = h],
           h.rec \in 1..Len(recs), recs' \in Seq(ConnRecs), Len(recs') = Len(recs),
           UNCHANGED <<attached, dids>>,
           h.pc \in {"find", "new", "save", "attach"} => h.msg \in Mail /\ h.msg.kind = "request"
    PROVE  InviterTyped'
<1>1. Len(recs') \in Nat /\ Len(recs') >= Len(recs) /\ h.rec \in 1..Len(recs')
  BY DEF InviterTyped
<1>2. /\ hand' \in [Tasks -> Hands]
      /\ \A u \in Tasks : hand'[u].rec \in 1..Len(recs')
      /\ \A u \in Tasks : hand'[u].pc \in {"find", "new", "save", "attach"} =>
            hand'[u].msg \in Mail /\ hand'[u].msg.kind = "request"
  BY <1>1, OneHandTyped
<1> QED BY <1>2 DEF InviterTyped

\* A handler that is about to look for the invitation.
LEMMA FindTyped ==
    ASSUME NEW m \in Mail, NEW h, h = [Idle EXCEPT !.pc = "find", !.msg = m]
    PROVE  h \in Hands /\ h.pc = "find" /\ h.msg = m /\ h.rec = 1 /\ h.copy = Invitation
<1>1. PICK g \in Hands : g = Idle /\ g.rec = 1 /\ g.copy = Invitation
  BY IdleTyped DEF Idle
<1>2. h = [g EXCEPT !.pc = "find", !.msg = m]
  BY <1>1
<1> QED BY <1>1, <1>2 DEF Hands, Given

LEMMA ReceiveRequestTyped == ASSUME Typed, NEW t \in Tasks, NEW m, ReceiveRequest(t, m) PROVE Typed'
<1>1. CommonTyped' /\ m \in Mail /\ m.kind = "request"
  <2>1. uncached' \subseteq uncached \cup {m.who}
    BY DEF ReceiveRequest
  <2> QED BY <2>1, DeliveredTyped DEF Typed, ReceiveRequest
<1>2. InviteeTyped'
  BY InviteeFrame DEF Typed, ReceiveRequest
<1>3. recs' \in Seq(ConnRecs) /\ Len(recs') = Len(recs)
  <2>1. recs' = recs \/ recs' = Promoted(m.who, 0)
    BY DEF ReceiveRequest
  <2>2. recs \in Seq(ConnRecs)
    BY DEF Typed, InviterTyped
  <2>3. Promoted(m.who, 0) \in Seq(ConnRecs) /\ Len(Promoted(m.who, 0)) = Len(recs)
    BY PromotedFacts DEF Typed
  <2> QED BY <2>1, <2>2, <2>3
<1>4. CASE UNCHANGED hand
  BY <1>1, <1>2, <1>3, <1>4, RecordsTyped DEF Typed, ReceiveRequest
<1>5. CASE hand' # hand
  <2>1. PICK h : h = [Idle EXCEPT !.pc = "find", !.msg = m]
    OBVIOUS
  <2>2. hand' = [hand EXCEPT ![t] = h] /\ UNCHANGED <<attached, dids>>
    BY <1>5, <2>1 DEF ReceiveRequest
  <2>3. h \in Hands /\ h.pc = "find" /\ h.msg = m /\ h.rec = 1
    BY <1>1, <2>1, FindTyped
  <2>4. h.rec \in 1..Len(recs)
    BY <2>3 DEF Typed, InviterTyped
  <2>5. InviterTyped'
    BY <1>1, <1>3, <2>2, <2>3, <2>4, GoesOnTyped DEF Typed
  <2> QED BY <1>1, <1>2, <2>5 DEF Typed
<1> QED BY <1>4, <1>5

\* What FindInvitation does to a handler.
Found(t, r) == [pc |-> FirstStep(r), msg |-> hand[t].msg, rec |-> r, copy |-> recs[r], resaves |-> didx]

LEMMA FoundTyped ==
    ASSUME Typed, NEW t \in Tasks, hand[t].pc = "find", NEW r \in Open, NEW h, h = Found(t, r)
    PROVE  /\ h \in Hands /\ h.pc = FirstStep(r) /\ h.pc \in {"new", "save"} /\ h.rec = r
           /\ h.msg = hand[t].msg /\ h.msg \in Mail /\ h.msg.kind = "request"
           /\ h.copy = recs[r] /\ r \in 1..Len(recs) /\ r \in DOMAIN recs
<1>1. hand[t].msg \in Mail /\ hand[t].msg.kind = "request"
  BY DEF Typed, InviterTyped
<1>2. r \in 1..Len(recs) /\ r \in Nat /\ recs[r] \in ConnRecs /\ r \in DOMAIN recs
  BY DEF Open, Typed, InviterTyped
<1>3. FirstStep(r) \in {"new", "save"}
  BY DEF FirstStep
<1> QED BY <1>1, <1>2, <1>3, SettingTyped DEF Typed, Found, Hands, Given

LEMMA FindInvitationTyped == ASSUME Typed, NEW t \in Tasks, FindInvitation(t) PROVE Typed'
<1>1. CommonTyped' /\ InviteeTyped'
  BY InviteeFrame DEF Typed, FindInvitation, CommonTyped
<1>2. recs' \in Seq(ConnRecs) /\ Len(recs') = Len(recs) /\ UNCHANGED <<attached, dids>>
  BY DEF FindInvitation, Typed, InviterTyped
<1>3. CASE hand' = [hand EXCEPT ![t] = Idle]
  <2>1. dids' \in Nat
    BY <1>2 DEF Typed, InviterTyped
  <2>2. InviterTyped'
    BY <1>2, <1>3, <2>1, EndTyped DEF Typed
  <2> QED BY <1>1, <2>2 DEF Typed
<1>4. CASE \E r \in Open : hand' = [hand EXCEPT ![t] = Found(t, r)]
  <2>1. PICK r \in Open : hand' = [hand EXCEPT ![t] = Found(t, r)]
    BY <1>4
  <2>2. PICK h : h = Found(t, r)
    OBVIOUS
  <2>3. h \in Hands /\ h.rec \in 1..Len(recs) /\ h.msg \in Mail /\ h.msg.kind = "request"
    BY <2>2, FoundTyped DEF FindInvitation
  <2>4. InviterTyped'
    BY <1>2, <2>1, <2>2, <2>3, GoesOnTyped DEF Typed
  <2> QED BY <1>1, <2>4 DEF Typed
<1> QED BY <1>3, <1>4 DEF FindInvitation, Found

LEMMA NewRecordTyped == ASSUME Typed, NEW t \in Tasks, NewRecord(t) PROVE Typed'
<1>1. InviteeTyped'
  BY InviteeFrame DEF Typed, NewRecord
<1>2. CommonTyped'
  BY DEF Typed, NewRecord, CommonTyped
<1> DEFINE new == ConnRecord(IF didx THEN "request" ELSE "invitation", dids + 1)
<1>3. new \in ConnRecs
  BY DEF ConnRecord, ConnRecs, States, Typed, InviterTyped, Requests
<1> HIDE DEF new
<1>4. recs \in Seq(ConnRecs) /\ attached \in Seq(Seq(Mail)) /\ Len(recs) \in Nat /\ dids \in Nat
      /\ Len(attached) = Len(recs)
  BY DEF Typed, InviterTyped
<1>5. recs' = Append(recs, new) /\ attached' = Append(attached, <<>>) /\ dids' = dids + 1
  BY DEF NewRecord, new
<1>6. recs' \in Seq(ConnRecs) /\ Len(recs') = Len(recs) + 1
  BY <1>3, <1>4, <1>5 DEF ConnRecs
<1>7. attached' \in Seq(Seq(Mail)) /\ Len(attached') = Len(recs) + 1
  <2>1. <<>> \in Seq(Mail)
    OBVIOUS
  <2> HIDE DEF Mail
  <2> QED BY <1>4, <1>5, <2>1
<1>8. PICK g \in Hands : g = hand[t]
  BY DEF Typed, InviterTyped
<1> DEFINE h == [g EXCEPT !.pc = "save", !.rec = Len(recs) + 1, !.copy = new]
<1>9. hand' = [hand EXCEPT ![t] = h]
  BY <1>8 DEF NewRecord, new, Typed, InviterTyped
<1>10. h \in Hands /\ h.rec = Len(recs) + 1 /\ h.msg = g.msg /\ h.pc = "save"
  <2>1. \A n \in Nat : LET k == [g EXCEPT !.pc = "save", !.rec = n, !.copy = new]
                      IN  k \in Hands /\ k.rec = n /\ k.msg = g.msg /\ k.pc = "save"
    BY <1>3 DEF Hands
  <2>2. Len(recs) + 1 \in Nat
    BY <1>4
  <2> QED BY <2>1, <2>2
<1>11. g.msg \in Mail /\ g.msg.kind = "request"
  BY <1>8 DEF Typed, InviterTyped, NewRecord
<1> HIDE DEF h
<1>12. /\ hand' \in [Tasks -> Hands]
       /\ \A u \in Tasks : hand'[u].rec \in 1..Len(recs')
       /\ \A u \in Tasks : hand'[u].pc \in {"find", "new", "save", "attach"} =>
             hand'[u].msg \in Mail /\ hand'[u].msg.kind = "request"
  <2>1. h.rec \in 1..Len(recs') /\ Len(recs') \in Nat /\ Len(recs') >= Len(recs)
    BY <1>4, <1>6, <1>10
  <2>2. h.pc \in {"find", "new", "save", "attach"} => h.msg \in Mail /\ h.msg.kind = "request"
    BY <1>10, <1>11
  <2> QED BY <1>9, <1>10, <2>1, <2>2, OneHandTyped DEF Typed
<1>13. InviterTyped'
  BY <1>4, <1>5, <1>6, <1>7, <1>12 DEF InviterTyped
<1> QED BY <1>1, <1>2, <1>13 DEF Typed

LEMMA RejectRequestTyped == ASSUME Typed, NEW t \in Tasks, RejectRequest(t) PROVE Typed'
<1>1. InviteeTyped'
  BY InviteeFrame DEF Typed, RejectRequest
<1>2. CommonTyped'
  BY CommonFrame DEF Typed, RejectRequest, CommonTyped
<1>3. InviterTyped'
  BY EndTyped DEF Typed, RejectRequest, InviterTyped
<1> QED BY <1>1, <1>2, <1>3 DEF Typed

\* The copy a handler saves with its request.
CopyToSave(h) ==
    [h.copy EXCEPT !.state = "request", !.their = h.msg.who, !.req = IF didx THEN h.msg.req ELSE @]

\* The copy that gets the request keeps the DID of its record.
LEMMA CopyToSaveFacts ==
    ASSUME Typed, NEW h \in Hands, h.msg \in Mail
    PROVE  /\ CopyToSave(h) \in ConnRecs
           /\ CopyToSave(h).state = "request" /\ CopyToSave(h).my = h.copy.my
           /\ CopyToSave(h).their = h.msg.who
           /\ CopyToSave(h).req = IF didx THEN h.msg.req ELSE h.copy.req
<1>1. h.copy \in ConnRecs /\ h.msg.who \in Invitees /\ h.msg.req \in Requests
  BY DEF Hands, Mail
<1>2. "request" \in States
  BY DEF States
<1> QED BY <1>1, <1>2, SettingTyped DEF CopyToSave, ConnRecs, Typed

LEMMA SaveRequestTyped == ASSUME Typed, NEW t \in Tasks, SaveRequest(t) PROVE Typed'
<1>1. InviteeTyped'
  BY InviteeFrame DEF Typed, SaveRequest
<1>2. CommonTyped'
  BY DEF Typed, SaveRequest, CommonTyped
<1>3. PICK g \in Hands : g = hand[t]
  BY DEF Typed, InviterTyped
<1>4. g.msg \in Mail /\ g.msg.kind = "request" /\ g.rec \in DOMAIN recs
  BY <1>3 DEF Typed, InviterTyped, SaveRequest
<1>5. recs' = [recs EXCEPT ![g.rec] = CopyToSave(g)]
      /\ hand' = [hand EXCEPT ![t] = [g EXCEPT !.pc = "attach", !.copy = CopyToSave(g)]]
  BY <1>3 DEF SaveRequest, CopyToSave, Typed, InviterTyped
<1>6. CopyToSave(g) \in ConnRecs
  BY <1>4, CopyToSaveFacts
<1>7. recs' \in Seq(ConnRecs) /\ Len(recs') = Len(recs)
  BY <1>4, <1>5, <1>6, OneSaved DEF Typed
<1> DEFINE h == [g EXCEPT !.pc = "attach", !.copy = CopyToSave(g)]
<1>8. h \in Hands /\ h.rec = g.rec /\ h.msg = g.msg
  BY <1>6 DEF Hands
<1>9. hand' = [hand EXCEPT ![t] = h]
  BY <1>5
<1> HIDE DEF h
<1>10. Len(recs) \in Nat /\ g.rec \in 1..Len(recs)
  BY <1>4 DEF Typed, InviterTyped
<1>11. /\ hand' \in [Tasks -> Hands]
       /\ \A u \in Tasks : hand'[u].rec \in 1..Len(recs')
       /\ \A u \in Tasks : hand'[u].pc \in {"find", "new", "save", "attach"} =>
             hand'[u].msg \in Mail /\ hand'[u].msg.kind = "request"
  <2>1. h.rec \in 1..Len(recs') /\ Len(recs') \in Nat /\ Len(recs') >= Len(recs)
    BY <1>7, <1>8, <1>10
  <2>2. h.pc \in {"find", "new", "save", "attach"} => h.msg \in Mail /\ h.msg.kind = "request"
    BY <1>4, <1>8
  <2> QED BY <1>8, <1>9, <2>1, <2>2, OneHandTyped DEF Typed
<1>12. InviterTyped'
  BY <1>7, <1>11 DEF InviterTyped, Typed, SaveRequest
<1> QED BY <1>1, <1>2, <1>12 DEF Typed

LEMMA AttachRequestTyped == ASSUME Typed, NEW t \in Tasks, AttachRequest(t) PROVE Typed'
<1>1. InviteeTyped'
  BY InviteeFrame DEF Typed, AttachRequest
<1>2. CommonTyped'
  BY DEF Typed, AttachRequest, CommonTyped
<1>3. PICK g \in Hands : g = hand[t]
  BY DEF Typed, InviterTyped
<1>4. g.msg \in Mail /\ g.rec \in 1..Len(recs) /\ g.rec \in DOMAIN attached /\ Len(recs) \in Nat
  BY <1>3 DEF Typed, InviterTyped, AttachRequest
<1>5. attached' = [attached EXCEPT ![g.rec] = Append(attached[g.rec], g.msg)]
  BY <1>3 DEF AttachRequest, Typed, InviterTyped
<1>6. attached' \in Seq(Seq(Mail)) /\ Len(attached') = Len(recs)
  <2>1. attached \in Seq(Seq(Mail)) /\ Len(attached) = Len(recs)
    BY DEF Typed, InviterTyped
  <2> HIDE DEF Mail
  <2>2. Append(attached[g.rec], g.msg) \in Seq(Mail)
    BY <1>4, <2>1
  <2> QED BY <1>4, <1>5, <2>1, <2>2, ExceptSeq
<1> DEFINE h == IF auto THEN [g EXCEPT !.pc = "respond"] ELSE Idle
<1>7. hand' = [hand EXCEPT ![t] = h]
  BY <1>3 DEF AttachRequest, Typed, InviterTyped
<1>8. h \in Hands /\ h.rec \in {1, g.rec} /\ h.pc \in {"idle", "respond"}
  BY IdleTyped DEF Hands
<1> HIDE DEF h
<1>9. UNCHANGED recs /\ 1 \in 1..Len(recs)
  BY DEF AttachRequest, Typed, InviterTyped
<1>10. /\ hand' \in [Tasks -> Hands]
       /\ \A u \in Tasks : hand'[u].rec \in 1..Len(recs')
       /\ \A u \in Tasks : hand'[u].pc \in {"find", "new", "save", "attach"} =>
             hand'[u].msg \in Mail /\ hand'[u].msg.kind = "request"
  <2>1. h.rec \in 1..Len(recs') /\ Len(recs') \in Nat /\ Len(recs') >= Len(recs)
    BY <1>4, <1>8, <1>9
  <2>2. h.pc \in {"find", "new", "save", "attach"} => h.msg \in Mail /\ h.msg.kind = "request"
    BY <1>8
  <2> QED BY <1>7, <1>8, <2>1, <2>2, OneHandTyped DEF Typed
<1>11. InviterTyped'
  BY <1>6, <1>10 DEF InviterTyped, Typed, AttachRequest
<1> QED BY <1>1, <1>2, <1>11 DEF Typed

LEMMA AcceptRequestTyped ==
    ASSUME Typed, NEW t \in Tasks, NEW r \in DOMAIN recs, AcceptRequest(t, r) PROVE Typed'
<1>1. InviteeTyped'
  BY InviteeFrame DEF Typed, AcceptRequest
<1>2. CommonTyped'
  BY CommonFrame DEF Typed, AcceptRequest, CommonTyped
<1> DEFINE h == [pc |-> "respond", msg |-> NoMessage, rec |-> r, copy |-> recs[r], resaves |-> FALSE]
<1>3. Len(recs) \in Nat /\ r \in 1..Len(recs) /\ r \in Nat /\ recs[r] \in ConnRecs
  BY DEF Typed, InviterTyped
<1>4. h \in Hands /\ h.rec = r /\ h.pc = "respond"
  BY <1>3 DEF Hands, Given
<1>5. hand' = [hand EXCEPT ![t] = h] /\ UNCHANGED <<recs, attached, dids>>
  BY DEF AcceptRequest
<1> HIDE DEF h
<1>6. /\ hand' \in [Tasks -> Hands]
      /\ \A u \in Tasks : hand'[u].rec \in 1..Len(recs')
      /\ \A u \in Tasks : hand'[u].pc \in {"find", "new", "save", "attach"} =>
            hand'[u].msg \in Mail /\ hand'[u].msg.kind = "request"
  <2>1. h.rec \in 1..Len(recs') /\ Len(recs') \in Nat /\ Len(recs') >= Len(recs)
    BY <1>3, <1>4, <1>5
  <2>2. h.pc \in {"find", "new", "save", "attach"} => h.msg \in Mail /\ h.msg.kind = "request"
    BY <1>4
  <2> QED BY <1>4, <1>5, <2>1, <2>2, OneHandTyped DEF Typed
<1>7. InviterTyped'
  BY <1>5, <1>6 DEF InviterTyped, Typed
<1> QED BY <1>1, <1>2, <1>7 DEF Typed

\* The answer to a request: the DID it gives, and the record that is saved.
AnswerMy(h) == IF h.copy.my # 0 THEN h.copy.my ELSE dids + 1
Answer(h) == [h.copy EXCEPT !.state = "response", !.my = AnswerMy(h)]

\* The copy that is answered keeps its invitee, its request and the DID it has.
LEMMA AnswerFacts ==
    ASSUME InviterTyped, NEW h \in Hands
    PROVE  /\ Answer(h) \in ConnRecs /\ AnswerMy(h) \in Nat /\ AnswerMy(h) # 0
           /\ h.copy.my # 0 => AnswerMy(h) = h.copy.my
           /\ Answer(h).state = "response" /\ Answer(h).my = AnswerMy(h)
           /\ Answer(h).their = h.copy.their /\ Answer(h).req = h.copy.req
<1>1. h.copy \in ConnRecs /\ dids \in Nat
  BY DEF Hands, InviterTyped
<1>2. AnswerMy(h) \in Nat /\ AnswerMy(h) # 0 /\ (h.copy.my # 0 => AnswerMy(h) = h.copy.my)
  BY <1>1 DEF AnswerMy, ConnRecs
<1>3. "response" \in States
  BY DEF States
<1> HIDE DEF AnswerMy
<1> QED BY <1>1, <1>2, <1>3 DEF Answer, ConnRecs

\* What create_response does when there is one request.
Responds(t) ==
    \E h \in Hands :
        /\ h = hand[t] /\ h.pc = "respond" /\ h.rec \in DOMAIN recs
        /\ Len(attached[h.rec]) = 1 /\ attached[h.rec][1] \in Mail
        /\ dids' \in Nat /\ dids' = IF AnswerMy(h) > dids THEN AnswerMy(h) ELSE dids
        /\ recs' = [recs EXCEPT ![h.rec] = Answer(h)]
        /\ msgs' = msgs \cup {Message("response", attached[h.rec][1].who, AnswerMy(h), attached[h.rec][1].req)}
        /\ hand' = [hand EXCEPT ![t] =
              IF h.resaves THEN [h EXCEPT !.pc = "resave", !.copy = Answer(h)] ELSE Idle]

\* create_response answers, or ends with nothing done.
LEMMA CreateResponseCases ==
    ASSUME Typed, NEW t \in Tasks, CreateResponse(t)
    PROVE  \/ hand' = [hand EXCEPT ![t] = Idle] /\ UNCHANGED <<recs, dids, msgs>>
           \/ Responds(t)
<1>1. PICK h \in Hands : h = hand[t]
  BY DEF Typed, InviterTyped
<1>2. h.rec \in DOMAIN recs /\ h.pc = "respond" /\ h.rec \in DOMAIN attached
  BY <1>1 DEF CreateResponse, Typed, InviterTyped
<1> SUFFICES ASSUME ~(hand' = [hand EXCEPT ![t] = Idle] /\ UNCHANGED <<recs, dids, msgs>>)
             PROVE  Responds(t)
  OBVIOUS
<1>3. /\ Len(attached[h.rec]) = 1
      /\ dids' = IF AnswerMy(h) > dids THEN AnswerMy(h) ELSE dids
      /\ recs' = [recs EXCEPT ![h.rec] = Answer(h)]
      /\ msgs' = msgs \cup {Message("response", attached[h.rec][1].who, AnswerMy(h), attached[h.rec][1].req)}
      /\ hand' = [hand EXCEPT ![t] =
              IF h.resaves THEN [h EXCEPT !.pc = "resave", !.copy = Answer(h)] ELSE Idle]
  BY <1>1 DEF CreateResponse, Answer, AnswerMy
<1>4. attached[h.rec][1] \in Mail
  <2>1. attached[h.rec] \in Seq(Mail)
    BY <1>2 DEF Typed, InviterTyped
  <2> HIDE DEF Mail
  <2> QED BY <1>3, <2>1
<1>5. dids' \in Nat
  BY <1>3, AnswerFacts DEF Typed, InviterTyped
<1> QED BY <1>1, <1>2, <1>3, <1>4, <1>5 DEF Responds

\* The handler that saves its copy again, or ends.
LEMMA ResavingTyped ==
    ASSUME InviterTyped, NEW h \in Hands, NEW c \in ConnRecs
    PROVE  LET k == IF h.resaves THEN [h EXCEPT !.pc = "resave", !.copy = c] ELSE Idle
           IN  /\ k \in Hands /\ k.rec \in {1, h.rec} /\ k.pc \in {"idle", "resave"}
               /\ k.pc = "resave" => k.rec = h.rec /\ k.copy = c
               /\ k.pc # "resave" => k = Idle
<1>1. CASE h.resaves
  <2>1. [h EXCEPT !.pc = "resave", !.copy = c] \in Hands
    BY DEF Hands
  <2>2. [h EXCEPT !.pc = "resave", !.copy = c].pc = "resave" /\ [h EXCEPT !.pc = "resave", !.copy = c].rec = h.rec
        /\ [h EXCEPT !.pc = "resave", !.copy = c].copy = c
    BY DEF Hands
  <2> QED BY <1>1, <2>1, <2>2
<1>2. CASE ~h.resaves
  BY <1>2, IdleTyped
<1> QED BY <1>1, <1>2

LEMMA CreateResponseTyped == ASSUME Typed, NEW t \in Tasks, CreateResponse(t) PROVE Typed'
<1>1. InviteeTyped'
  BY InviteeFrame DEF Typed, CreateResponse
<1>2. UNCHANGED attached /\ recs \in Seq(ConnRecs) /\ dids \in Nat /\ Len(recs) \in Nat
      /\ InviterTyped /\ CommonTyped
      /\ UNCHANGED <<setting, uncached, faults>> /\ msgs \subseteq Mail
  BY DEF Typed, InviterTyped, CommonTyped, CreateResponse
<1>3. CASE hand' = [hand EXCEPT ![t] = Idle] /\ UNCHANGED <<recs, dids, msgs>>
  <2>1. CommonTyped'
    BY <1>2, <1>3 DEF CommonTyped
  <2>2. InviterTyped'
    BY <1>2, <1>3, EndTyped
  <2> QED BY <1>1, <2>1, <2>2 DEF Typed
<1>4. CASE Responds(t)
  <2>1. PICK h \in Hands :
          /\ h = hand[t] /\ h.pc = "respond" /\ h.rec \in DOMAIN recs
          /\ Len(attached[h.rec]) = 1 /\ attached[h.rec][1] \in Mail
          /\ dids' \in Nat
          /\ recs' = [recs EXCEPT ![h.rec] = Answer(h)]
          /\ msgs' = msgs \cup {Message("response", attached[h.rec][1].who, AnswerMy(h), attached[h.rec][1].req)}
          /\ hand' = [hand EXCEPT ![t] =
                IF h.resaves THEN [h EXCEPT !.pc = "resave", !.copy = Answer(h)] ELSE Idle]
    BY <1>4 DEF Responds
  <2>2. Answer(h) \in ConnRecs /\ AnswerMy(h) \in Nat
    BY <1>2, AnswerFacts
  <2>3. Message("response", attached[h.rec][1].who, AnswerMy(h), attached[h.rec][1].req) \in Mail
    <3> DEFINE q == attached[h.rec][1]
    <3>1. q.who \in Invitees /\ q.req \in Requests /\ "response" \in Kinds
      BY <2>1 DEF Mail, Kinds
    <3> HIDE DEF q
    <3>2. Message("response", q.who, AnswerMy(h), q.req) \in Mail
      BY <2>2, <3>1, MessageTyped
    <3> QED BY <3>2 DEF q
  <2>4. CommonTyped'
    BY <1>2, <2>1, <2>3, CommonFrame DEF CommonTyped
  <2>5. recs' \in Seq(ConnRecs) /\ Len(recs') = Len(recs)
    BY <1>2, <2>1, <2>2, OneSaved
  <2> DEFINE k == IF h.resaves THEN [h EXCEPT !.pc = "resave", !.copy = Answer(h)] ELSE Idle
  <2>6. k \in Hands /\ k.rec \in {1, h.rec} /\ k.pc \in {"idle", "resave"}
    BY <1>2, <2>2, ResavingTyped
  <2>7. hand' = [hand EXCEPT ![t] = k]
    BY <2>1
  <2> HIDE DEF k
  <2>8. k.rec \in 1..Len(recs') /\ Len(recs') \in Nat /\ Len(recs') >= Len(recs)
    BY <1>2, <2>1, <2>5, <2>6 DEF InviterTyped
  <2>9. k.pc \in {"find", "new", "save", "attach"} => k.msg \in Mail /\ k.msg.kind = "request"
    BY <2>6
  <2>10. /\ hand' \in [Tasks -> Hands]
         /\ \A u \in Tasks : hand'[u].rec \in 1..Len(recs')
         /\ \A u \in Tasks : hand'[u].pc \in {"find", "new", "save", "attach"} =>
               hand'[u].msg \in Mail /\ hand'[u].msg.kind = "request"
    BY <1>2, <2>6, <2>7, <2>8, <2>9, OneHandTyped
  <2>11. InviterTyped'
    BY <1>2, <2>1, <2>5, <2>10 DEF InviterTyped
  <2> QED BY <1>1, <2>4, <2>11 DEF Typed
<1> QED BY <1>3, <1>4, CreateResponseCases

LEMMA ResaveResponseTyped == ASSUME Typed, NEW t \in Tasks, ResaveResponse(t) PROVE Typed'
<1>1. InviteeTyped'
  BY InviteeFrame DEF Typed, ResaveResponse
<1>2. CommonTyped'
  BY DEF Typed, ResaveResponse, CommonTyped
<1>3. PICK h \in Hands : h = hand[t]
  BY DEF Typed, InviterTyped
<1>4. h.rec \in DOMAIN recs /\ h.copy \in ConnRecs /\ InviterTyped
  BY <1>3 DEF Typed, InviterTyped, Hands
<1>5. recs' = [recs EXCEPT ![h.rec] = h.copy]
  BY <1>3 DEF ResaveResponse
<1>6. recs' \in Seq(ConnRecs) /\ Len(recs') = Len(recs)
  BY <1>4, <1>5, OneSaved
<1>7. InviterTyped'
  BY <1>4, <1>6, EndTyped DEF ResaveResponse, InviterTyped
<1> QED BY <1>1, <1>2, <1>7 DEF Typed

-----------------------------------------------------------------------------
\* Types: completes, pings, and the environment.

\* The record whose request has the number of a message is completed too.
Asked(req) == {r \in DOMAIN recs : recs[r].req = req}
CompletedBy(m) ==
    [r \in DOMAIN recs |->
        IF Asked(m.req) = {r} THEN [Promoted(m.who, m.did)[r] EXCEPT !.state = "completed"]
        ELSE Promoted(m.who, m.did)[r]]

\* A complete completes what its message promotes, and the one record of its request.
LEMMA CompletedByAdvances ==
    ASSUME InviterTyped, NEW m, recs' = CompletedBy(m)
    PROVE  /\ recs' \in Seq(ConnRecs) /\ Len(recs') = Len(recs)
           /\ m.req # NoRequest => Advanced
           /\ \A r \in DOMAIN recs : recs'[r].state = "completed" =>
                 \/ recs[r].state = "completed"
                 \/ <<m.who, m.did>> \notin cached /\ r \in Matching(m.who, m.did)
                 \/ Asked(m.req) = {r}
<1> DEFINE P == Promoted(m.who, m.did)
           C == CompletedBy(m)
<1>1. /\ P \in Seq(ConnRecs) /\ Len(P) = Len(recs) /\ DOMAIN P = DOMAIN recs
      /\ \A r \in DOMAIN recs :
            \/ P[r] = recs[r]
            \/ /\ <<m.who, m.did>> \notin cached /\ r \in Matching(m.who, m.did)
               /\ recs[r].state = "response"
               /\ P[r] = [recs[r] EXCEPT !.state = "completed"]
  BY PromotedFacts
<1>2. Len(recs) \in Nat /\ DOMAIN recs = 1..Len(recs) /\ \A r \in DOMAIN recs : recs[r] \in ConnRecs
  BY DEF InviterTyped
<1>3. DOMAIN C = DOMAIN recs
      /\ \A r \in DOMAIN recs : C[r] = IF Asked(m.req) = {r} THEN [P[r] EXCEPT !.state = "completed"] ELSE P[r]
  BY DEF CompletedBy
<1>4. C = [r \in DOMAIN recs |-> C[r]]
  BY DEF CompletedBy
<1> HIDE DEF P, C
<1>5. ASSUME NEW r \in DOMAIN recs
      PROVE  /\ C[r] \in ConnRecs
             /\ C[r].my = recs[r].my /\ C[r].their = recs[r].their /\ C[r].req = recs[r].req
             /\ \/ C[r].state = recs[r].state
                \/ /\ C[r].state = "completed"
                   /\ \/ /\ recs[r].state = "response"
                         /\ <<m.who, m.did>> \notin cached /\ r \in Matching(m.who, m.did)
                      \/ Asked(m.req) = {r}
  <2> PICK c \in ConnRecs : c = recs[r]
    BY <1>2
  <2> DEFINE d == [c EXCEPT !.state = "completed"]
  <2>1. d \in ConnRecs /\ d.my = c.my /\ d.their = c.their /\ d.req = c.req /\ d.state = "completed"
        /\ [d EXCEPT !.state = "completed"] = d
    BY DEF ConnRecs, States
  <2>2. P[r] = c \/ (/\ P[r] = d /\ c.state = "response"
                     /\ <<m.who, m.did>> \notin cached /\ r \in Matching(m.who, m.did))
    BY <1>1
  <2>3. C[r] = IF Asked(m.req) = {r} THEN [P[r] EXCEPT !.state = "completed"] ELSE P[r]
    BY <1>3
  <2>4. CASE Asked(m.req) = {r}
    <3>1. C[r] = d
      BY <2>1, <2>2, <2>3, <2>4
    <3> HIDE DEF d
    <3> QED BY <2>1, <2>4, <3>1
  <2>5. CASE Asked(m.req) # {r}
    <3>1. C[r] = P[r]
      BY <2>3, <2>5
    <3> HIDE DEF d
    <3> QED BY <2>1, <2>2, <3>1
  <2> QED BY <2>4, <2>5
<1>6. C \in [1..Len(recs) -> ConnRecs]
  BY <1>2, <1>4, <1>5
<1>7. C \in Seq(ConnRecs) /\ Len(C) = Len(recs)
  BY <1>2, <1>6, IsSequence
<1>8. recs' = C
  BY DEF C
<1>9. m.req # NoRequest => \A r \in DOMAIN recs : Asked(m.req) = {r} => recs[r].req # NoRequest
  BY DEF Asked
<1>10. m.req # NoRequest => Advanced
  BY <1>3, <1>5, <1>7, <1>8, <1>9 DEF Advanced
<1> QED BY <1>5, <1>7, <1>8, <1>10

LEMMA ReceiveCompleteTyped == ASSUME Typed, NEW m, ReceiveComplete(m) PROVE Typed'
<1>1. CommonTyped'
  BY DeliveredTyped DEF Typed, ReceiveComplete
<1>2. InviteeTyped'
  BY InviteeFrame DEF Typed, ReceiveComplete
<1>3. recs' = recs \/ recs' = CompletedBy(m)
  BY DEF ReceiveComplete, CompletedBy, Asked
<1>4. recs' \in Seq(ConnRecs) /\ Len(recs') = Len(recs)
  <2>1. CASE recs' = recs
    BY <2>1 DEF Typed, InviterTyped
  <2>2. CASE recs' = CompletedBy(m)
    BY <2>2, CompletedByAdvances DEF Typed
  <2> QED BY <1>3, <2>1, <2>2
<1>5. InviterTyped'
  BY <1>4, RecordsTyped DEF Typed, ReceiveComplete
<1> QED BY <1>1, <1>2, <1>5 DEF Typed

LEMMA ReceivePingTyped == ASSUME Typed, NEW m, ReceivePing(m) PROVE Typed'
<1>1. m \in Mail /\ msgs \subseteq Mail
  BY DEF Typed, CommonTyped, ReceivePing
<1>2. Message("ping_response", m.who, m.did, NoRequest) \in Mail
  BY <1>1, MessageTyped DEF Mail, Kinds, Requests
<1>3. msgs' \subseteq Mail
  <2>1. msgs' \subseteq msgs \cup {Message("ping_response", m.who, m.did, NoRequest)}
    BY DEF ReceivePing
  <2> HIDE DEF Mail
  <2> QED BY <1>1, <1>2, <2>1
<1>4. CommonTyped'
  BY <1>3, CommonFrame DEF Typed, CommonTyped, ReceivePing
<1>5. InviteeTyped'
  BY InviteeFrame DEF Typed, ReceivePing
<1>6. recs' = recs \/ recs' = Promoted(m.who, m.did)
  BY DEF ReceivePing
<1>7. recs' \in Seq(ConnRecs) /\ Len(recs') = Len(recs)
  <2>1. CASE recs' = recs
    BY <2>1 DEF Typed, InviterTyped
  <2>2. CASE recs' = Promoted(m.who, m.did)
    BY <2>2, PromotedFacts DEF Typed
  <2> QED BY <1>6, <2>1, <2>2
<1>8. InviterTyped'
  BY <1>7, RecordsTyped DEF Typed, ReceivePing
<1> QED BY <1>4, <1>5, <1>8 DEF Typed

LEMMA AcceptInvitationTyped == ASSUME Typed, NEW i \in Invitees, AcceptInvitation(i) PROVE Typed'
<1>1. InviterTyped'
  BY InviterFrame DEF Typed, AcceptInvitation
<1>2. CommonTyped'
  BY CommonFrame DEF Typed, AcceptInvitation, CommonTyped
<1> DEFINE a == [pc |-> "save", copy |-> inv[i]]
<1>3. a \in Asking /\ ask' = [ask EXCEPT ![i] = a] /\ UNCHANGED <<inv, asks, take, accepted>>
  BY DEF Asking, AcceptInvitation, Typed, InviteeTyped
<1>4. asks[i] < MaxAsks
  BY DEF AcceptInvitation
<1> HIDE DEF a
<1>5. ask' \in [Invitees -> Asking] /\ \A j \in Invitees : j # i => ask'[j] = ask[j]
  BY <1>3 DEF Typed, InviteeTyped
<1>6. InviteeTyped'
  BY <1>3, <1>4, <1>5 DEF Typed, InviteeTyped
<1> QED BY <1>1, <1>2, <1>6 DEF Typed

\* The copy an invitee saves with its request.
Requested(i) == [ask[i].copy EXCEPT !.state = "request", !.req = <<i, asks[i] + 1>>]

\* It keeps the DID of its copy and has the invitee's next request.
LEMMA RequestedFacts ==
    ASSUME InviteeTyped, NEW i \in Invitees, ask[i].pc = "save"
    PROVE  /\ Requested(i) \in InvRecs /\ Requested(i).state = "request"
           /\ Requested(i).their = ask[i].copy.their /\ Requested(i).req = <<i, asks[i] + 1>>
           /\ <<i, asks[i] + 1>> \in Requests /\ <<i, asks[i] + 1>> # NoRequest
           /\ asks[i] + 1 \in 0..MaxAsks
<1>1. asks[i] + 1 \in 1..MaxAsks /\ ask[i].copy \in InvRecs
  BY DEF InviteeTyped, Asking
<1>2. <<i, asks[i] + 1>> \in Requests /\ <<i, asks[i] + 1>> # NoRequest
  BY <1>1 DEF Requests, NoRequest
<1>4. PICK c \in InvRecs, q \in Requests : c = ask[i].copy /\ q = <<i, asks[i] + 1>>
  BY <1>1, <1>2
<1>5. Requested(i) = [c EXCEPT !.state = "request", !.req = q]
  BY <1>4 DEF Requested
<1>6. Requested(i) \in InvRecs /\ Requested(i).state = "request"
      /\ Requested(i).their = c.their /\ Requested(i).req = q
  BY <1>5 DEF InvRecs, States
<1> QED BY <1>1, <1>2, <1>4, <1>6

LEMMA CreateRequestTyped == ASSUME Typed, NEW i \in Invitees, CreateRequest(i) PROVE Typed'
<1>1. InviterTyped'
  BY InviterFrame DEF Typed, CreateRequest
<1>2. ask[i].pc = "save" /\ InviteeTyped /\ CommonTyped
  BY DEF CreateRequest, Typed
<1> DEFINE c == Requested(i)
<1>3. c \in InvRecs /\ c.req \in Requests /\ asks[i] + 1 \in 0..MaxAsks
  BY <1>2, RequestedFacts
<1>4. /\ inv' = [inv EXCEPT ![i] = c]
      /\ msgs' = msgs \cup {Message("request", i, 0, c.req)}
      /\ ask' = [ask EXCEPT ![i] =
            IF didx /\ auto /\ asks[i] = 0 THEN [pc |-> "resave", copy |-> c] ELSE NotAsking]
      /\ asks' = [asks EXCEPT ![i] = @ + 1]
      /\ UNCHANGED <<setting, take, accepted, uncached, faults>>
  BY DEF CreateRequest, Requested
<1> HIDE DEF c
<1>5. Message("request", i, 0, c.req) \in Mail
  BY <1>3, MessageTyped DEF Kinds
<1>6. CommonTyped'
  BY <1>2, <1>4, <1>5, CommonFrame DEF CommonTyped
<1>7. [pc |-> "resave", copy |-> c] \in Asking /\ NotAsking \in Asking
  BY <1>3 DEF Asking, NotAsking, Invited, InvRecs, States, Requests
<1>8. inv' \in [Invitees -> InvRecs] /\ asks' \in [Invitees -> 0..MaxAsks]
  BY <1>2, <1>3, <1>4 DEF InviteeTyped
<1>9. ask' \in [Invitees -> Asking] /\ ask'[i].pc # "save"
      /\ \A j \in Invitees : j # i => ask'[j] = ask[j] /\ asks'[j] = asks[j]
  BY <1>2, <1>4, <1>7 DEF InviteeTyped, NotAsking
<1>10. InviteeTyped'
  BY <1>2, <1>4, <1>8, <1>9 DEF InviteeTyped
<1> QED BY <1>1, <1>6, <1>10 DEF Typed

\* No handler of an invitee.
LEMMA NotAskingTyped ==
    /\ NotAsking \in Asking /\ NotAsking.pc = "idle" /\ NotAsking.copy.their = 0
    /\ NotTaking \in Taking /\ NotTaking.pc = "idle" /\ NotTaking.copy.their = 0
  BY DEF Invited, InvRecs, NotAsking, Asking, NotTaking, Taking, NoMessage, Given, States, Requests, NoRequest

LEMMA ResaveRequestTyped == ASSUME Typed, NEW i \in Invitees, ResaveRequest(i) PROVE Typed'
<1>1. InviterTyped'
  BY InviterFrame DEF Typed, ResaveRequest
<1>2. CommonTyped'
  BY DEF Typed, ResaveRequest, CommonTyped
<1>3. ask[i].copy \in InvRecs
  BY DEF Typed, InviteeTyped, Asking
<1>4. InviteeTyped'
  BY <1>3, NotAskingTyped DEF Typed, InviteeTyped, ResaveRequest
<1> QED BY <1>1, <1>2, <1>4 DEF Typed

\* A message in return completes the record at most.
LEMMA AnsweredFacts ==
    ASSUME InviteeTyped, NEW i \in Invitees, NEW did
    PROVE  /\ Answered(i, did) \in InvRecs
           /\ Answered(i, did).their = inv[i].their /\ Answered(i, did).req = inv[i].req
           /\ Answered(i, did).state \in {inv[i].state, "completed"}
<1> PICK c \in InvRecs : c = inv[i]
  BY DEF InviteeTyped
<1> QED BY DEF Answered, InvRecs, States

LEMMA ReceiveResponseTyped == ASSUME Typed, NEW m, ReceiveResponse(m) PROVE Typed'
<1>1. InviterTyped'
  BY InviterFrame DEF Typed, ReceiveResponse
<1>2. CommonTyped' /\ m \in Mail
  BY DeliveredTyped DEF Typed, ReceiveResponse
<1> DEFINE c == Answered(m.who, m.did)
<1>3. m.who \in Invitees /\ c \in InvRecs
  BY <1>2, AnsweredFacts DEF Typed, Mail
<1>4. /\ inv' = [inv EXCEPT ![m.who] = c]
      /\ \/ take' = take
         \/ take' = [take EXCEPT ![m.who] = [pc |-> "save", copy |-> c, msg |-> m]]
      /\ UNCHANGED <<asks, ask, accepted>>
  BY DEF ReceiveResponse
<1> HIDE DEF c
<1>5. [pc |-> "save", copy |-> c, msg |-> m] \in Taking
  BY <1>2, <1>3 DEF Taking, Given
<1>6. InviteeTyped'
  BY <1>3, <1>4, <1>5 DEF Typed, InviteeTyped
<1> QED BY <1>1, <1>2, <1>6 DEF Typed

LEMMA SaveResponseTyped ==
    ASSUME Typed, NEW i \in Invitees, SaveResponse(i) PROVE Typed'
<1>1. InviterTyped'
  BY InviterFrame DEF Typed, SaveResponse
<1>2. PICK g \in Taking : g = take[i]
  BY DEF Typed, InviteeTyped
<1> DEFINE c == [g.copy EXCEPT !.state = "response", !.their = g.msg.did]
           k == [g EXCEPT !.pc = "complete", !.copy = c]
<1>3. g.msg.did \in Nat /\ g.msg.req \in Requests
  <2>1. g.msg \in Mail \/ g.msg = NoMessage
    BY DEF Taking, Given
  <2> QED BY <2>1 DEF Mail, NoMessage, Message, Requests
<1>4. c \in InvRecs
  BY <1>3 DEF Taking, InvRecs, States
<1>5. /\ inv' = [inv EXCEPT ![i] = c]
      /\ accepted' = [accepted EXCEPT ![i] = @ \cup {g.msg.did}]
      /\ \/ /\ msgs' = msgs \cup {Message("complete", i, g.msg.did, g.msg.req)}
            /\ take' = [take EXCEPT ![i] = k]
         \/ take' = [take EXCEPT ![i] = NotTaking] /\ UNCHANGED msgs
      /\ UNCHANGED <<setting, asks, ask, uncached, faults>>
  BY <1>2 DEF SaveResponse, Typed, InviteeTyped
<1>6. k \in Taking
  BY <1>4 DEF Taking
<1> HIDE DEF c, k
<1>7. Message("complete", i, g.msg.did, g.msg.req) \in Mail
  BY <1>3, MessageTyped DEF Kinds
<1>8. CommonTyped'
  BY <1>5, <1>7, CommonFrame DEF Typed, CommonTyped
<1>9. InviteeTyped'
  BY <1>3, <1>4, <1>5, <1>6, NotAskingTyped DEF Typed, InviteeTyped
<1> QED BY <1>1, <1>8, <1>9 DEF Typed

LEMMA SaveCompleteTyped == ASSUME Typed, NEW i \in Invitees, SaveComplete(i) PROVE Typed'
<1>1. InviterTyped'
  BY InviterFrame DEF Typed, SaveComplete
<1>2. CommonTyped'
  BY DEF Typed, SaveComplete, CommonTyped
<1>3. PICK c \in InvRecs : c = take[i].copy
  BY DEF Typed, InviteeTyped, Taking
<1>4. [c EXCEPT !.state = "completed"] \in InvRecs
  BY DEF InvRecs, States
<1>5. InviteeTyped'
  BY <1>3, <1>4, NotAskingTyped DEF Typed, InviteeTyped, SaveComplete
<1> QED BY <1>1, <1>2, <1>5 DEF Typed

LEMMA SendPingTyped == ASSUME Typed, NEW i \in Invitees, SendPing(i) PROVE Typed'
<1>1. InviterTyped' /\ InviteeTyped'
  BY InviterFrame, InviteeFrame DEF Typed, SendPing
<1>2. inv[i].their \in Nat /\ NoRequest \in Requests /\ "ping" \in Kinds
  BY DEF Typed, InviteeTyped, InvRecs, Requests, Kinds
<1>3. Message("ping", i, inv[i].their, NoRequest) \in Mail
  BY <1>2, MessageTyped
<1>4. CommonTyped'
  BY <1>3, CommonFrame DEF Typed, CommonTyped, SendPing
<1> QED BY <1>1, <1>4 DEF Typed

LEMMA ReceivePingResponseTyped == ASSUME Typed, NEW m, ReceivePingResponse(m) PROVE Typed'
<1>1. InviterTyped'
  BY InviterFrame DEF Typed, ReceivePingResponse
<1>2. CommonTyped'
  BY CommonFrame DEF Typed, CommonTyped, ReceivePingResponse
<1>3. m.who \in Invitees
  BY DEF Typed, CommonTyped, Mail, ReceivePingResponse
<1>4. InviteeTyped'
  BY <1>3, AnsweredFacts DEF Typed, InviteeTyped, ReceivePingResponse
<1> QED BY <1>1, <1>2, <1>4 DEF Typed

LEMMA LoseTyped == ASSUME Typed, NEW m, Lose(m) PROVE Typed'
<1>1. InviterTyped' /\ InviteeTyped'
  BY InviterFrame, InviteeFrame DEF Typed, Lose
<1>2. CommonTyped'
  BY CommonFrame DEF Typed, CommonTyped, Lose
<1> QED BY <1>1, <1>2 DEF Typed

LEMMA ExpireTyped == ASSUME Typed, NEW pair, Expire(pair) PROVE Typed'
<1>1. InviterTyped' /\ InviteeTyped'
  BY InviterFrame, InviteeFrame DEF Typed, Expire
<1>2. CommonTyped'
  BY CommonFrame DEF Typed, CommonTyped, Expire, Dropped
<1> QED BY <1>1, <1>2 DEF Typed

LEMMA RestartInviterTyped == ASSUME Typed, RestartInviter PROVE Typed'
<1>1. InviteeTyped'
  BY InviteeFrame DEF Typed, RestartInviter
<1>2. CommonTyped'
  BY CommonFrame DEF Typed, CommonTyped, RestartInviter, Dropped
<1>3. InviterTyped'
  BY IdleTyped DEF Typed, InviterTyped, RestartInviter
<1> QED BY <1>1, <1>2, <1>3 DEF Typed

LEMMA RestartInviteeTyped == ASSUME Typed, NEW i \in Invitees, RestartInvitee(i) PROVE Typed'
<1>1. InviterTyped'
  BY InviterFrame DEF Typed, RestartInvitee
<1>2. CommonTyped'
  BY CommonFrame DEF Typed, CommonTyped, RestartInvitee
<1>3. InviteeTyped'
  BY NotAskingTyped DEF Typed, InviteeTyped, RestartInvitee
<1> QED BY <1>1, <1>2, <1>3 DEF Typed

LEMMA StutterTyped == ASSUME Typed, UNCHANGED vars PROVE Typed'
<1>1. InviterTyped' /\ InviteeTyped'
  BY InviterFrame, InviteeFrame DEF Typed, vars
<1>2. CommonTyped'
  BY DEF Typed, CommonTyped, vars
<1> QED BY <1>1, <1>2 DEF Typed

-----------------------------------------------------------------------------
\* The inviter's records and handlers.

\* A handler that is as it should be after a step.
LEMMA HandlerAfter ==
    ASSUME NEW t \in Tasks, NEW h, h = hand'[t], HandlerOK(h)'
    PROVE  HandlerOK(hand[t])'
  BY DEF HandlerOK

\* Records that advance disturb no handler.
LEMMA AdvancedInviter ==
    ASSUME InviterTyped, RecordState, Advanced, UNCHANGED <<setting, attached>>
    PROVE  /\ RecordState'
           /\ \A h \in Hands : h.rec \in DOMAIN recs /\ HandlerOK(h) => HandlerOK(h)'
<1>1. didx' = didx /\ multi' = multi /\ attached' = attached /\ DOMAIN recs' = DOMAIN recs
  BY DEF didx, multi, Advanced
<1>2. \A r \in DOMAIN recs :
        /\ recs'[r].my = recs[r].my /\ recs'[r].their = recs[r].their /\ recs'[r].req = recs[r].req
        /\ recs[r].req = NoRequest /\ recs[r].state # "response" => recs'[r].state = recs[r].state
        /\ recs[r].state # "invitation" => recs'[r].state # "invitation"
        /\ recs'[r].state = "invitation" => recs[r].state = "invitation"
        /\ recs'[r].state \in Ready => recs[r].state \in Ready \/ recs[r].req # NoRequest
  BY DEF Advanced, Ready
<1>3. 1 \in DOMAIN recs
  BY DEF InviterTyped
<1>4. RecordState'
  BY <1>1, <1>2, <1>3 DEF RecordState
<1>5. ASSUME NEW h \in Hands, h.rec \in DOMAIN recs, HandlerOK(h) PROVE HandlerOK(h)'
  BY <1>1, <1>2, <1>5 DEF HandlerOK, Working
<1> QED BY <1>4, <1>5

\* If only the handler of t changes, the others are as they were.
LEMMA HandlersAfter ==
    ASSUME NEW t \in Tasks, NEW k, InviterTyped, hand' = [hand EXCEPT ![t] = k], HandlerOK(k)',
           HandlerState, \A u \in Tasks \ {t} : HandlerOK(hand[u]) => HandlerOK(hand[u])'
    PROVE  HandlerState'
<1>1. hand'[t] = k
  BY DEF InviterTyped
<1>2. HandlerOK(hand[t])'
  BY <1>1, HandlerAfter
<1> QED BY <1>2 DEF HandlerState

\* No handler is as it should be.
LEMMA IdleOK == HandlerOK(Idle)'
  BY DEF HandlerOK, Idle, Working

\* Handlers do not get nearer to each other's records when one ends, or goes on
\* with its own after it has saved its request.
LEMMA ApartAfter ==
    ASSUME InviterTyped, Apart, UNCHANGED setting, NEW t \in Tasks, NEW k,
           hand' = [hand EXCEPT ![t] = k],
           \/ k.pc = "idle"
           \/ k.pc \in Working /\ k.rec = hand[t].rec /\ hand[t].pc \in {"save"} \cup Working
    PROVE  Apart'
<1>1. \A u \in Tasks : hand'[u] = IF u = t THEN k ELSE hand[u]
  BY DEF InviterTyped
<1>2. serial' = serial
  BY DEF serial
<1> QED BY <1>1, <1>2 DEF Apart, Working

\* A handler ends, and nothing else.
LEMMA EndInviter ==
    ASSUME InviterTyped, InviterInv, NEW t \in Tasks, hand' = [hand EXCEPT ![t] = Idle],
           UNCHANGED <<setting, recs, attached>>
    PROVE  InviterInv'
<1>1. RecordState /\ HandlerState /\ Apart
  BY DEF InviterInv
<1>2. UNCHANGED <<didx, multi, serial>>
  BY DEF didx, multi, serial
<1>3. RecordState'
  BY <1>1, <1>2 DEF RecordState
<1>4. ASSUME NEW u \in Tasks \ {t} PROVE HandlerOK(hand[u])'
  <2>1. PICK h : h = hand[u] /\ HandlerOK(h)
    BY <1>1 DEF HandlerState
  <2>2. HandlerOK(h)'
    BY <1>2, <2>1 DEF HandlerOK
  <2>3. hand'[u] = h
    BY <2>1 DEF InviterTyped
  <2> QED BY <2>2, <2>3, HandlerAfter
<1>5. HandlerState'
  BY <1>1, <1>4, IdleOK, HandlersAfter
<1>6. Apart'
  BY <1>1, IdleTyped, ApartAfter
<1> QED BY <1>3, <1>5, <1>6 DEF InviterInv

\* A handler that begins while it may, or goes on to make a record of its own, is
\* near no other's record.
LEMMA ApartBegins ==
    ASSUME InviterTyped, Apart, UNCHANGED setting, NEW t \in Tasks, NEW k,
           hand' = [hand EXCEPT ![t] = k],
           serial => \A u \in Tasks \ {t} : hand[u].pc = "idle",
           k.pc \in {"find", "new"} \/ serial
    PROVE  Apart'
<1>1. \A u \in Tasks : hand'[u] = IF u = t THEN k ELSE hand[u]
  BY DEF InviterTyped
<1>2. serial' = serial
  BY DEF serial
<1>3. CASE serial
  BY <1>1, <1>2, <1>3 DEF Apart, Working
<1>4. CASE ~serial
  BY <1>1, <1>2, <1>4 DEF Apart, Working
<1> QED BY <1>3, <1>4

LEMMA ReceiveRequestInviter ==
    ASSUME OneHandler, Typed, InviterInv, NEW t \in Tasks, NEW m, ReceiveRequest(t, m)
    PROVE  InviterInv' /\ Advanced
<1>1. InviterTyped /\ RecordState /\ HandlerState /\ Apart
  BY DEF Typed, InviterInv
<1>2. Advanced
  <2>1. recs' = recs \/ recs' = Promoted(m.who, 0)
    BY DEF ReceiveRequest
  <2>2. CASE recs' = recs
    BY <1>1, <2>2 DEF Advanced, InviterTyped
  <2>3. CASE recs' = Promoted(m.who, 0)
    BY <1>1, <2>3, PromotedAdvances
  <2> QED BY <2>1, <2>2, <2>3
<1>3. UNCHANGED <<setting, attached>>
  BY DEF ReceiveRequest
<1>4. RecordState' /\ \A h \in Hands : h.rec \in DOMAIN recs /\ HandlerOK(h) => HandlerOK(h)'
  BY <1>1, <1>2, <1>3, AdvancedInviter
<1>5. \A u \in Tasks : hand[u] \in Hands /\ hand[u].rec \in DOMAIN recs
  BY <1>1 DEF InviterTyped
<1>6. \A u \in Tasks : \A h : h = hand[u] => HandlerOK(h)'
  BY <1>1, <1>4, <1>5 DEF HandlerState
<1>7. CASE UNCHANGED hand
  <2>1. HandlerState'
    BY <1>6, <1>7, HandlerAfter DEF HandlerState
  <2>2. Apart'
    BY <1>1, <1>3, <1>7 DEF Apart, serial
  <2> QED BY <1>2, <1>4, <2>1, <2>2 DEF InviterInv
<1>8. CASE hand' # hand
  <2>1. PICK k : k = [Idle EXCEPT !.pc = "find", !.msg = m]
    OBVIOUS
  <2>2. hand' = [hand EXCEPT ![t] = k] /\ Free(t) /\ m \in Mail
    BY <1>8, <2>1 DEF ReceiveRequest, Delivered, Typed, CommonTyped
  <2>3. k.pc = "find"
    BY <2>1, <2>2, FindTyped
  <2>4. HandlerState'
    <3>1. \A u \in Tasks \ {t} : hand'[u] = hand[u]
      BY <1>1, <2>2 DEF InviterTyped
    <3>2. \A u \in Tasks \ {t} : HandlerOK(hand[u])'
      BY <1>6, <3>1, HandlerAfter
    <3>3. HandlerOK(k)'
      BY <2>3 DEF HandlerOK, Working
    <3>4. HandlerOK(hand[t])'
      BY <1>1, <2>2, <3>3, HandlerAfter DEF InviterTyped
    <3> QED BY <3>2, <3>4 DEF HandlerState
  <2>5. Apart'
    BY <1>1, <1>3, <2>2, <2>3, ApartBegins DEF Free
  <2> QED BY <1>2, <1>4, <2>4, <2>5 DEF InviterInv
<1> QED BY <1>7, <1>8

LEMMA FindInvitationInviter ==
    ASSUME OneHandler, Typed, InviterInv, NEW t \in Tasks, FindInvitation(t)
    PROVE  InviterInv'
<1>1. InviterTyped /\ RecordState /\ HandlerState /\ Apart
  BY DEF Typed, InviterInv
<1>2. UNCHANGED <<setting, recs, attached>>
  BY DEF FindInvitation
<1>3. CASE hand' = [hand EXCEPT ![t] = Idle]
  BY <1>1, <1>2, <1>3, EndInviter
<1>4. CASE /\ \E r \in Open : hand' = [hand EXCEPT ![t] = Found(t, r)]
           /\ Cardinality(Open) = 1
  <2>1. PICK r \in Open : hand' = [hand EXCEPT ![t] = Found(t, r)]
    BY <1>4
  <2>2. PICK k : k = Found(t, r)
    OBVIOUS
  <2>3. /\ k.pc = FirstStep(r) /\ k.pc \in {"new", "save"} /\ k.rec = r /\ k.copy = recs[r]
        /\ r \in DOMAIN recs /\ recs[r].state = "invitation"
        /\ hand' = [hand EXCEPT ![t] = k]
    BY <2>1, <2>2, FoundTyped DEF FindInvitation, Open
  <2>4. multi => r = 1
    <3>1. IsFiniteSet(Open)
      <4>1. Open \subseteq 1..Len(recs) /\ Len(recs) \in Nat
        BY <1>1 DEF Open, InviterTyped
      <4>2. IsFiniteSet(1..Len(recs))
        BY <4>1, FS_Interval
      <4> HIDE DEF Open
      <4> QED BY <4>1, <4>2, FS_Subset
    <3>2. ASSUME multi PROVE 1 \in Open
      BY <1>1, <3>2 DEF Open, RecordState, InviterTyped
    <3>3. ASSUME NEW x \in Open, x # r PROVE FALSE
      <4>1. IsFiniteSet(Open \ {r}) /\ Cardinality(Open \ {r}) = 0
        BY <1>4, <3>1, FS_RemoveElement
      <4>2. Open \ {r} = {}
        BY <4>1, FS_EmptySet
      <4> QED BY <3>3, <4>2
    <3> QED BY <3>2, <3>3
  <2>5. HandlerOK(k)
    <3>1. CASE multi
      BY <2>3, <2>4, <3>1 DEF HandlerOK, FirstStep, Working
    <3>2. CASE ~multi
      BY <1>1, <2>3, <3>2 DEF HandlerOK, FirstStep, Working, RecordState
    <3> QED BY <3>1, <3>2
  <2>6. \A h : HandlerOK(h) => HandlerOK(h)'
    BY <1>2 DEF HandlerOK, didx, multi
  <2>7. HandlerState'
    <3>1. \A u \in Tasks : hand'[u] = IF u = t THEN k ELSE hand[u]
      BY <1>1, <2>3 DEF InviterTyped
    <3>2. ASSUME NEW u \in Tasks PROVE HandlerOK(hand[u])'
      <4>1. PICK h : h = hand'[u]
        OBVIOUS
      <4>2. HandlerOK(h)
        BY <1>1, <2>5, <3>1, <4>1 DEF HandlerState
      <4>3. HandlerOK(h)'
        BY <2>6, <4>2
      <4> QED BY <4>1, <4>3, HandlerAfter
    <3> QED BY <3>2 DEF HandlerState
  <2>8. Apart'
    <3>1. hand[t].pc = "find"
      BY DEF FindInvitation
    <3>2. serial => \A u \in Tasks \ {t} : hand[u].pc = "idle"
      BY <1>1, <3>1 DEF Apart
    <3>3. ~serial => k.pc = "new"
      BY <2>3, <2>4 DEF FirstStep, OneHandler
    <3> QED BY <1>1, <1>2, <2>3, <3>2, <3>3, ApartBegins
  <2>9. RecordState'
    BY <1>1, <1>2 DEF RecordState, didx, multi
  <2> QED BY <2>7, <2>8, <2>9 DEF InviterInv
<1> QED BY <1>3, <1>4 DEF FindInvitation, Found

LEMMA NewRecordInviter ==
    ASSUME OneHandler, Typed, InviterInv, NEW t \in Tasks, NewRecord(t)
    PROVE  InviterInv' /\ Steady /\ recs'[Len(recs) + 1].state # "completed"
           /\ Len(recs') = Len(recs) + 1 /\ recs'[Len(recs) + 1].their = 0
           /\ \A r \in DOMAIN recs : r \in DOMAIN recs' /\ recs'[r] = recs[r]
<1>1. InviterTyped /\ RecordState /\ HandlerState /\ Apart
  BY DEF Typed, InviterInv
<1>2. UNCHANGED setting /\ UNCHANGED <<didx, multi, serial>>
  BY DEF NewRecord, didx, multi, serial
<1>3. PICK n : n = Len(recs) + 1
  OBVIOUS
<1>4. PICK c : c = ConnRecord(IF didx THEN "request" ELSE "invitation", dids + 1)
  OBVIOUS
<1>5. c.state = (IF didx THEN "request" ELSE "invitation") /\ c.my = dids + 1 /\ c.their = 0 /\ c.req = NoRequest
      /\ c.my # 0
  BY <1>1, <1>4 DEF ConnRecord, InviterTyped
<1>6. PICK g \in Hands : g = hand[t]
  BY <1>1 DEF InviterTyped
<1>7. PICK k : k = [g EXCEPT !.pc = "save", !.rec = n, !.copy = c]
  OBVIOUS
<1>8. k.pc = "save" /\ k.rec = n /\ k.copy = c /\ k.msg = g.msg
  BY <1>7 DEF Hands
<1>9. hand' = [hand EXCEPT ![t] = k] /\ recs' = Append(recs, c) /\ attached' = Append(attached, <<>>)
  BY <1>3, <1>4, <1>6, <1>7 DEF NewRecord
<1>10. multi /\ g.pc = "new"
  BY <1>1, <1>6 DEF HandlerState, HandlerOK, NewRecord
<1>11. recs \in Seq(ConnRecs) /\ attached \in Seq(Seq(Mail)) /\ Len(recs) \in Nat /\ Len(attached) = Len(recs)
       /\ Len(recs) # 0 /\ DOMAIN recs = 1..Len(recs) /\ DOMAIN attached = 1..Len(recs)
  BY <1>1 DEF InviterTyped
<1> HIDE DEF ConnRecs, Mail
<1>12. /\ n \in Nat /\ n # 1 /\ n \notin DOMAIN recs /\ DOMAIN recs' = 1..n /\ Len(recs') = n
       /\ recs'[n] = c /\ attached'[n] = <<>>
       /\ \A r \in DOMAIN recs : r \in DOMAIN recs' /\ recs'[r] = recs[r] /\ attached'[r] = attached[r]
       /\ \A r \in DOMAIN recs' : r \in DOMAIN recs \/ r = n
       /\ 1 \in DOMAIN recs
  BY <1>3, <1>9, <1>11
<1>13. RecordState'
  <2>1. ASSUME NEW r \in DOMAIN recs'
        PROVE  /\ recs'[r].state = "invitation" =>
                     recs'[r].their = 0 /\ recs'[r].req = NoRequest /\ attached'[r] = <<>>
               /\ Len(attached'[r]) = 1 =>
                     /\ attached'[r][1].who = recs'[r].their
                     /\ didx' => attached'[r][1].req = recs'[r].req
               /\ recs'[r].state \in Ready \/ recs'[r].req # NoRequest => recs'[r].their # 0
               /\ r # 1 => multi' /\ recs'[r].my # 0
    <3>1. CASE r = n
      BY <1>2, <1>5, <1>10, <1>12, <3>1 DEF Ready
    <3>2. CASE r \in DOMAIN recs
      BY <1>1, <1>2, <1>12, <3>2 DEF RecordState
    <3> QED BY <1>12, <3>1, <3>2
  <2>2. multi' => recs'[1].state = "invitation"
    BY <1>1, <1>2, <1>12 DEF RecordState
  <2> QED BY <2>1, <2>2 DEF RecordState
<1>14. HandlerOK(k)'
  BY <1>2, <1>5, <1>8, <1>10, <1>12 DEF HandlerOK, Working
<1>15. \A u \in Tasks \ {t} : hand'[u] = hand[u] /\ hand[u].rec \in DOMAIN recs
  BY <1>1, <1>9, <1>11 DEF InviterTyped
<1>16. ASSUME NEW u \in Tasks \ {t} PROVE HandlerOK(hand[u])'
  <2>1. PICK h : h = hand[u]
    OBVIOUS
  <2>2. HandlerOK(h) /\ h.rec \in DOMAIN recs
    BY <1>1, <1>15, <2>1 DEF HandlerState
  <2>3. HandlerOK(h)'
    BY <1>2, <1>12, <2>2 DEF HandlerOK, Working
  <2> QED BY <1>15, <2>1, <2>3, HandlerAfter
<1>17. HandlerState'
  BY <1>1, <1>9, <1>14, <1>16, HandlersAfter
<1>18. Apart'
  <2>1. \A u \in Tasks : hand'[u] = IF u = t THEN k ELSE hand[u]
    BY <1>1, <1>9 DEF InviterTyped
  <2>2. \A u \in Tasks \ {t} : hand[u].rec # n
    BY <1>12, <1>15
  <2> QED BY <1>1, <1>2, <1>6, <1>8, <1>10, <2>1, <2>2 DEF Apart, Working
<1>19. Steady
  BY <1>12 DEF Steady
<1> QED BY <1>3, <1>5, <1>12, <1>13, <1>17, <1>18, <1>19 DEF InviterInv

\* A copy of record n, but for its state.
CopyOf(c, n) == c.my = recs[n].my /\ c.their = recs[n].their /\ c.req = recs[n].req

\* One record is saved that no other handler is about to save its request in.
LEMMA SavedInviter ==
    ASSUME InviterTyped, RecordState, UNCHANGED <<setting, attached>>,
           NEW n \in DOMAIN recs, NEW c \in ConnRecs, recs' = [recs EXCEPT ![n] = c],
           c.state # "invitation", c.their # 0, multi => n # 1, recs[n].my # 0 => c.my # 0,
           Len(attached[n]) = 1 =>
              attached[n][1].who = c.their /\ (didx => attached[n][1].req = c.req)
    PROVE  /\ RecordState'
           /\ \A h \in Hands : h.rec \in DOMAIN recs \ {n} /\ HandlerOK(h) => HandlerOK(h)'
           /\ \A h \in Hands :
                 h.rec = n /\ h.pc # "save" /\ HandlerOK(h) /\ (h.pc \in Working => CopyOf(c, n))
                    => HandlerOK(h)'
<1>1. UNCHANGED <<didx, multi>>
  BY DEF didx, multi
<1>2. DOMAIN recs' = DOMAIN recs /\ \A r \in DOMAIN recs : recs'[r] = IF r = n THEN c ELSE recs[r]
  BY OneSaved
<1>3. 1 \in DOMAIN recs
  BY DEF InviterTyped
<1>4. RecordState'
  BY <1>1, <1>2, <1>3 DEF RecordState
<1>5. ASSUME NEW h \in Hands, h.rec \in DOMAIN recs \ {n}, HandlerOK(h) PROVE HandlerOK(h)'
  BY <1>1, <1>2, <1>5 DEF HandlerOK
<1>6. ASSUME NEW h \in Hands, h.rec = n, h.pc # "save", HandlerOK(h),
             h.pc \in Working => CopyOf(c, n)
      PROVE  HandlerOK(h)'
  <2>1. recs'[n] = c
    BY <1>2
  <2> QED BY <1>1, <1>6, <2>1 DEF HandlerOK, Working, CopyOf
<1> QED BY <1>4, <1>5, <1>6

LEMMA SaveRequestInviter ==
    ASSUME Typed, InviterInv, NEW t \in Tasks, SaveRequest(t)
    PROVE  /\ InviterInv' /\ Steady
           /\ \E h \in Hands : h = hand[t] /\ h.rec \in DOMAIN recs /\ DOMAIN recs' = DOMAIN recs
                /\ \A r \in DOMAIN recs : recs'[r] = IF r = h.rec THEN CopyToSave(h) ELSE recs[r]
<1>1. InviterTyped /\ RecordState /\ HandlerState /\ Apart
  BY DEF Typed, InviterInv
<1>2. UNCHANGED <<setting, attached>>
  BY DEF SaveRequest
<1>3. PICK g \in Hands : g = hand[t]
  BY <1>1 DEF InviterTyped
<1>4. g.msg \in Mail /\ g.rec \in DOMAIN recs /\ g.pc = "save" /\ HandlerOK(g)
  BY <1>1, <1>3 DEF InviterTyped, SaveRequest, HandlerState
<1>5. PICK c \in ConnRecs : /\ c = CopyToSave(g)
                            /\ c.state = "request" /\ c.my = g.copy.my /\ c.their = g.msg.who
                            /\ c.req = IF didx THEN g.msg.req ELSE g.copy.req
  BY <1>4, CopyToSaveFacts
<1>6. PICK k : k = [g EXCEPT !.pc = "attach", !.copy = c]
  OBVIOUS
<1>7. k.pc = "attach" /\ k.rec = g.rec /\ k.copy = c /\ k.msg = g.msg
  BY <1>6 DEF Hands
<1>8. recs' = [recs EXCEPT ![g.rec] = c] /\ hand' = [hand EXCEPT ![t] = k]
  BY <1>3, <1>5, <1>6 DEF SaveRequest, CopyToSave
<1>9. /\ recs[g.rec].state \in {"invitation", "request"} /\ attached[g.rec] = <<>>
      /\ c.my = recs[g.rec].my /\ (multi => g.rec # 1)
  BY <1>4, <1>5 DEF HandlerOK, Working
<1>10. /\ RecordState'
       /\ \A h \in Hands : h.rec \in DOMAIN recs \ {g.rec} /\ HandlerOK(h) => HandlerOK(h)'
       /\ \A h \in Hands :
              h.rec = g.rec /\ h.pc # "save" /\ HandlerOK(h) /\ (h.pc \in Working => CopyOf(c, g.rec))
                 => HandlerOK(h)'
  <2>1. c.state # "invitation" /\ (multi => g.rec # 1) /\ (recs[g.rec].my # 0 => c.my # 0) /\ c.their # 0
    BY <1>4, <1>5, <1>9 DEF Mail
  <2>2. Len(attached[g.rec]) # 1
    BY <1>9
  <2> QED BY <1>1, <1>2, <1>4, <1>8, <2>1, <2>2, SavedInviter
<1>11. DOMAIN recs' = DOMAIN recs /\ \A r \in DOMAIN recs : recs'[r] = IF r = g.rec THEN c ELSE recs[r]
  BY <1>1, <1>4, <1>8, OneSaved
<1>12. HandlerOK(k)'
  <2>1. recs'[g.rec] = c /\ UNCHANGED <<didx, multi>>
    BY <1>2, <1>4, <1>11 DEF didx, multi
  <2>2. k.pc = "attach" /\ recs'[k.rec].state # "invitation" /\ (multi' => k.rec # 1)
    BY <1>5, <1>7, <1>9, <2>1
  <2>3. k.copy = recs'[k.rec] /\ k.copy.their = k.msg.who /\ (didx' => k.copy.req = k.msg.req)
    BY <1>5, <1>7, <2>1
  <2> QED BY <2>2, <2>3 DEF HandlerOK, Working
<1>13. ASSUME NEW u \in Tasks \ {t} PROVE HandlerOK(hand[u])'
  <2>1. PICK h \in Hands : h = hand[u] /\ HandlerOK(h) /\ h.rec \in DOMAIN recs
    BY <1>1 DEF HandlerState, InviterTyped
  <2>2. h.rec = g.rec => h.pc \notin {"save"} \cup Working
    BY <1>1, <1>3, <1>4, <2>1 DEF Apart
  <2>3. HandlerOK(h)'
    <3>1. CASE h.rec # g.rec
      BY <1>10, <2>1, <3>1
    <3>2. CASE h.rec = g.rec
      <4>1. h.pc # "save" /\ h.pc \notin Working
        BY <2>2, <3>2
      <4> QED BY <1>2, <2>1, <4>1 DEF HandlerOK, Working, multi
    <3> QED BY <3>1, <3>2
  <2>4. hand'[u] = h
    BY <1>1, <1>8, <2>1 DEF InviterTyped
  <2> QED BY <2>3, <2>4, HandlerAfter
<1>14. HandlerState'
  BY <1>1, <1>8, <1>12, <1>13, HandlersAfter
<1>15. Apart'
  <2>1. k.pc \in Working /\ k.rec = hand[t].rec /\ hand[t].pc \in {"save"} \cup Working
    BY <1>3, <1>4, <1>7 DEF Working
  <2> QED BY <1>1, <1>2, <1>8, <2>1, ApartAfter
<1>16. Steady
  BY <1>9, <1>11 DEF Steady, Ready
<1> QED BY <1>3, <1>4, <1>5, <1>10, <1>11, <1>14, <1>15, <1>16 DEF InviterInv

LEMMA AttachRequestInviter ==
    ASSUME Typed, InviterInv, NEW t \in Tasks, AttachRequest(t)
    PROVE  /\ InviterInv'
           /\ \E h \in Hands : h = hand[t] /\ \A r \in DOMAIN recs :
                 \/ attached'[r] = attached[r]
                 \/ Len(attached'[r]) = 1 => attached'[r][1] = h.msg
<1>1. InviterTyped /\ RecordState /\ HandlerState /\ Apart
  BY DEF Typed, InviterInv
<1>2. UNCHANGED <<setting, recs>> /\ UNCHANGED <<didx, multi>>
  BY DEF AttachRequest, didx, multi
<1>3. PICK g \in Hands : g = hand[t]
  BY <1>1 DEF InviterTyped
<1>4. g.msg \in Mail /\ g.rec \in DOMAIN attached /\ g.pc = "attach" /\ HandlerOK(g)
  BY <1>1, <1>3 DEF InviterTyped, AttachRequest, HandlerState
<1>5. /\ recs[g.rec].state # "invitation" /\ g.copy.their = g.msg.who /\ g.copy.their = recs[g.rec].their
      /\ g.copy.req = recs[g.rec].req /\ (didx => g.copy.req = g.msg.req) /\ (multi => g.rec # 1)
      /\ g.copy.my = recs[g.rec].my
  BY <1>4 DEF HandlerOK, Working
<1>6. PICK k \in Hands : k = IF auto THEN [g EXCEPT !.pc = "respond"] ELSE Idle
  BY IdleTyped DEF Hands
<1>7. hand' = [hand EXCEPT ![t] = k]
  BY <1>3, <1>6 DEF AttachRequest
<1>8. k = Idle \/ (k.pc = "respond" /\ k.rec = g.rec /\ k.copy = g.copy)
  BY <1>6 DEF Hands
<1>9. /\ \A r \in DOMAIN attached : attached'[r] = IF r = g.rec THEN Append(attached[r], g.msg) ELSE attached[r]
      /\ DOMAIN attached' = DOMAIN attached /\ DOMAIN recs = DOMAIN attached
  BY <1>1, <1>3, <1>4 DEF AttachRequest, InviterTyped
<1>10. attached[g.rec] \in Seq(Mail)
  BY <1>1, <1>4 DEF InviterTyped
<1>11. ASSUME Len(attached'[g.rec]) = 1 PROVE attached'[g.rec][1] = g.msg
  <2> HIDE DEF Mail
  <2>1. attached'[g.rec] = Append(attached[g.rec], g.msg)
    BY <1>4, <1>9
  <2> QED BY <1>4, <1>10, <1>11, <2>1
<1>12. RecordState'
  <2>1. ASSUME NEW r \in DOMAIN recs
        PROVE  /\ recs[r].state = "invitation" =>
                     recs[r].their = 0 /\ recs[r].req = NoRequest /\ attached'[r] = <<>>
               /\ Len(attached'[r]) = 1 =>
                     attached'[r][1].who = recs[r].their /\ (didx => attached'[r][1].req = recs[r].req)
               /\ recs[r].state \in Ready \/ recs[r].req # NoRequest => recs[r].their # 0
               /\ r # 1 => multi /\ recs[r].my # 0
    <3>1. CASE r = g.rec
      BY <1>1, <1>5, <1>11, <3>1 DEF RecordState
    <3>2. CASE r # g.rec
      <4>1. attached'[r] = attached[r]
        BY <1>9, <3>2
      <4> QED BY <1>1, <4>1 DEF RecordState
    <3> QED BY <3>1, <3>2
  <2>2. multi => recs[1].state = "invitation"
    BY <1>1 DEF RecordState
  <2> QED BY <1>2, <2>1, <2>2 DEF RecordState
<1>13. HandlerOK(k)'
  <2>1. CASE k = Idle
    BY <2>1, IdleOK
  <2>2. CASE k.pc = "respond" /\ k.rec = g.rec /\ k.copy = g.copy
    BY <1>2, <1>5, <2>2 DEF HandlerOK, Working
  <2> QED BY <1>8, <2>1, <2>2
<1>14. ASSUME NEW u \in Tasks \ {t} PROVE HandlerOK(hand[u])'
  <2>1. PICK h \in Hands : h = hand[u] /\ HandlerOK(h) /\ h.rec \in DOMAIN attached
    BY <1>1, <1>9 DEF HandlerState, InviterTyped
  <2>2. h.pc = "save" => h.rec # g.rec
    BY <1>1, <1>3, <1>4, <2>1 DEF Apart, Working
  <2>3. HandlerOK(h)'
    BY <1>2, <1>9, <2>1, <2>2 DEF HandlerOK
  <2>4. hand'[u] = h
    BY <1>1, <1>7, <2>1 DEF InviterTyped
  <2> QED BY <2>3, <2>4, HandlerAfter
<1>15. HandlerState'
  BY <1>1, <1>7, <1>13, <1>14, HandlersAfter
<1>16. Apart'
  <2>1. k.pc = "idle" \/ (k.pc \in Working /\ k.rec = hand[t].rec /\ hand[t].pc \in {"save"} \cup Working)
    BY <1>3, <1>4, <1>8, IdleTyped DEF Working
  <2> QED BY <1>1, <1>2, <1>7, <2>1, ApartAfter
<1> QED BY <1>3, <1>9, <1>11, <1>12, <1>15, <1>16 DEF InviterInv

LEMMA AcceptRequestInviter ==
    ASSUME OneHandler, Typed, InviterInv, NEW t \in Tasks, NEW r \in DOMAIN recs, AcceptRequest(t, r)
    PROVE  InviterInv' /\ \E k : hand' = [hand EXCEPT ![t] = k] /\ k.pc = "respond"
<1>1. InviterTyped /\ RecordState /\ HandlerState /\ Apart
  BY DEF Typed, InviterInv
<1>2. UNCHANGED <<setting, recs, attached>> /\ UNCHANGED <<didx, multi, serial>>
  BY DEF AcceptRequest, didx, multi, serial
<1>3. PICK k : k = [pc |-> "respond", msg |-> NoMessage, rec |-> r, copy |-> recs[r], resaves |-> FALSE]
  OBVIOUS
<1>4. hand' = [hand EXCEPT ![t] = k] /\ k.pc = "respond" /\ k.rec = r /\ k.copy = recs[r]
  BY <1>3 DEF AcceptRequest
<1>5. recs[r].state \in {"request", "response"} /\ ~auto /\ Free(t)
  BY DEF AcceptRequest
<1>6. multi => r # 1
  BY <1>1, <1>5 DEF RecordState
<1>7. RecordState'
  BY <1>1, <1>2 DEF RecordState
<1>8. HandlerOK(k)'
  BY <1>2, <1>4, <1>5, <1>6 DEF HandlerOK, Working
<1>9. ASSUME NEW u \in Tasks \ {t} PROVE HandlerOK(hand[u])'
  <2>1. PICK h : h = hand[u] /\ HandlerOK(h)
    BY <1>1 DEF HandlerState
  <2>2. HandlerOK(h)'
    BY <1>2, <2>1 DEF HandlerOK
  <2>3. hand'[u] = h
    BY <1>1, <1>4, <2>1 DEF InviterTyped
  <2> QED BY <2>2, <2>3, HandlerAfter
<1>10. HandlerState'
  BY <1>1, <1>4, <1>8, <1>9, HandlersAfter
<1>11. Apart'
  <2>1. \A u \in Tasks : hand'[u] = IF u = t THEN k ELSE hand[u]
    BY <1>1, <1>4 DEF InviterTyped
  <2>2. CASE serial
    BY <1>1, <1>2, <1>4, <1>5, <2>1, <2>2 DEF Apart, Free, Working
  <2>3. CASE ~serial
    <3>1. ~didx
      BY <1>5, <2>3 DEF OneHandler
    <3>2. \A u \in Tasks : hand[u].pc = "save" => hand[u].rec # r
      BY <1>1, <1>5, <3>1 DEF HandlerState, HandlerOK
    <3> QED BY <1>1, <1>2, <1>4, <2>1, <2>3, <3>2 DEF Apart, Working
  <2> QED BY <2>2, <2>3
<1> QED BY <1>4, <1>7, <1>10, <1>11 DEF InviterInv

LEMMA CreateResponseInviter ==
    ASSUME OneHandler, Typed, InviterInv, NEW t \in Tasks, UNCHANGED <<setting, attached>>, Responds(t)
    PROVE  /\ InviterInv' /\ Steady
           /\ \E h \in Hands :
                 /\ h = hand[t] /\ h.rec \in DOMAIN recs /\ h.rec \in DOMAIN attached
                 /\ Len(attached[h.rec]) = 1 /\ attached[h.rec][1] \in Mail
                 /\ msgs' = msgs \cup {Message("response", attached[h.rec][1].who, AnswerMy(h), attached[h.rec][1].req)}
                 /\ DOMAIN recs' = DOMAIN recs
                 /\ \A r \in DOMAIN recs : recs'[r] = IF r = h.rec THEN Answer(h) ELSE recs[r]
                 /\ recs[h.rec].their = h.copy.their
                 /\ attached[h.rec][1].who = h.copy.their
                 /\ didx => attached[h.rec][1].req = h.copy.req
           /\ \E k : hand' = [hand EXCEPT ![t] = k] /\ k.pc \in {"idle", "resave"}
<1>1. InviterTyped /\ RecordState /\ HandlerState /\ Apart
  BY DEF Typed, InviterInv
<1>2. UNCHANGED <<didx, multi, serial>>
  BY DEF didx, multi, serial
<1>3. PICK g \in Hands :
          /\ g = hand[t] /\ g.pc = "respond" /\ g.rec \in DOMAIN recs
          /\ Len(attached[g.rec]) = 1 /\ attached[g.rec][1] \in Mail
          /\ dids' \in Nat
          /\ recs' = [recs EXCEPT ![g.rec] = Answer(g)]
          /\ msgs' = msgs \cup {Message("response", attached[g.rec][1].who, AnswerMy(g), attached[g.rec][1].req)}
          /\ hand' = [hand EXCEPT ![t] =
                IF g.resaves THEN [g EXCEPT !.pc = "resave", !.copy = Answer(g)] ELSE Idle]
  BY DEF Responds
<1>4. HandlerOK(g)
  BY <1>1, <1>3 DEF HandlerState
<1>5. recs[g.rec].state # "invitation" /\ CopyOf(g.copy, g.rec) /\ (multi => g.rec # 1)
  BY <1>3, <1>4 DEF HandlerOK, Working, CopyOf
<1>6. PICK c \in ConnRecs : /\ c = Answer(g) /\ c.state = "response" /\ c.my = AnswerMy(g) /\ c.my # 0
                            /\ c.their = g.copy.their /\ c.req = g.copy.req
                            /\ g.copy.my # 0 => c.my = g.copy.my
  BY <1>1, AnswerFacts
<1>7. PICK k \in Hands : k = IF g.resaves THEN [g EXCEPT !.pc = "resave", !.copy = c] ELSE Idle
  BY <1>1, <1>6, ResavingTyped
<1>8. hand' = [hand EXCEPT ![t] = k] /\ recs' = [recs EXCEPT ![g.rec] = c]
  BY <1>3, <1>6, <1>7
<1>9. k = Idle \/ (k.pc = "resave" /\ k.rec = g.rec /\ k.copy = c)
  BY <1>7 DEF Hands
<1>10. attached[g.rec][1].who = c.their /\ (didx => attached[g.rec][1].req = c.req) /\ c.their # 0
  <2>1. attached[g.rec][1].who = c.their /\ (didx => attached[g.rec][1].req = c.req)
    BY <1>1, <1>3, <1>5, <1>6 DEF RecordState, CopyOf
  <2>2. attached[g.rec][1].who \in Invitees
    BY <1>3 DEF Mail
  <2> QED BY <2>1, <2>2
<1>11. /\ RecordState'
       /\ \A h \in Hands : h.rec \in DOMAIN recs \ {g.rec} /\ HandlerOK(h) => HandlerOK(h)'
       /\ \A h \in Hands :
              h.rec = g.rec /\ h.pc # "save" /\ HandlerOK(h) /\ (h.pc \in Working => CopyOf(c, g.rec))
                 => HandlerOK(h)'
  <2>1. c.state # "invitation" /\ (multi => g.rec # 1) /\ (recs[g.rec].my # 0 => c.my # 0)
    BY <1>5, <1>6
  <2> QED BY <1>1, <1>3, <1>8, <1>10, <2>1, SavedInviter
<1>12. DOMAIN recs' = DOMAIN recs /\ \A r \in DOMAIN recs : recs'[r] = IF r = g.rec THEN c ELSE recs[r]
  BY <1>1, <1>3, <1>8, OneSaved
<1>13. HandlerOK(k)'
  <2>1. CASE k = Idle
    BY <2>1, IdleOK
  <2>2. CASE k.pc = "resave" /\ k.rec = g.rec /\ k.copy = c
    <3>1. recs'[g.rec] = c
      BY <1>3, <1>12
    <3> QED BY <1>2, <1>5, <1>6, <1>10, <2>2, <3>1 DEF HandlerOK, Working
  <2> QED BY <1>9, <2>1, <2>2
<1>14. ASSUME NEW u \in Tasks \ {t} PROVE HandlerOK(hand[u])'
  <2>1. PICK h \in Hands : h = hand[u] /\ HandlerOK(h) /\ h.rec \in DOMAIN recs
    BY <1>1 DEF HandlerState, InviterTyped
  <2>2. CASE h.rec # g.rec
    <3>1. HandlerOK(h)'
      BY <1>11, <2>1, <2>2
    <3>2. hand'[u] = h
      BY <1>1, <1>8, <2>1 DEF InviterTyped
    <3> QED BY <3>1, <3>2, HandlerAfter
  <2>3. CASE h.rec = g.rec
    <3>1. h.pc # "save"
      BY <1>1, <1>3, <2>1, <2>3 DEF Apart, Working
    <3>2. ASSUME h.pc \in Working PROVE CopyOf(c, g.rec)
      <4>1. ~serial
        BY <1>1, <1>3, <2>1, <3>2 DEF Apart, Working
      <4>2. recs[g.rec].my # 0
        BY <1>1, <1>3, <1>5, <4>1 DEF OneHandler, RecordState
      <4> QED BY <1>5, <1>6, <4>2 DEF CopyOf
    <3>3. HandlerOK(h)'
      <4>1. recs'[h.rec] = c
        BY <1>3, <1>12, <2>3
      <4> QED BY <1>2, <1>5, <1>6, <2>1, <2>3, <3>1, <3>2, <4>1 DEF HandlerOK, Working, CopyOf
    <3>4. hand'[u] = h
      BY <1>1, <1>8, <2>1 DEF InviterTyped
    <3> QED BY <3>3, <3>4, HandlerAfter
  <2> QED BY <2>2, <2>3
<1>15. HandlerState'
  BY <1>1, <1>8, <1>13, <1>14, HandlersAfter
<1>16. Apart'
  <2>1. k.pc = "idle" \/ (k.pc \in Working /\ k.rec = hand[t].rec /\ hand[t].pc \in {"save"} \cup Working)
    BY <1>3, <1>9, IdleTyped DEF Working
  <2> QED BY <1>1, <1>8, <2>1, ApartAfter
<1>17. Steady
  BY <1>5, <1>6, <1>12 DEF Steady, Ready, CopyOf
<1>18. InviterInv'
  BY <1>11, <1>15, <1>16 DEF InviterInv
<1>19. g.rec \in DOMAIN attached /\ k.pc \in {"idle", "resave"}
  BY <1>1, <1>3, <1>9, IdleTyped DEF InviterTyped
<1>20. recs[g.rec].their = g.copy.their /\ attached[g.rec][1].who = g.copy.their
       /\ (didx => attached[g.rec][1].req = g.copy.req)
  BY <1>5, <1>6, <1>10 DEF CopyOf
<1>21. \A r \in DOMAIN recs : recs'[r] = IF r = g.rec THEN Answer(g) ELSE recs[r]
  BY <1>6, <1>12
<1> QED BY <1>3, <1>8, <1>12, <1>17, <1>18, <1>19, <1>20, <1>21

LEMMA ResaveResponseInviter ==
    ASSUME Typed, InviterInv, NEW t \in Tasks, ResaveResponse(t)
    PROVE  /\ InviterInv' /\ Steady /\ DOMAIN recs' = DOMAIN recs
           /\ \A r \in DOMAIN recs : CopyOf(recs'[r], r) /\ (recs'[r] = recs[r] \/ recs'[r].state = "response")
<1>1. InviterTyped /\ RecordState /\ HandlerState /\ Apart
  BY DEF Typed, InviterInv
<1>2. UNCHANGED <<setting, attached>>
  BY DEF ResaveResponse
<1>3. PICK g \in Hands : g = hand[t]
  BY <1>1 DEF InviterTyped
<1>4. g.rec \in DOMAIN recs /\ g.pc = "resave" /\ HandlerOK(g)
  BY <1>1, <1>3 DEF InviterTyped, ResaveResponse, HandlerState
<1>5. PICK c \in ConnRecs : c = g.copy
  BY DEF Hands
<1>6. CopyOf(c, g.rec) /\ c.state = "response" /\ (multi => g.rec # 1) /\ c.their # 0
  BY <1>4, <1>5 DEF HandlerOK, Working, CopyOf
<1>7. recs' = [recs EXCEPT ![g.rec] = c] /\ hand' = [hand EXCEPT ![t] = Idle]
  BY <1>3, <1>5 DEF ResaveResponse
<1>8. /\ RecordState'
      /\ \A h \in Hands : h.rec \in DOMAIN recs \ {g.rec} /\ HandlerOK(h) => HandlerOK(h)'
      /\ \A h \in Hands :
             h.rec = g.rec /\ h.pc # "save" /\ HandlerOK(h) /\ (h.pc \in Working => CopyOf(c, g.rec))
                => HandlerOK(h)'
  <2>1. c.state # "invitation" /\ (multi => g.rec # 1) /\ (recs[g.rec].my # 0 => c.my # 0)
    BY <1>6 DEF CopyOf
  <2>2. Len(attached[g.rec]) = 1 => attached[g.rec][1].who = c.their /\ (didx => attached[g.rec][1].req = c.req)
    BY <1>1, <1>4, <1>6 DEF RecordState, CopyOf
  <2> QED BY <1>1, <1>2, <1>4, <1>6, <1>7, <2>1, <2>2, SavedInviter
<1>9. DOMAIN recs' = DOMAIN recs /\ \A r \in DOMAIN recs : recs'[r] = IF r = g.rec THEN c ELSE recs[r]
  BY <1>1, <1>4, <1>7, OneSaved
<1>10. ASSUME NEW u \in Tasks \ {t} PROVE HandlerOK(hand[u])'
  <2>1. PICK h \in Hands : h = hand[u] /\ HandlerOK(h) /\ h.rec \in DOMAIN recs
    BY <1>1 DEF HandlerState, InviterTyped
  <2>2. h.rec = g.rec => h.pc # "save"
    BY <1>1, <1>3, <1>4, <2>1 DEF Apart, Working
  <2>3. HandlerOK(h)'
    BY <1>6, <1>8, <2>1, <2>2
  <2>4. hand'[u] = h
    BY <1>1, <1>7, <2>1 DEF InviterTyped
  <2> QED BY <2>3, <2>4, HandlerAfter
<1>11. HandlerState'
  BY <1>1, <1>7, <1>10, IdleOK, HandlersAfter
<1>12. Apart'
  BY <1>1, <1>2, <1>7, IdleTyped, ApartAfter
<1>13. Steady
  BY <1>6, <1>9 DEF Steady, Ready, CopyOf
<1>14. \A r \in DOMAIN recs : CopyOf(recs'[r], r) /\ (recs'[r] = recs[r] \/ recs'[r].state = "response")
  BY <1>6, <1>9 DEF CopyOf
<1> QED BY <1>8, <1>9, <1>11, <1>12, <1>13, <1>14 DEF InviterInv

-----------------------------------------------------------------------------
\* What the inviter's steps keep: the cache, the requests, and what invitees know.

LEMMA ReceiveRequestSound ==
    ASSUME OneHandler, Typed, Sound, NEW t \in Tasks, NEW m \in msgs, ReceiveRequest(t, m)
    PROVE  Sound'
<1>1. InviterInv /\ MailState /\ InviteeState /\ AskedState /\ CacheState /\ CompletedIsKnown
      /\ InviterTyped
  BY DEF Sound, InviteeInv, Typed
<1>2. InviterInv' /\ Advanced
  BY <1>1, ReceiveRequestInviter
<1>3. /\ Steady /\ UNCHANGED <<setting, invitee, attached>> /\ msgs' \subseteq msgs /\ m \in Mail
      /\ uncached \subseteq uncached'
  <2>1. Steady
    BY <1>2, AdvancedIsSteady
  <2>2. msgs' \subseteq msgs /\ m \in Mail
    BY DEF ReceiveRequest, Delivered, Typed, CommonTyped
  <2> QED BY <2>1, <2>2 DEF ReceiveRequest
<1>4. InviteeState'
  BY <1>1, <1>3, InviteesStay
<1>5. MailState'
  <2>1. ASSUME NEW n \in msgs PROVE MailOK(n)'
    BY <1>1, <1>3, MessagesStay DEF invitee
  <2> QED BY <1>3, <2>1 DEF MailState
<1>6. m.req # NoRequest /\ m.kind = "request"
  BY <1>1 DEF MailState, MailOK, ReceiveRequest
<1>7. \A u \in Tasks : \/ hand'[u] = hand[u]
                       \/ /\ hand'[u].msg = m
                          /\ m.who \notin uncached' => <<m.who, 0>> \in cached'
  <2>1. CASE UNCHANGED hand
    BY <2>1
  <2>2. CASE hand' # hand
    <3>1. PICK k : k = [Idle EXCEPT !.pc = "find", !.msg = m]
      OBVIOUS
    <3>2. /\ hand' = [hand EXCEPT ![t] = k]
          /\ FindInbound(m.who, 0)
          /\ uncached' = IF Finds(m.who, 0) THEN uncached ELSE uncached \cup {m.who}
      BY <2>2, <3>1 DEF ReceiveRequest
    <3>3. k.msg = m
      BY <1>3, <3>1, FindTyped
    <3>4. m.who \notin uncached' => <<m.who, 0>> \in cached'
      BY <3>2 DEF FindInbound
    <3> QED BY <1>1, <3>2, <3>3, <3>4 DEF InviterTyped
  <2> QED BY <2>1, <2>2
<1>8. AskedState'
  BY <1>1, <1>3, <1>6, <1>7 DEF AskedState
<1>9. cached \subseteq cached'
  BY DEF ReceiveRequest, FindInbound
<1>10. CacheState'
  <2>1. DOMAIN recs' = DOMAIN recs /\ \A r \in DOMAIN recs : recs'[r].their = recs[r].their
    BY <1>2 DEF Advanced
  <2> QED BY <1>1, <1>3, <1>7, <1>9, <2>1 DEF CacheState
<1>11. CompletedIsKnown'
  <2>1. ASSUME NEW r \in DOMAIN recs, recs[r].their \notin uncached, recs'[r].state = "completed"
        PROVE  recs[r].state = "completed"
    <3>1. recs' = recs \/ recs' = Promoted(m.who, 0)
      BY DEF ReceiveRequest
    <3>2. CASE recs' = recs
      BY <2>1, <3>2
    <3>3. CASE recs' = Promoted(m.who, 0)
      <4>1. recs[r].state = "completed" \/ (<<m.who, 0>> \notin cached /\ r \in Matching(m.who, 0))
        BY <1>1, <2>1, <3>3, PromotedAdvances
      <4>2. r \in Matching(m.who, 0) => recs[r].their = m.who
        BY DEF Matching
      <4>3. m.who # 0
        BY <1>3 DEF Mail
      <4> QED BY <1>1, <2>1, <4>1, <4>2, <4>3 DEF CacheState
    <3> QED BY <3>1, <3>2, <3>3
  <2>2. accepted' = accepted
    BY <1>3 DEF invitee
  <2>3. /\ DOMAIN recs' = DOMAIN recs
        /\ \A r \in DOMAIN recs : recs'[r].their = recs[r].their /\ recs'[r].my = recs[r].my
    BY <1>2 DEF Advanced
  <2> QED BY <1>1, <1>3, <2>1, <2>2, <2>3 DEF CompletedIsKnown
<1> QED BY <1>2, <1>4, <1>5, <1>8, <1>10, <1>11 DEF Sound, InviteeInv

LEMMA NewRecordSound ==
    ASSUME OneHandler, Typed, Sound, NEW t \in Tasks, NewRecord(t)
    PROVE  Sound'
<1>1. InviterInv /\ MailState /\ InviteeState /\ AskedState /\ CacheState /\ CompletedIsKnown
      /\ InviterTyped
  BY DEF Sound, InviteeInv, Typed
<1>2. InviterInv' /\ Steady /\ recs'[Len(recs) + 1].state # "completed"
      /\ Len(recs') = Len(recs) + 1 /\ recs'[Len(recs) + 1].their = 0
      /\ \A r \in DOMAIN recs : r \in DOMAIN recs' /\ recs'[r] = recs[r]
  BY <1>1, NewRecordInviter
<1>3. UNCHANGED <<setting, invitee, msgs, cached, uncached>>
  BY DEF NewRecord
<1>4. InviteeState'
  BY <1>1, <1>2, <1>3, InviteesStay
<1>5. MailState'
  <2>1. ASSUME NEW n \in msgs PROVE MailOK(n)'
    BY <1>1, <1>2, <1>3, MessagesStay DEF invitee
  <2> QED BY <1>3, <2>1 DEF MailState
<1>6. PICK n : n = Len(recs) + 1
  OBVIOUS
<1>7. \A r \in DOMAIN recs' : r \in DOMAIN recs \/ r = n
  <2>1. DOMAIN recs' = 1..Len(recs') /\ DOMAIN recs = 1..Len(recs) /\ Len(recs) \in Nat
    BY <1>1, NewRecordTyped DEF Typed, InviterTyped
  <2> QED BY <1>2, <1>6, <2>1
<1>8. \A u \in Tasks : hand'[u] = hand[u] \/ (u = t /\ hand[u].pc = "new" /\ hand'[u].msg = hand[u].msg)
  <2>1. PICK g \in Hands : g = hand[t]
    BY <1>1 DEF InviterTyped
  <2>2. \E c : hand' = [hand EXCEPT ![t] = [g EXCEPT !.pc = "save", !.rec = n, !.copy = c]]
    BY <1>6, <2>1 DEF NewRecord
  <2>3. hand'[t].msg = g.msg
    BY <1>1, <2>2 DEF InviterTyped, Hands
  <2> QED BY <1>1, <2>1, <2>2, <2>3 DEF InviterTyped, NewRecord
<1>9. AskedState'
  <2>1. \A u \in Tasks : hand'[u].pc \in {"find", "new", "save", "attach"} => hand'[u].msg.req # NoRequest
    BY <1>1, <1>8 DEF AskedState
  <2>2. DOMAIN attached' = DOMAIN attached \cup {n} /\ attached'[n] = <<>>
        /\ \A r \in DOMAIN attached : attached'[r] = attached[r]
    <3>1. attached \in Seq(Seq(Mail)) /\ Len(attached) = Len(recs) /\ attached' = Append(attached, <<>>)
      BY <1>1 DEF InviterTyped, NewRecord
    <3> HIDE DEF Mail
    <3> QED BY <1>6, <3>1
  <2> QED BY <1>1, <2>1, <2>2 DEF AskedState
<1>10. CacheState'
  BY <1>1, <1>2, <1>3, <1>6, <1>7, <1>8 DEF CacheState
<1>11. CompletedIsKnown'
  <2>1. accepted' = accepted /\ uncached' = uncached
    BY <1>3 DEF invitee
  <2> QED BY <1>1, <1>2, <1>3, <1>6, <1>7, <2>1 DEF CompletedIsKnown
<1> QED BY <1>2, <1>4, <1>5, <1>9, <1>10, <1>11 DEF Sound, InviteeInv

\* Steps in which no record is asked for, nor completed, and no message is sent.
LEMMA QuietSound ==
    ASSUME OneHandler, Typed, Sound, InviterInv', Steady, DOMAIN recs' = DOMAIN recs,
           \A r \in DOMAIN recs : /\ recs'[r].their = recs[r].their
                                  /\ recs'[r].state = "completed" => recs'[r] = recs[r],
           UNCHANGED <<setting, invitee, attached, cached, uncached>>, msgs' = msgs,
           \A u \in Tasks :
              \/ hand'[u].pc \notin {"find", "new", "save", "attach"} \/ hand'[u] = hand[u]
              \/ hand[u].pc = "find" /\ hand'[u].msg = hand[u].msg
    PROVE  Sound'
<1>1. MailState /\ InviteeState /\ AskedState /\ CacheState /\ CompletedIsKnown
  BY DEF Sound, InviteeInv
<1>2. InviteeState'
  BY <1>1, InviteesStay
<1>3. MailState'
  <2>1. ASSUME NEW n \in msgs PROVE MailOK(n)'
    BY <1>1, MessagesStay DEF invitee
  <2> QED BY <2>1 DEF MailState
<1>4. AskedState'
  BY <1>1 DEF AskedState
<1>5. CacheState'
  BY <1>1 DEF CacheState
<1>6. CompletedIsKnown'
  BY <1>1 DEF CompletedIsKnown, invitee
<1> QED BY <1>2, <1>3, <1>4, <1>5, <1>6 DEF Sound, InviteeInv

LEMMA FindInvitationSound ==
    ASSUME OneHandler, Typed, Sound, NEW t \in Tasks, FindInvitation(t)
    PROVE  Sound'
<1>1. InviterTyped /\ InviterInv
  BY DEF Sound, Typed
<1>2. InviterInv' /\ UNCHANGED <<setting, recs, attached, invitee, msgs, cached, uncached>>
  BY <1>1, FindInvitationInviter DEF FindInvitation
<1>3. Steady
  BY <1>2 DEF Steady
<1>4. \A u \in Tasks :
         \/ hand'[u] = hand[u] \/ hand'[u].pc = "idle"
         \/ hand[u].pc = "find" /\ hand'[u].msg = hand[u].msg
  <2>1. CASE hand' = [hand EXCEPT ![t] = Idle]
    BY <1>1, <2>1, IdleTyped DEF InviterTyped
  <2>2. CASE \E r \in Open : hand' = [hand EXCEPT ![t] = Found(t, r)]
    <3>1. PICK r \in Open : hand' = [hand EXCEPT ![t] = Found(t, r)]
      BY <2>2
    <3>2. PICK k : k = Found(t, r)
      OBVIOUS
    <3>3. k.msg = hand[t].msg /\ hand[t].pc = "find"
      BY <3>2, FoundTyped DEF FindInvitation
    <3> QED BY <1>1, <3>1, <3>2, <3>3 DEF InviterTyped
  <2> QED BY <2>1, <2>2 DEF FindInvitation, Found
<1> QED BY <1>2, <1>3, <1>4, QuietSound

LEMMA RejectRequestSound ==
    ASSUME OneHandler, Typed, Sound, NEW t \in Tasks, RejectRequest(t)
    PROVE  Sound'
<1>1. InviterTyped /\ InviterInv
  BY DEF Sound, Typed
<1>2. hand' = [hand EXCEPT ![t] = Idle] /\ UNCHANGED <<setting, recs, attached, invitee, msgs, cached, uncached>>
  BY DEF RejectRequest
<1>3. InviterInv'
  BY <1>1, <1>2, EndInviter
<1>4. Steady
  BY <1>2 DEF Steady
<1>5. \A u \in Tasks : hand'[u].pc \in {"find", "new", "save", "attach"} => hand'[u] = hand[u]
  BY <1>1, <1>2, IdleTyped DEF InviterTyped
<1> QED BY <1>2, <1>3, <1>4, <1>5, QuietSound

LEMMA SaveRequestSound ==
    ASSUME OneHandler, Typed, Sound, NEW t \in Tasks, SaveRequest(t)
    PROVE  Sound'
<1>1. InviterInv /\ MailState /\ InviteeState /\ AskedState /\ CacheState /\ CompletedIsKnown
      /\ InviterTyped
  BY DEF Sound, InviteeInv, Typed
<1>2. InviterInv' /\ Steady
  BY <1>1, SaveRequestInviter
<1>3. PICK h \in Hands : h = hand[t] /\ h.rec \in DOMAIN recs /\ DOMAIN recs' = DOMAIN recs
         /\ \A r \in DOMAIN recs : recs'[r] = IF r = h.rec THEN CopyToSave(h) ELSE recs[r]
  BY <1>1, SaveRequestInviter
<1>4. UNCHANGED <<setting, invitee, msgs, cached, uncached, attached>>
  BY DEF SaveRequest
<1>5. InviteeState'
  BY <1>1, <1>2, <1>4, InviteesStay
<1>6. MailState'
  <2>1. ASSUME NEW n \in msgs PROVE MailOK(n)'
    BY <1>1, <1>2, <1>4, MessagesStay DEF invitee
  <2> QED BY <1>4, <2>1 DEF MailState
<1>7. h.pc = "save" /\ h.msg \in Mail
  BY <1>1, <1>3 DEF SaveRequest, InviterTyped
<1>8. CopyToSave(h).state = "request" /\ CopyToSave(h).their = h.msg.who
  BY <1>7, CopyToSaveFacts
<1>9. \A u \in Tasks : hand'[u] = hand[u] \/ (u = t /\ hand'[u].msg = h.msg)
  <2>1. \E c : hand' = [hand EXCEPT ![t] = [h EXCEPT !.pc = "attach", !.copy = c]]
    BY <1>3 DEF SaveRequest
  <2> QED BY <1>1, <2>1 DEF InviterTyped, Hands
<1>10. AskedState'
  BY <1>1, <1>3, <1>4, <1>7, <1>9 DEF AskedState
<1>11. CacheState'
  BY <1>1, <1>3, <1>4, <1>7, <1>8, <1>9 DEF CacheState
<1>12. CompletedIsKnown'
  BY <1>1, <1>3, <1>4, <1>8 DEF CompletedIsKnown, invitee
<1> QED BY <1>2, <1>5, <1>6, <1>10, <1>11, <1>12 DEF Sound, InviteeInv

LEMMA AttachRequestSound ==
    ASSUME OneHandler, Typed, Sound, NEW t \in Tasks, AttachRequest(t)
    PROVE  Sound'
<1>1. InviterInv /\ MailState /\ InviteeState /\ AskedState /\ CacheState /\ CompletedIsKnown
      /\ InviterTyped
  BY DEF Sound, InviteeInv, Typed
<1>2. InviterInv'
  BY <1>1, AttachRequestInviter
<1>3. PICK h \in Hands : h = hand[t] /\ \A r \in DOMAIN recs :
                 \/ attached'[r] = attached[r]
                 \/ Len(attached'[r]) = 1 => attached'[r][1] = h.msg
  BY <1>1, AttachRequestInviter
<1>4. UNCHANGED <<setting, recs, invitee, msgs, cached, uncached>> /\ h.pc = "attach"
  BY <1>3 DEF AttachRequest
<1>5. Steady
  BY <1>4 DEF Steady
<1>6. InviteeState'
  BY <1>1, <1>4, <1>5, InviteesStay
<1>7. MailState'
  <2>1. ASSUME NEW n \in msgs PROVE MailOK(n)'
    BY <1>1, <1>4, <1>5, MessagesStay DEF invitee
  <2> QED BY <1>4, <2>1 DEF MailState
<1>8. \A u \in Tasks : hand'[u].pc \in {"find", "new", "save", "attach"} => hand'[u] = hand[u]
  <2>1. PICK k : k = (IF auto THEN [h EXCEPT !.pc = "respond"] ELSE Idle)
    OBVIOUS
  <2>2. k.pc \in {"respond", "idle"}
    BY <2>1, IdleTyped DEF Hands
  <2>3. hand' = [hand EXCEPT ![t] = k]
    BY <1>3, <2>1 DEF AttachRequest
  <2> QED BY <1>1, <2>2, <2>3 DEF InviterTyped
<1>9. AskedState'
  <2>1. DOMAIN attached' = DOMAIN recs /\ DOMAIN attached = DOMAIN recs
    BY <1>1 DEF AttachRequest, InviterTyped
  <2>2. h.msg.req # NoRequest
    BY <1>1, <1>3, <1>4 DEF AskedState
  <2> QED BY <1>1, <1>3, <1>8, <2>1, <2>2 DEF AskedState
<1>10. CacheState'
  BY <1>1, <1>4, <1>8 DEF CacheState
<1>11. CompletedIsKnown'
  BY <1>1, <1>4 DEF CompletedIsKnown, invitee
<1> QED BY <1>2, <1>6, <1>7, <1>9, <1>10, <1>11 DEF Sound, InviteeInv

LEMMA AcceptRequestSound ==
    ASSUME OneHandler, Typed, Sound, NEW t \in Tasks, NEW r \in DOMAIN recs, AcceptRequest(t, r)
    PROVE  Sound'
<1>1. InviterTyped /\ InviterInv
  BY DEF Sound, Typed
<1>2. InviterInv' /\ \E k : hand' = [hand EXCEPT ![t] = k] /\ k.pc = "respond"
  BY <1>1, AcceptRequestInviter
<1>3. UNCHANGED <<setting, recs, attached, invitee, msgs, cached, uncached>>
  BY DEF AcceptRequest
<1>4. Steady
  BY <1>3 DEF Steady
<1>5. \A u \in Tasks : hand'[u].pc \in {"find", "new", "save", "attach"} => hand'[u] = hand[u]
  BY <1>1, <1>2 DEF InviterTyped
<1> QED BY <1>2, <1>3, <1>4, <1>5, QuietSound

\* What was completed in the course of a step is its invitee's.
LEMMA AdvancedSound ==
    ASSUME OneHandler, Typed, Sound, Advanced,
           UNCHANGED <<setting, invitee, attached, uncached, hand>>, cached \subseteq cached',
           \A n \in msgs' : n \in msgs \/ MailOK(n)',
           \A r \in DOMAIN recs : recs'[r].state = "completed" =>
              recs[r].state = "completed" \/ recs[r].my \in accepted[recs[r].their]
    PROVE  Sound'
<1>1. InviterInv /\ MailState /\ InviteeState /\ AskedState /\ CacheState /\ CompletedIsKnown
      /\ InviterTyped
  BY DEF Sound, InviteeInv, Typed
<1>2. RecordState' /\ \A h \in Hands : h.rec \in DOMAIN recs /\ HandlerOK(h) => HandlerOK(h)'
  BY <1>1, AdvancedInviter DEF InviterInv
<1>3. HandlerState'
  <2>1. ASSUME NEW u \in Tasks PROVE HandlerOK(hand[u])'
    <3>1. PICK h \in Hands : h = hand[u] /\ HandlerOK(h) /\ h.rec \in DOMAIN recs
      BY <1>1 DEF InviterInv, HandlerState, InviterTyped
    <3>2. HandlerOK(h)' /\ h = hand'[u]
      BY <1>2, <3>1
    <3> QED BY <3>2, HandlerAfter
  <2> QED BY <2>1 DEF HandlerState
<1>4. Apart'
  BY <1>1 DEF InviterInv, Apart, serial
<1>5. Steady
  BY AdvancedIsSteady
<1>6. InviteeState'
  BY <1>1, <1>5, InviteesStay
<1>7. MailState'
  <2>1. ASSUME NEW n \in msgs PROVE MailOK(n)'
    BY <1>1, <1>5, MessagesStay DEF invitee
  <2> QED BY <2>1 DEF MailState
<1>8. AskedState'
  BY <1>1 DEF AskedState
<1>9. CacheState'
  BY <1>1 DEF CacheState, Advanced
<1>10. CompletedIsKnown'
  BY <1>1 DEF CompletedIsKnown, Advanced, invitee
<1> QED BY <1>2, <1>3, <1>4, <1>6, <1>7, <1>8, <1>9, <1>10 DEF Sound, InviterInv, InviteeInv

LEMMA CreateResponseSound ==
    ASSUME OneHandler, Typed, Sound, NEW t \in Tasks, CreateResponse(t)
    PROVE  Sound'
<1>1. InviterInv /\ MailState /\ InviteeState /\ AskedState /\ CacheState /\ CompletedIsKnown
      /\ InviterTyped
  BY DEF Sound, InviteeInv, Typed
<1>2. UNCHANGED <<setting, attached, invitee, cached, uncached>>
  BY DEF CreateResponse
<1>3. CASE hand' = [hand EXCEPT ![t] = Idle] /\ UNCHANGED <<recs, dids, msgs>>
  <2>1. InviterInv'
    BY <1>1, <1>2, <1>3, EndInviter
  <2>2. Steady
    BY <1>3 DEF Steady
  <2>3. \A u \in Tasks : hand'[u].pc \in {"find", "new", "save", "attach"} => hand'[u] = hand[u]
    BY <1>1, <1>3, IdleTyped DEF InviterTyped
  <2> QED BY <1>2, <1>3, <2>1, <2>2, <2>3, QuietSound
<1>4. CASE Responds(t)
  <2>1. /\ InviterInv' /\ Steady
        /\ \E k : hand' = [hand EXCEPT ![t] = k] /\ k.pc \in {"idle", "resave"}
    BY <1>1, <1>2, <1>4, CreateResponseInviter
  <2>2. PICK h \in Hands :
             /\ h = hand[t] /\ h.rec \in DOMAIN recs /\ h.rec \in DOMAIN attached
             /\ Len(attached[h.rec]) = 1 /\ attached[h.rec][1] \in Mail
             /\ msgs' = msgs \cup {Message("response", attached[h.rec][1].who, AnswerMy(h), attached[h.rec][1].req)}
             /\ DOMAIN recs' = DOMAIN recs
             /\ \A r \in DOMAIN recs : recs'[r] = IF r = h.rec THEN Answer(h) ELSE recs[r]
             /\ recs[h.rec].their = h.copy.their
             /\ attached[h.rec][1].who = h.copy.their
             /\ didx => attached[h.rec][1].req = h.copy.req
    BY <1>1, <1>2, <1>4, CreateResponseInviter
  <2>3. PICK c : /\ c = Answer(h) /\ c.state = "response" /\ c.my = AnswerMy(h) /\ c.my # 0 /\ c.my \in Nat
                 /\ c.their = h.copy.their /\ c.req = h.copy.req
    BY <1>1, AnswerFacts
  <2>4. PICK q \in Mail : q = attached[h.rec][1]
    BY <2>2
  <2>5. q.who = c.their /\ (didx => q.req = c.req) /\ q.req # NoRequest /\ q.who \in Invitees /\ q.req \in Requests
    BY <1>1, <2>2, <2>3, <2>4 DEF AskedState, Mail
  <2>6. PICK n : n = Message("response", q.who, c.my, q.req)
    OBVIOUS
  <2>7. n.kind = "response" /\ n.who = q.who /\ n.did = c.my /\ n.req = q.req
    BY <2>3, <2>5, <2>6, MessageTyped DEF Kinds
  <2>8. msgs' = msgs \cup {n}
    BY <2>2, <2>3, <2>4, <2>6
  <2>9. UNCHANGED didx
    BY <1>2 DEF didx
  <2>10. Kept(n.did, n.who, n.req)'
    <3>1. h.rec \in DOMAIN recs' /\ recs'[h.rec] = c
      BY <2>2, <2>3
    <3> QED BY <2>3, <2>5, <2>7, <2>9, <3>1 DEF Kept, Ready
  <2>11. MailOK(n)'
    BY <2>3, <2>5, <2>7, <2>10 DEF MailOK
  <2>12. MailState'
    <3>1. ASSUME NEW x \in msgs PROVE MailOK(x)'
      BY <1>1, <1>2, <2>1, MessagesStay DEF invitee
    <3> QED BY <2>8, <2>11, <3>1 DEF MailState
  <2>13. InviteeState'
    BY <1>1, <1>2, <2>1, InviteesStay
  <2>14. \A u \in Tasks : hand'[u].pc \in {"find", "new", "save", "attach"} => hand'[u] = hand[u]
    BY <1>1, <2>1 DEF InviterTyped
  <2>15. AskedState'
    BY <1>1, <1>2, <2>14 DEF AskedState
  <2>16. CacheState'
    BY <1>1, <1>2, <2>2, <2>3, <2>14 DEF CacheState
  <2>17. CompletedIsKnown'
    BY <1>1, <1>2, <2>2, <2>3 DEF CompletedIsKnown, invitee
  <2> QED BY <2>1, <2>12, <2>13, <2>15, <2>16, <2>17 DEF Sound, InviteeInv
<1> QED BY <1>3, <1>4, CreateResponseCases

LEMMA ResaveResponseSound ==
    ASSUME OneHandler, Typed, Sound, NEW t \in Tasks, ResaveResponse(t)
    PROVE  Sound'
<1>1. InviterTyped /\ InviterInv
  BY DEF Sound, Typed
<1>2. /\ InviterInv' /\ Steady /\ DOMAIN recs' = DOMAIN recs
      /\ \A r \in DOMAIN recs : CopyOf(recs'[r], r) /\ (recs'[r] = recs[r] \/ recs'[r].state = "response")
  BY <1>1, ResaveResponseInviter
<1>3. UNCHANGED <<setting, invitee, attached, cached, uncached>> /\ msgs' = msgs
  BY DEF ResaveResponse
<1>4. \A u \in Tasks : hand'[u].pc \in {"find", "new", "save", "attach"} => hand'[u] = hand[u]
  BY <1>1, IdleTyped DEF InviterTyped, ResaveResponse
<1>5. \A r \in DOMAIN recs : /\ recs'[r].their = recs[r].their
                             /\ recs'[r].state = "completed" => recs'[r] = recs[r]
  BY <1>2 DEF CopyOf
<1> QED BY <1>2, <1>3, <1>4, <1>5, QuietSound

LEMMA ReceiveCompleteSound ==
    ASSUME OneHandler, Typed, Sound, NEW m \in msgs, ReceiveComplete(m)
    PROVE  Sound'
<1>1. InviterTyped /\ MailOK(m) /\ m.kind = "complete"
  BY DEF Sound, InviteeInv, Typed, MailState, ReceiveComplete
<1>2. didx /\ m.req # NoRequest /\ m.did # 0 /\ m.did \in accepted[m.who] /\ Kept(m.did, m.who, m.req)
  BY <1>1 DEF MailOK
<1>3. msgs' \subseteq msgs /\ UNCHANGED <<setting, invitee, attached, uncached, hand>> /\ cached \subseteq cached'
  BY DEF ReceiveComplete, Delivered, FindInbound
<1>4. PICK r0 \in DOMAIN recs : recs[r0].my = m.did /\ recs[r0].their = m.who /\ recs[r0].req = m.req
  BY <1>2 DEF Kept
<1>5. recs' = recs \/ recs' = CompletedBy(m)
  BY DEF ReceiveComplete, CompletedBy, Asked
<1>6. CASE recs' = recs
  <2>1. Advanced
    BY <1>1, <1>6 DEF Advanced, InviterTyped
  <2> QED BY <1>3, <1>6, <2>1, AdvancedSound
<1>7. CASE recs' = CompletedBy(m)
  <2>1. /\ Advanced
        /\ \A r \in DOMAIN recs : recs'[r].state = "completed" =>
              \/ recs[r].state = "completed"
              \/ <<m.who, m.did>> \notin cached /\ r \in Matching(m.who, m.did)
              \/ Asked(m.req) = {r}
    BY <1>1, <1>2, <1>7, CompletedByAdvances
  <2>2. ASSUME NEW r \in DOMAIN recs, recs'[r].state = "completed", recs[r].state # "completed"
        PROVE  recs[r].my \in accepted[recs[r].their]
    <3>1. CASE r \in Matching(m.who, m.did)
      BY <1>2, <3>1 DEF Matching
    <3>2. CASE Asked(m.req) = {r}
      <4>1. r0 \in Asked(m.req)
        BY <1>4 DEF Asked
      <4>2. r0 = r
        BY <3>2, <4>1
      <4> QED BY <1>2, <1>4, <4>2
    <3> QED BY <2>1, <2>2, <3>1, <3>2
  <2> QED BY <1>3, <2>1, <2>2, AdvancedSound
<1> QED BY <1>5, <1>6, <1>7

LEMMA ReceivePingSound ==
    ASSUME OneHandler, Typed, Sound, NEW m \in msgs, ReceivePing(m)
    PROVE  Sound'
<1>1. InviterTyped /\ MailOK(m) /\ m.kind = "ping" /\ m \in Mail
  BY DEF Sound, InviteeInv, Typed, MailState, ReceivePing, CommonTyped
<1>2. m.did # 0 /\ m.did \in accepted[m.who]
  BY <1>1 DEF MailOK
<1>3. UNCHANGED <<setting, invitee, attached, uncached, hand>> /\ cached \subseteq cached'
  BY DEF ReceivePing, FindInbound
<1>4. PICK n : n = Message("ping_response", m.who, m.did, NoRequest)
  OBVIOUS
<1>5. n.kind = "ping_response"
  BY <1>4 DEF Message
<1>6. \A x \in msgs' : x \in msgs \/ MailOK(x)'
  <2>1. msgs' \subseteq msgs \cup {n}
    BY <1>4 DEF ReceivePing
  <2>2. MailOK(n)'
    BY <1>5 DEF MailOK
  <2> QED BY <2>1, <2>2
<1>7. recs' = recs \/ recs' = Promoted(m.who, m.did)
  BY DEF ReceivePing
<1>8. Advanced /\ \A r \in DOMAIN recs : recs'[r].state = "completed" =>
              recs[r].state = "completed" \/ r \in Matching(m.who, m.did)
  <2>1. CASE recs' = recs
    BY <1>1, <2>1 DEF Advanced, InviterTyped
  <2>2. CASE recs' = Promoted(m.who, m.did)
    BY <1>1, <2>2, PromotedAdvances
  <2> QED BY <1>7, <2>1, <2>2
<1>9. \A r \in DOMAIN recs : recs'[r].state = "completed" =>
              recs[r].state = "completed" \/ recs[r].my \in accepted[recs[r].their]
  BY <1>2, <1>8 DEF Matching
<1> QED BY <1>3, <1>6, <1>8, <1>9, AdvancedSound

\* The agent is started again, or its cache forgets.
LEMMA ExpireSound ==
    ASSUME OneHandler, Typed, Sound, NEW pair, Expire(pair)
    PROVE  Sound'
<1>1. InviterInv /\ MailState /\ InviteeState /\ AskedState
  BY DEF Sound, InviteeInv
<1>2. UNCHANGED <<setting, inviter, invitee, msgs>>
  BY DEF Expire
<1>3. RecordState' /\ Apart'
  BY <1>1, <1>2 DEF InviterInv, RecordState, Apart, inviter, didx, multi, serial
<1>4. HandlerState'
  BY <1>1, <1>2 DEF InviterInv, HandlerState, HandlerOK, inviter, didx, multi
<1>5. Steady
  BY <1>2 DEF Steady, inviter
<1>6. InviteeState'
  BY <1>1, <1>2, <1>5, InviteesStay
<1>7. MailState'
  <2>1. ASSUME NEW n \in msgs PROVE MailOK(n)'
    BY <1>1, <1>2, <1>5, MessagesStay DEF invitee
  <2> QED BY <1>2, <2>1 DEF MailState
<1>8. AskedState'
  BY <1>1, <1>2 DEF AskedState, inviter
<1>9. CacheState' /\ CompletedIsKnown'
  <2>1. UNCHANGED <<recs, hand, accepted>>
    BY <1>2 DEF inviter, invitee
  <2>2. /\ uncached \subseteq uncached'
        /\ \A i \in Invitees : <<i, 0>> \in cached /\ i \notin uncached' => <<i, 0>> \in cached'
    BY DEF Expire, Dropped
  <2>3. /\ \A r \in DOMAIN recs : recs[r].their \in Invitees \cup {0}
        /\ \A t \in Tasks : hand[t].pc \in {"find", "new", "save", "attach"} => hand[t].msg.who \in Invitees
    <3>1. \A r \in DOMAIN recs : recs[r] \in ConnRecs
      BY DEF Typed, InviterTyped
    <3>2. \A t \in Tasks : hand[t].pc \in {"find", "new", "save", "attach"} => hand[t].msg \in Mail
      BY DEF Typed, InviterTyped
    <3> QED BY <3>1, <3>2 DEF ConnRecs, Mail
  <2>4. CacheState /\ CompletedIsKnown
    BY DEF Sound
  <2>5. CacheState'
    BY <2>1, <2>2, <2>3, <2>4 DEF CacheState
  <2> QED BY <1>2, <2>1, <2>2, <2>4, <2>5 DEF CompletedIsKnown
<1> QED BY <1>3, <1>4, <1>6, <1>7, <1>8, <1>9 DEF Sound, InviterInv, InviteeInv

LEMMA RestartInviterSound ==
    ASSUME OneHandler, Typed, Sound, RestartInviter
    PROVE  Sound'
<1>1. InviterInv /\ MailState /\ InviteeState /\ AskedState
  BY DEF Sound, InviteeInv
<1>2. UNCHANGED <<setting, recs, attached, invitee, msgs>> /\ hand' = [t \in Tasks |-> Idle]
  BY DEF RestartInviter
<1>3. RecordState' /\ Apart'
  BY <1>1, <1>2, IdleTyped DEF InviterInv, RecordState, Apart, didx, multi, serial
<1>4. HandlerState'
  <2>1. ASSUME NEW u \in Tasks PROVE HandlerOK(hand[u])'
    <3>1. hand'[u] = Idle
      BY <1>2
    <3> QED BY <3>1, IdleOK, HandlerAfter
  <2> QED BY <2>1 DEF HandlerState
<1>5. Steady
  BY <1>2 DEF Steady
<1>6. InviteeState'
  BY <1>1, <1>2, <1>5, InviteesStay
<1>7. MailState'
  <2>1. ASSUME NEW n \in msgs PROVE MailOK(n)'
    BY <1>1, <1>2, <1>5, MessagesStay DEF invitee
  <2> QED BY <1>2, <2>1 DEF MailState
<1>8. AskedState'
  BY <1>1, <1>2, IdleTyped DEF AskedState
<1>9. CacheState' /\ CompletedIsKnown'
  <2>1. UNCHANGED <<recs, accepted>> /\ \A t \in Tasks : hand'[t].pc = "idle"
    BY <1>2, IdleTyped DEF invitee
  <2>2. uncached \subseteq uncached' /\ \A i \in Invitees : <<i, 0>> \in cached => i \in uncached'
    BY DEF RestartInviter, Dropped
  <2>3. \A r \in DOMAIN recs : recs[r].their \in Invitees \cup {0}
    <3>1. \A r \in DOMAIN recs : recs[r] \in ConnRecs
      BY DEF Typed, InviterTyped
    <3> QED BY <3>1 DEF ConnRecs
  <2>4. CacheState /\ CompletedIsKnown
    BY DEF Sound
  <2>5. CacheState'
    BY <2>1, <2>2, <2>3, <2>4 DEF CacheState
  <2> QED BY <1>2, <2>1, <2>2, <2>4, <2>5 DEF CompletedIsKnown
<1> QED BY <1>3, <1>4, <1>6, <1>7, <1>8, <1>9 DEF Sound, InviterInv, InviteeInv

-----------------------------------------------------------------------------
\* What the invitees' steps keep.

\* The inviter is where it was, and invitees forget nothing they have accepted.
LEMMA InviterRests ==
    ASSUME Typed, Sound, UNCHANGED <<setting, inviter, cached, uncached>>,
           \A i \in Invitees : accepted[i] \subseteq accepted'[i]
    PROVE  /\ InviterInv' /\ AskedState' /\ CacheState' /\ CompletedIsKnown'
           /\ \A m \in msgs : MailOK(m)'
           /\ \A did, i, req : Kept(did, i, req) => Kept(did, i, req)'
           /\ \A i \in Invitees : \A did : Known(i, did) => Known(i, did)'
<1>1. InviterInv /\ MailState /\ AskedState /\ CacheState /\ CompletedIsKnown
  BY DEF Sound, InviteeInv
<1>2. UNCHANGED <<didx, multi, serial, recs, attached, dids, hand>>
  BY DEF didx, multi, serial, inviter
<1>3. InviterInv'
  BY <1>1, <1>2 DEF InviterInv, RecordState, Apart, HandlerState, HandlerOK
<1>4. AskedState' /\ CacheState'
  BY <1>1, <1>2 DEF AskedState, CacheState
<1>5. CompletedIsKnown'
  <2>1. \A r \in DOMAIN recs : recs[r].state = "completed" => recs[r].their \in Invitees
    <3>1. \A r \in DOMAIN recs : recs[r] \in ConnRecs
      BY DEF Typed, InviterTyped
    <3>2. \A r \in DOMAIN recs : recs[r].their \in Invitees \cup {0}
      BY <3>1 DEF ConnRecs
    <3>3. \A r \in DOMAIN recs : recs[r].state = "completed" => recs[r].their # 0
      BY <1>1 DEF InviterInv, RecordState, Ready
    <3> QED BY <3>2, <3>3
  <2>2. UNCHANGED OneHandler
    BY DEF OneHandler, serial, multi, auto, didx
  <2> QED BY <1>1, <1>2, <2>1, <2>2 DEF CompletedIsKnown
<1>6. \A did, i, req : Kept(did, i, req) => Kept(did, i, req)'
  BY <1>2 DEF Kept
<1>7. ASSUME NEW m \in msgs PROVE MailOK(m)'
  <2>1. m.who \in Invitees
    BY DEF Typed, CommonTyped, Mail
  <2> QED BY <1>1, <1>2, <1>6, <2>1 DEF MailState, MailOK
<1>8. \A i \in Invitees : \A did : Known(i, did) => Known(i, did)'
  BY <1>6 DEF Known
<1> QED BY <1>3, <1>4, <1>5, <1>6, <1>7, <1>8

\* An invitee is as it should be after a step of its own, or of another.
LEMMA InviteeAfter ==
    ASSUME Typed, Sound, UNCHANGED <<setting, inviter, cached, uncached>>,
           \A j \in Invitees : accepted[j] \subseteq accepted'[j],
           NEW i \in Invitees, InviteeOK(i)',
           \A j \in Invitees \ {i} : inv'[j] = inv[j] /\ ask'[j] = ask[j] /\ take'[j] = take[j],
           \A n \in msgs' : n \in msgs \/ MailOK(n)'
    PROVE  Sound'
<1>1. /\ InviterInv' /\ AskedState' /\ CacheState' /\ CompletedIsKnown'
      /\ \A m \in msgs : MailOK(m)'
  BY InviterRests
<1>2. \A did, j, req : Kept(did, j, req) => Kept(did, j, req)'
  BY InviterRests
<1>3. \A j \in Invitees : \A did : Known(j, did) => Known(j, did)'
  BY InviterRests
<1>4. ASSUME NEW j \in Invitees \ {i} PROVE InviteeOK(j)'
  <2>1. PICK v, a, k : v = inv[j] /\ a = ask[j] /\ k = take[j]
    OBVIOUS
  <2>2. v = inv'[j] /\ a = ask'[j] /\ k = take'[j]
    BY <2>1
  <2>3. InviteeOK(j)
    BY DEF Sound, InviteeInv, InviteeState
  <2>4. Known(j, v.their)' /\ Known(j, a.copy.their)' /\ Known(j, k.copy.their)'
    BY <1>3, <2>1, <2>3 DEF InviteeOK
  <2>5. k.pc = "save" => Kept(k.msg.did, j, k.msg.req)'
    BY <1>2, <2>1, <2>3 DEF InviteeOK
  <2> QED BY <2>1, <2>2, <2>3, <2>4, <2>5 DEF InviteeOK, Known, Kept
<1>5. InviteeState'
  BY <1>4 DEF InviteeState
<1>6. MailState'
  BY <1>1 DEF MailState
<1> QED BY <1>1, <1>5, <1>6 DEF Sound, InviteeInv

LEMMA AcceptInvitationSound ==
    ASSUME Typed, Sound, NEW i \in Invitees, AcceptInvitation(i)
    PROVE  Sound'
<1>1. UNCHANGED <<setting, inviter, inv, asks, take, accepted, msgs, cached, uncached>>
      /\ ask' = [ask EXCEPT ![i] = [pc |-> "save", copy |-> inv[i]]]
  BY DEF AcceptInvitation
<1>2. ask'[i].pc = "save" /\ ask'[i].copy = inv[i] /\ \A j \in Invitees \ {i} : ask'[j] = ask[j]
  BY <1>1 DEF Typed, InviteeTyped
<1>3. InviteeOK(i)
  BY DEF Sound, InviteeInv, InviteeState
<1>4. InviteeOK(i)'
  BY <1>1, <1>2, <1>3 DEF InviteeOK, Known, Kept, inviter, didx
<1> QED BY <1>1, <1>2, <1>4, InviteeAfter

LEMMA CreateRequestSound ==
    ASSUME Typed, Sound, NEW i \in Invitees, CreateRequest(i)
    PROVE  Sound'
<1>1. InviteeOK(i) /\ InviteeTyped /\ ask[i].pc = "save"
  BY DEF Sound, InviteeInv, InviteeState, Typed, CreateRequest
<1>2. PICK c : /\ c = Requested(i) /\ c.state = "request" /\ c.their = ask[i].copy.their
               /\ c.req \in Requests /\ c.req # NoRequest
  BY <1>1, RequestedFacts
<1>3. /\ inv' = [inv EXCEPT ![i] = c]
      /\ msgs' = msgs \cup {Message("request", i, 0, c.req)}
      /\ ask' = [ask EXCEPT ![i] =
            IF didx /\ auto /\ asks[i] = 0 THEN [pc |-> "resave", copy |-> c] ELSE NotAsking]
      /\ UNCHANGED <<setting, inviter, take, accepted, cached, uncached>>
  BY <1>2 DEF CreateRequest, Requested
<1>4. inv'[i] = c /\ \A j \in Invitees \ {i} : inv'[j] = inv[j] /\ ask'[j] = ask[j]
  BY <1>1, <1>3 DEF InviteeTyped
<1>5. ask'[i] = [pc |-> "resave", copy |-> c] \/ ask'[i] = NotAsking
  BY <1>1, <1>3 DEF InviteeTyped
<1>6. PICK n : n = Message("request", i, 0, c.req)
  OBVIOUS
<1>7. n.kind = "request" /\ n.req # NoRequest
  BY <1>2, <1>6 DEF Message
<1>8. MailOK(n)'
  BY <1>7 DEF MailOK
<1>9. Known(i, c.their)' /\ Known(i, 0)' /\ Known(i, take[i].copy.their)'
  BY <1>1, <1>2, <1>3 DEF InviteeOK, Known, Kept, inviter, didx
<1>10. ask'[i].copy.their \in {c.their, 0} /\ (ask'[i].pc = "resave" => ask'[i].copy.state = "request")
  BY <1>2, <1>5, NotAskingTyped
<1>11. Known(i, inv[i].their)' /\ Known(i, ask[i].copy.their)' /\ Known(i, take[i].copy.their)'
  BY <1>3, <1>4, <1>9, <1>10 DEF Known
<1>12. InviteeOK(i)'
  BY <1>1, <1>2, <1>3, <1>4, <1>10, <1>11 DEF InviteeOK, Known, Kept, inviter, didx
<1> QED BY <1>3, <1>4, <1>6, <1>8, <1>12, InviteeAfter

LEMMA ResaveRequestSound ==
    ASSUME Typed, Sound, NEW i \in Invitees, ResaveRequest(i)
    PROVE  Sound'
<1>1. InviteeOK(i) /\ InviteeTyped /\ ask[i].pc = "resave"
  BY DEF Sound, InviteeInv, InviteeState, Typed, ResaveRequest
<1>2. inv' = [inv EXCEPT ![i] = ask[i].copy] /\ ask' = [ask EXCEPT ![i] = NotAsking]
      /\ UNCHANGED <<setting, inviter, take, accepted, msgs, cached, uncached>>
  BY DEF ResaveRequest
<1>3. inv'[i] = ask[i].copy /\ ask'[i] = NotAsking
      /\ \A j \in Invitees \ {i} : inv'[j] = inv[j] /\ ask'[j] = ask[j]
  BY <1>1, <1>2 DEF InviteeTyped
<1>4. InviteeOK(i)'
  BY <1>1, <1>2, <1>3, NotAskingTyped DEF InviteeOK, Known, Kept, inviter, didx
<1> QED BY <1>2, <1>3, <1>4, InviteeAfter

LEMMA ReceiveResponseSound ==
    ASSUME Typed, Sound, NEW m \in msgs, ReceiveResponse(m)
    PROVE  Sound'
<1>1. InviteeTyped /\ m \in Mail /\ MailOK(m) /\ m.kind = "response"
  BY DEF Sound, InviteeInv, MailState, Typed, CommonTyped, ReceiveResponse
<1>2. PICK i \in Invitees : i = m.who
  BY <1>1 DEF Mail
<1>3. InviteeOK(i)
  BY DEF Sound, InviteeInv, InviteeState
<1>4. PICK c : /\ c = Answered(i, m.did) /\ c.their = inv[i].their
               /\ c.state \in {inv[i].state, "completed"}
  BY <1>1, AnsweredFacts
<1>5. PICK k : k = [pc |-> "save", copy |-> c, msg |-> m]
  OBVIOUS
<1>6. k.pc = "save" /\ k.copy = c /\ k.msg = m
  BY <1>5
<1>7. /\ inv' = [inv EXCEPT ![i] = c]
      /\ take' = take \/ take' = [take EXCEPT ![i] = k]
      /\ UNCHANGED <<setting, inviter, ask, accepted, cached, uncached>> /\ msgs' \subseteq msgs
  BY <1>2, <1>4, <1>5 DEF ReceiveResponse, Delivered
<1>8. inv'[i] = c /\ (take'[i] = take[i] \/ take'[i] = k)
      /\ \A j \in Invitees \ {i} : inv'[j] = inv[j] /\ take'[j] = take[j]
  BY <1>1, <1>7 DEF InviteeTyped
<1>9. Known(i, c.their) /\ (c.state = "response" => c.their # 0)
  BY <1>3, <1>4 DEF InviteeOK
<1>10. m.did # 0 /\ m.req # NoRequest /\ Kept(m.did, i, m.req)
  BY <1>1, <1>2 DEF MailOK
<1>11. \A did, req : Kept(did, i, req) => Kept(did, i, req)'
  BY <1>7 DEF Kept, inviter, didx
<1>12. \A did : Known(i, did) => Known(i, did)'
  BY <1>7, <1>11 DEF Known
<1>13. CASE take'[i] = take[i]
  <2>1. InviteeOK(i)'
    BY <1>3, <1>7, <1>8, <1>9, <1>13 DEF InviteeOK, Known, Kept, inviter, didx
  <2> QED BY <1>7, <1>8, <2>1, InviteeAfter
<1>14. CASE take'[i] = k
  <2>1. Known(i, c.their)' /\ Kept(m.did, i, m.req)' /\ Known(i, ask[i].copy.their)'
    BY <1>3, <1>7, <1>9, <1>10, <1>11, <1>12 DEF InviteeOK, Known, Kept, inviter, didx
  <2>2. InviteeOK(i)'
    BY <1>1, <1>2, <1>3, <1>6, <1>7, <1>8, <1>9, <1>10, <1>14, <2>1 DEF InviteeOK, Known, Kept, inviter, didx
  <2> QED BY <1>7, <1>8, <2>2, InviteeAfter
<1> QED BY <1>8, <1>13, <1>14

LEMMA SaveResponseSound ==
    ASSUME Typed, Sound, NEW i \in Invitees, SaveResponse(i)
    PROVE  Sound'
<1>1. InviteeTyped /\ InviteeOK(i) /\ take[i].pc = "save"
  BY DEF Sound, InviteeInv, InviteeState, Typed, SaveResponse
<1>2. PICK g \in Taking : g = take[i]
  BY <1>1 DEF InviteeTyped
<1>3. PICK m \in Mail : m = g.msg /\ m.did # 0 /\ m.req # NoRequest /\ Kept(m.did, i, m.req)
  BY <1>1, <1>2 DEF InviteeOK
<1>4. PICK c : c = [g.copy EXCEPT !.state = "response", !.their = m.did]
  OBVIOUS
<1>5. c.state = "response" /\ c.their = m.did
  <2>1. g.copy \in InvRecs
    BY DEF Taking
  <2> QED BY <1>4, <2>1 DEF InvRecs
<1>6. PICK k : k = [g EXCEPT !.pc = "complete", !.copy = c]
  OBVIOUS
<1>7. k.pc = "complete" /\ k.copy = c
  BY <1>6 DEF Taking
<1>8. PICK n : n = Message("complete", i, m.did, m.req)
  OBVIOUS
<1>9. /\ inv' = [inv EXCEPT ![i] = c]
      /\ accepted' = [accepted EXCEPT ![i] = @ \cup {m.did}]
      /\ \/ didx /\ msgs' = msgs \cup {n} /\ take' = [take EXCEPT ![i] = k]
         \/ take' = [take EXCEPT ![i] = NotTaking] /\ msgs' = msgs
      /\ UNCHANGED <<setting, inviter, asks, ask, cached, uncached>>
  BY <1>2, <1>3, <1>4, <1>6, <1>8 DEF SaveResponse
<1>10. /\ inv'[i] = c /\ (take'[i] = k \/ take'[i] = NotTaking)
       /\ \A j \in Invitees \ {i} : inv'[j] = inv[j] /\ take'[j] = take[j] /\ accepted'[j] = accepted[j]
       /\ accepted'[i] = accepted[i] \cup {m.did}
  BY <1>1, <1>9 DEF InviteeTyped
<1>11. \A did, req : Kept(did, i, req) => Kept(did, i, req)'
  BY <1>9 DEF Kept, inviter, didx
<1>12. \A did : Known(i, did) => Known(i, did)'
  BY <1>10, <1>11 DEF Known
<1>13. Known(i, m.did)' /\ Known(i, 0)' /\ Known(i, ask[i].copy.their)' /\ ask' = ask
  <2>1. m.req \in Requests
    BY DEF Mail
  <2>2. Known(i, m.did)'
    BY <1>3, <1>10, <1>11, <2>1 DEF Known
  <2>3. Known(i, ask[i].copy.their)' /\ ask' = ask
    BY <1>1, <1>9, <1>12 DEF InviteeOK, Known
  <2> QED BY <2>2, <2>3 DEF Known
<1>14. take'[i].pc \in {"complete", "idle"} /\ take'[i].copy.their \in {m.did, 0}
  BY <1>5, <1>7, <1>10, NotAskingTyped
<1>15. Known(i, inv[i].their)' /\ Known(i, ask[i].copy.their)' /\ Known(i, take[i].copy.their)'
  BY <1>5, <1>10, <1>13, <1>14 DEF Known
<1>16. InviteeOK(i)'
  BY <1>1, <1>3, <1>5, <1>10, <1>13, <1>14, <1>15 DEF InviteeOK
<1>17. \A x \in msgs' : x \in msgs \/ MailOK(x)'
  <2>1. CASE msgs' = msgs
    BY <2>1
  <2>2. CASE didx /\ msgs' = msgs \cup {n}
    <3>1. n.kind = "complete" /\ n.who = i /\ n.did = m.did /\ n.req = m.req
      BY <1>8 DEF Message
    <3>2. Kept(n.did, n.who, n.req)' /\ didx'
      BY <1>3, <1>9, <1>11, <2>2, <3>1 DEF didx
    <3>3. MailOK(n)'
      BY <1>3, <1>10, <3>1, <3>2 DEF MailOK
    <3> QED BY <2>2, <3>3
  <2> QED BY <1>9, <2>1, <2>2
<1>18. \A j \in Invitees : accepted[j] \subseteq accepted'[j]
  BY <1>10
<1> QED BY <1>9, <1>10, <1>16, <1>17, <1>18, InviteeAfter

LEMMA SaveCompleteSound ==
    ASSUME Typed, Sound, NEW i \in Invitees, SaveComplete(i)
    PROVE  Sound'
<1>1. InviteeOK(i) /\ InviteeTyped
  BY DEF Sound, InviteeInv, InviteeState, Typed
<1>2. PICK c \in InvRecs : c = take[i].copy
  BY <1>1 DEF InviteeTyped, Taking
<1>3. PICK d : d = [c EXCEPT !.state = "completed"]
  OBVIOUS
<1>4. inv' = [inv EXCEPT ![i] = d] /\ take' = [take EXCEPT ![i] = NotTaking]
      /\ UNCHANGED <<setting, inviter, ask, accepted, msgs, cached, uncached>>
  BY <1>2, <1>3 DEF SaveComplete
<1>5. inv'[i] = d /\ take'[i] = NotTaking
      /\ \A j \in Invitees \ {i} : inv'[j] = inv[j] /\ take'[j] = take[j]
  BY <1>1, <1>4 DEF InviteeTyped
<1>6. d.state = "completed" /\ d.their = c.their
  BY <1>3 DEF InvRecs
<1>7. InviteeOK(i)'
  BY <1>1, <1>2, <1>4, <1>5, <1>6, NotAskingTyped DEF InviteeOK, Known, Kept, inviter, didx
<1> QED BY <1>4, <1>5, <1>7, InviteeAfter

LEMMA SendPingSound ==
    ASSUME Typed, Sound, NEW i \in Invitees, SendPing(i)
    PROVE  Sound'
<1>1. InviteeOK(i) /\ inv[i].state = "response"
  BY DEF Sound, InviteeInv, InviteeState, SendPing
<1>2. PICK n : n = Message("ping", i, inv[i].their, NoRequest)
  OBVIOUS
<1>3. n.kind = "ping" /\ n.who = i /\ n.did = inv[i].their
  BY <1>2 DEF Message
<1>4. n.did # 0 /\ n.did \in accepted[i]
  BY <1>1, <1>3 DEF InviteeOK, Known
<1>5. UNCHANGED <<setting, inviter, invitee, cached, uncached>> /\ msgs' = {n} \cup msgs
  BY <1>2 DEF SendPing
<1>6. MailOK(n)'
  BY <1>3, <1>4, <1>5 DEF MailOK, invitee
<1>7. InviteeOK(i)'
  BY <1>1, <1>5 DEF InviteeOK, Known, Kept, inviter, invitee, didx
<1> QED BY <1>5, <1>6, <1>7, InviteeAfter DEF invitee

LEMMA ReceivePingResponseSound ==
    ASSUME Typed, Sound, NEW m \in msgs, ReceivePingResponse(m)
    PROVE  Sound'
<1>1. InviteeTyped /\ m \in Mail
  BY DEF Typed, CommonTyped
<1>2. PICK i \in Invitees : i = m.who
  BY <1>1 DEF Mail
<1>3. InviteeOK(i)
  BY DEF Sound, InviteeInv, InviteeState
<1>4. PICK c : /\ c = Answered(i, m.did) /\ c.their = inv[i].their
               /\ c.state \in {inv[i].state, "completed"}
  BY <1>1, AnsweredFacts
<1>5. inv' = [inv EXCEPT ![i] = c] /\ msgs' \subseteq msgs
      /\ UNCHANGED <<setting, inviter, ask, take, accepted, cached, uncached>>
  BY <1>2, <1>4 DEF ReceivePingResponse
<1>6. inv'[i] = c /\ \A j \in Invitees \ {i} : inv'[j] = inv[j]
  BY <1>1, <1>5 DEF InviteeTyped
<1>7. InviteeOK(i)'
  BY <1>3, <1>4, <1>5, <1>6 DEF InviteeOK, Known, Kept, inviter, didx
<1> QED BY <1>5, <1>6, <1>7, InviteeAfter

LEMMA RestartInviteeSound ==
    ASSUME Typed, Sound, NEW i \in Invitees, RestartInvitee(i)
    PROVE  Sound'
<1>1. InviteeOK(i) /\ InviteeTyped
  BY DEF Sound, InviteeInv, InviteeState, Typed
<1>2. ask' = [ask EXCEPT ![i] = NotAsking] /\ take' = [take EXCEPT ![i] = NotTaking]
      /\ UNCHANGED <<setting, inviter, inv, accepted, msgs, cached, uncached>>
  BY DEF RestartInvitee
<1>3. ask'[i] = NotAsking /\ take'[i] = NotTaking
      /\ \A j \in Invitees \ {i} : ask'[j] = ask[j] /\ take'[j] = take[j]
  BY <1>1, <1>2 DEF InviteeTyped
<1>4. InviteeOK(i)'
  BY <1>1, <1>2, <1>3, NotAskingTyped DEF InviteeOK, Known, Kept, inviter, didx
<1> QED BY <1>2, <1>3, <1>4, InviteeAfter

\* A message is lost, or nothing happens.
LEMMA LoseSound ==
    ASSUME Typed, Sound, UNCHANGED <<setting, inviter, invitee, cached, uncached>>, msgs' \subseteq msgs
    PROVE  Sound'
<1>1. /\ InviterInv' /\ AskedState' /\ CacheState' /\ CompletedIsKnown'
      /\ \A m \in msgs : MailOK(m)'
      /\ \A i \in Invitees : \A did : Known(i, did) => Known(i, did)'
  BY InviterRests DEF invitee
<1>2. MailState'
  BY <1>1 DEF MailState
<1>3. ASSUME NEW i \in Invitees PROVE InviteeOK(i)'
  <2>1. InviteeOK(i)
    BY DEF Sound, InviteeInv, InviteeState
  <2> QED BY <2>1 DEF InviteeOK, Known, Kept, inviter, invitee, didx
<1>4. InviteeState'
  BY <1>3 DEF InviteeState
<1> QED BY <1>1, <1>2, <1>4 DEF Sound, InviteeInv

-----------------------------------------------------------------------------
\* The invariant.

\* Every handler is idle, no message is under way and nobody was answered.
LEMMA InitSound == Init => Sound
<1> SUFFICES ASSUME Init PROVE Sound
  OBVIOUS
<1>1. Len(recs) = 1 /\ DOMAIN recs = {1} /\ recs[1] = Invitation
      /\ DOMAIN attached = {1} /\ attached[1] = <<>> /\ Len(attached[1]) = 0
  BY DEF Init
<1>2. Invitation.state = "invitation" /\ Invitation.their = 0 /\ Invitation.req = NoRequest
  BY DEF Invitation, ConnRecord
<1>3. \A t \in Tasks : hand[t].pc = "idle"
  BY IdleTyped DEF Init
<1>4. RecordState
  BY <1>1, <1>2 DEF RecordState, Ready
<1>5. HandlerState /\ Apart
  BY <1>3 DEF HandlerState, HandlerOK, Apart, Working
<1>6. MailState
  BY DEF Init, MailState
<1>7. InviteeState
  BY NotAskingTyped DEF Init, InviteeState, InviteeOK, Known, Invited
<1>8. AskedState /\ CacheState /\ CompletedIsKnown
  BY <1>1, <1>2, <1>3 DEF AskedState, CacheState, CompletedIsKnown
<1> QED BY <1>4, <1>5, <1>6, <1>7, <1>8 DEF Sound, InviterInv, InviteeInv

\* Types, put together.
LEMMA NextTyped == ASSUME Typed, [Next]_vars PROVE Typed'
  BY ReceiveRequestTyped, ReceiveCompleteTyped, ReceivePingTyped, ReceiveResponseTyped,
     ReceivePingResponseTyped, LoseTyped, FindInvitationTyped, NewRecordTyped, RejectRequestTyped, SaveRequestTyped,
     AttachRequestTyped, AcceptRequestTyped, CreateResponseTyped, ResaveResponseTyped,
     AcceptInvitationTyped, CreateRequestTyped, ResaveRequestTyped, SaveResponseTyped,
     SaveCompleteTyped, SendPingTyped, RestartInviteeTyped, ExpireTyped, RestartInviterTyped,
     StutterTyped DEF Next

\* The rest, put together.
LEMMA NextSound == ASSUME OneHandler, Typed, Sound, [Next]_vars PROVE Sound'
<1>1. ASSUME NEW m \in msgs,
             \/ \E t \in Tasks : ReceiveRequest(t, m)
             \/ ReceiveComplete(m) \/ ReceivePing(m)
             \/ ReceiveResponse(m) \/ ReceivePingResponse(m)
             \/ Lose(m)
      PROVE  Sound'
  <2>1. CASE Lose(m)
    BY <2>1, LoseSound DEF Lose
  <2> QED BY <1>1, <2>1, ReceiveRequestSound, ReceiveCompleteSound, ReceivePingSound,
             ReceiveResponseSound, ReceivePingResponseSound
<1>2. ASSUME NEW t \in Tasks,
             \/ FindInvitation(t) \/ NewRecord(t) \/ RejectRequest(t)
             \/ SaveRequest(t) \/ AttachRequest(t)
             \/ \E r \in DOMAIN recs : AcceptRequest(t, r)
             \/ CreateResponse(t) \/ ResaveResponse(t)
      PROVE  Sound'
  BY <1>2, FindInvitationSound, NewRecordSound, RejectRequestSound, SaveRequestSound, AttachRequestSound,
     AcceptRequestSound, CreateResponseSound, ResaveResponseSound
<1>3. ASSUME NEW i \in Invitees,
             \/ AcceptInvitation(i) \/ CreateRequest(i) \/ ResaveRequest(i)
             \/ SaveResponse(i) \/ SaveComplete(i)
             \/ SendPing(i) \/ RestartInvitee(i)
      PROVE  Sound'
  BY <1>3, AcceptInvitationSound, CreateRequestSound, ResaveRequestSound, SaveResponseSound,
     SaveCompleteSound, SendPingSound, RestartInviteeSound
<1>4. ASSUME NEW pair \in cached, Expire(pair) PROVE Sound'
  BY <1>4, ExpireSound
<1>5. CASE RestartInviter
  BY <1>5, RestartInviterSound
<1>6. CASE UNCHANGED vars
  BY <1>6, LoseSound DEF vars
<1> QED BY <1>1, <1>2, <1>3, <1>4, <1>5, <1>6 DEF Next

\* The setting, and so what the agents are like, never changes.
LEMMA SettingStays == ASSUME [Next]_vars PROVE UNCHANGED setting
  BY DEF Next, vars, ReceiveRequest, ReceiveComplete, ReceivePing, ReceiveResponse, ReceivePingResponse,
     Lose, FindInvitation, NewRecord, RejectRequest, SaveRequest, AttachRequest, AcceptRequest, CreateResponse,
     ResaveResponse, AcceptInvitation, CreateRequest, ResaveRequest, SaveResponse, SaveComplete,
     SendPing, RestartInvitee, Expire, RestartInviter

\* ConnInv is an invariant of every behaviour.
LEMMA ConnInvariance == Spec => []ConnInv
<1>1. Init => ConnInv
  BY InitTyped, InitSound DEF ConnInv
<1>2. ConnInv /\ [Next]_vars => ConnInv'
  <2> SUFFICES ASSUME ConnInv, [Next]_vars PROVE ConnInv'
    OBVIOUS
  <2>1. Typed'
    BY NextTyped DEF ConnInv
  <2>2. OneHandler' = OneHandler
    BY SettingStays DEF OneHandler, serial, multi, auto, didx
  <2>3. ASSUME OneHandler PROVE Sound'
    BY <2>3, NextSound DEF ConnInv
  <2> QED BY <2>1, <2>2, <2>3 DEF ConnInv
<1> QED BY <1>1, <1>2, PTL DEF Spec

\* Whoever holds a DID of the inviter has a connection with it there
\* (create_response sends the DID its record has, connections/v1_0/manager.py
\* 640-729): what is lost, comes twice, or is saved late in other records does not
\* separate the two.
THEOREM HoldersAgree == Spec => []Agreement
<1>1. ConnInv => Agreement
  <2> SUFFICES ASSUME ConnInv, OneHandler, NEW i \in Invitees, inv[i].their # 0 PROVE Agreed(i)
    BY DEF Agreement
  <2>1. Known(i, inv[i].their)
    BY DEF ConnInv, Sound, InviteeInv, InviteeState, InviteeOK
  <2>2. PICK req : Kept(inv[i].their, i, req)
    BY <2>1 DEF Known
  <2> QED BY <2>2 DEF Kept, Agreed
<1> QED BY <1>1, ConnInvariance, PTL

\* In settings where no two handlers overlap in one record (OneHandler): the inviter
\* completes a connection only when its invitee has accepted the DID it has there
\* (connections/v1_0/manager.py 943-1018, didexchange/v1_0/manager.py 728-744), save
\* for invitees whose first lookup was not cached or whose cached lookup is gone.
THEOREM CompletedIsAccepted == Spec => []CompletedIsKnown
<1>1. ConnInv => CompletedIsKnown
  BY DEF ConnInv, Sound, CompletedIsKnown
<1> QED BY <1>1, ConnInvariance, PTL

-----------------------------------------------------------------------------
\* The inviter's DIDs: each belongs to one record, in every setting.

\* The DIDs of record r, those of the copies of it that handlers carry included.
DidsOf(r) ==
    ({recs[r].my} \cup {hand[t].copy.my : t \in {u \in Tasks : hand[u].rec = r}}) \ {0}

\* None has two records, and none is used before it is made.
OneRecordEach ==
    \A r, q \in DOMAIN recs :
        \A did \in DidsOf(r) : did <= dids /\ (did \in DidsOf(q) => r = q)

\* Nor do messages or invitees know one that is not made yet.
NoneUnmade ==
    /\ \A m \in msgs : m.did <= dids /\ (m.kind = "response" => m.did # 0)
    /\ \A i \in Invitees :
          /\ inv[i].their <= dids /\ ask[i].copy.their <= dids /\ take[i].copy.their <= dids
          /\ take[i].pc = "save" => take[i].msg.did \in 1..dids
          /\ accepted[i] \subseteq 1..dids

\* did is known to i, or on its way to it.
Heard(i, did) ==
    /\ did # 0
    /\ \/ \E m \in msgs : m.who = i /\ m.did = did
       \/ did \in {inv[i].their, ask[i].copy.their, take[i].copy.their}
       \/ take[i].pc = "save" /\ take[i].msg.did = did

\* No two invitees hear of one, and one that a record still has was told to whoever
\* made the first request attached to the record.
OneHolderEach ==
    /\ \A i, j \in Invitees : \A did : Heard(i, did) /\ Heard(j, did) => i = j
    /\ \A r \in DOMAIN recs : \A i \in Invitees : \A did \in DidsOf(r) :
          Heard(i, did) => Len(attached[r]) # 0 /\ attached[r][1].who = i

DidsInv == OneRecordEach /\ NoneUnmade /\ OneHolderEach

\* i may hold did after a step of its own.
MayHold(i, did) == did = 0 \/ Heard(i, did)

\* The first request attached to a record remains the first.
FirstStays ==
    \A r \in DOMAIN recs :
        Len(attached[r]) # 0 => Len(attached'[r]) # 0 /\ attached'[r][1] = attached[r][1]

\* did may be of record r after a step: it was before, or it was made for record n.
MayBeOf(did, r, n) ==
    \/ did = 0
    \/ r \in DOMAIN recs /\ did \in DidsOf(r)
    \/ r = n /\ did = dids + 1 /\ dids' = dids + 1

\* What records and handlers have is theirs.
LEMMA DidsOfFacts ==
    ASSUME InviterTyped
    PROVE  /\ dids \in Nat
           /\ \A r \in DOMAIN recs : recs[r].my \in Nat /\ \A n : MayBeOf(recs[r].my, r, n)
           /\ \A t \in Tasks :
                 /\ hand[t] \in Hands /\ hand[t].rec \in DOMAIN recs /\ hand[t].copy.my \in Nat
                 /\ \A n : MayBeOf(hand[t].copy.my, hand[t].rec, n)
<1>1. dids \in Nat /\ hand \in [Tasks -> Hands] /\ recs \in Seq(ConnRecs)
      /\ \A t \in Tasks : hand[t].rec \in DOMAIN recs
  BY DEF InviterTyped
<1>2. ASSUME NEW r \in DOMAIN recs PROVE recs[r].my \in Nat /\ \A n : MayBeOf(recs[r].my, r, n)
  <2>1. PICK c \in ConnRecs : c = recs[r]
    BY <1>1
  <2>2. c.my \in Nat
    BY DEF ConnRecs
  <2> QED BY <1>2, <2>1, <2>2 DEF MayBeOf, DidsOf
<1>3. ASSUME NEW t \in Tasks
      PROVE  /\ hand[t] \in Hands /\ hand[t].copy.my \in Nat
             /\ \A n : MayBeOf(hand[t].copy.my, hand[t].rec, n)
  <2>1. PICK h \in Hands : h = hand[t]
    BY <1>1
  <2>2. h.copy.my \in Nat
    BY DEF Hands, ConnRecs
  <2> QED BY <1>1, <2>1, <2>2 DEF MayBeOf, DidsOf
<1> QED BY <1>1, <1>2, <1>3

\* If at most one DID is made, and for one record, DIDs keep having one record each.
LEMMA OneRecordEachAfter ==
    ASSUME InviterTyped, OneRecordEach, dids' \in Nat, dids' >= dids, NEW n,
           n \in DOMAIN recs \/ n \notin DOMAIN recs,
           \A r \in DOMAIN recs' : MayBeOf(recs'[r].my, r, n),
           \A t \in Tasks : MayBeOf(hand'[t].copy.my, hand'[t].rec, n)
    PROVE  OneRecordEach'
<1> SUFFICES ASSUME NEW r \in DOMAIN recs', NEW q \in DOMAIN recs', NEW did \in DidsOf(r)'
             PROVE  did <= dids' /\ (did \in DidsOf(q)' => r = q)
  BY DEF OneRecordEach
<1>1. dids \in Nat /\ \A p \in DOMAIN recs : \A d \in DidsOf(p) : d <= dids
  BY DidsOfFacts DEF OneRecordEach
<1>2. ASSUME NEW p \in DOMAIN recs', NEW d \in DidsOf(p)' PROVE d # 0 /\ MayBeOf(d, p, n)
  BY <1>2 DEF DidsOf
<1>3. did # 0 /\ MayBeOf(did, r, n)
  BY <1>2
<1>4. did <= dids'
  <2>1. CASE r \in DOMAIN recs /\ did \in DidsOf(r)
    <3>1. did <= dids
      BY <1>1, <2>1
    <3>2. did \in Nat
      BY <2>1, DidsOfFacts DEF DidsOf
    <3> QED BY <1>1, <3>1, <3>2
  <2>2. CASE did = dids + 1 /\ dids' = dids + 1
    BY <1>1, <2>2
  <2> QED BY <1>3, <2>1, <2>2 DEF MayBeOf
<1>5. ASSUME did \in DidsOf(q)' PROVE r = q
  <2>1. MayBeOf(did, q, n)
    BY <1>2, <1>5
  <2>2. CASE r \in DOMAIN recs /\ did \in DidsOf(r) /\ q \in DOMAIN recs /\ did \in DidsOf(q)
    BY <2>2 DEF OneRecordEach
  <2>3. CASE r = n /\ q = n
    BY <2>3
  <2>4. \A p \in DOMAIN recs : did \in DidsOf(p) => did # dids + 1
    BY <1>1
  <2> QED BY <1>3, <2>1, <2>2, <2>3, <2>4 DEF MayBeOf
<1> QED BY <1>4, <1>5

\* Steps of the inviter that make no DID known.
LEMMA NoneUnmadeAfter ==
    ASSUME NoneUnmade, dids \in Nat, dids' \in Nat, dids' >= dids, UNCHANGED invitee, msgs \subseteq Mail,
           InviteeTyped,
           \A m \in msgs' : m \in msgs \/ (m.did <= dids' /\ (m.kind = "response" => m.did # 0))
    PROVE  NoneUnmade'
<1>1. \A m \in msgs' : m.did <= dids' /\ (m.kind = "response" => m.did # 0)
  BY DEF NoneUnmade, Mail
<1>2. ASSUME NEW i \in Invitees
      PROVE  /\ inv[i].their <= dids' /\ ask[i].copy.their <= dids' /\ take[i].copy.their <= dids'
             /\ take[i].pc = "save" => take[i].msg.did \in 1..dids'
             /\ accepted[i] \subseteq 1..dids'
  <2>1. /\ inv[i].their <= dids /\ ask[i].copy.their <= dids /\ take[i].copy.their <= dids
        /\ take[i].pc = "save" => take[i].msg.did \in 1..dids
        /\ accepted[i] \subseteq 1..dids
    BY DEF NoneUnmade
  <2>2. inv[i].their \in Nat /\ ask[i].copy.their \in Nat /\ take[i].copy.their \in Nat
    BY DEF InviteeTyped, InvRecs, Asking, Taking
  <2>3. 1..dids \subseteq 1..dids'
    OBVIOUS
  <2> QED BY <2>1, <2>2, <2>3
<1> QED BY <1>1, <1>2 DEF NoneUnmade, invitee

\* What is heard of has been made.
LEMMA HeardIsMade ==
    ASSUME NoneUnmade, NEW i \in Invitees, NEW did, Heard(i, did)
    PROVE  did <= dids
<1>1. CASE \E m \in msgs : m.who = i /\ m.did = did
  BY <1>1 DEF NoneUnmade
<1>2. CASE did \in {inv[i].their, ask[i].copy.their, take[i].copy.their}
  BY <1>2 DEF NoneUnmade
<1>3. CASE take[i].pc = "save" /\ take[i].msg.did = did
  <2>1. did \in 1..dids
    BY <1>3 DEF NoneUnmade
  <2> QED BY <2>1
<1> QED BY <1>1, <1>2, <1>3 DEF Heard

\* If nobody hears of a DID anew, DIDs keep having one holder each.
LEMMA OneHolderAfter ==
    ASSUME InviterTyped, DidsInv, NEW n, FirstStays,
           \A r \in DOMAIN recs' : MayBeOf(recs'[r].my, r, n),
           \A t \in Tasks : MayBeOf(hand'[t].copy.my, hand'[t].rec, n),
           \A i \in Invitees : \A did : Heard(i, did)' => Heard(i, did)
    PROVE  OneHolderEach'
<1>1. \A i, j \in Invitees : \A did : Heard(i, did)' /\ Heard(j, did)' => i = j
  BY DEF DidsInv, OneHolderEach
<1>2. ASSUME NEW r \in DOMAIN recs', NEW i \in Invitees, NEW did \in DidsOf(r)', Heard(i, did)'
      PROVE  Len(attached'[r]) # 0 /\ attached'[r][1].who = i
  <2>1. did # 0 /\ MayBeOf(did, r, n)
    BY DEF DidsOf
  <2>2. Heard(i, did) /\ did <= dids /\ dids \in Nat
    BY <1>2, HeardIsMade, DidsOfFacts DEF DidsInv
  <2>3. r \in DOMAIN recs /\ did \in DidsOf(r)
    BY <2>1, <2>2 DEF MayBeOf
  <2>4. Len(attached[r]) # 0 /\ attached[r][1].who = i
    BY <2>2, <2>3 DEF DidsInv, OneHolderEach
  <2> QED BY <2>3, <2>4 DEF FirstStays
<1> QED BY <1>1, <1>2 DEF OneHolderEach

\* A step in which no DID is made and no message.
LEMMA NoDidMade ==
    ASSUME Typed, DidsInv, UNCHANGED <<dids, invitee>>, msgs' \subseteq msgs, FirstStays,
           \A r \in DOMAIN recs' : MayBeOf(recs'[r].my, r, 0),
           \A t \in Tasks : MayBeOf(hand'[t].copy.my, hand'[t].rec, 0)
    PROVE  DidsInv'
<1>1. InviterTyped /\ InviteeTyped /\ msgs \subseteq Mail /\ dids \in Nat
  BY DEF Typed, CommonTyped, InviterTyped
<1>2. OneRecordEach'
  BY <1>1, OneRecordEachAfter DEF DidsInv
<1>3. NoneUnmade'
  BY <1>1, NoneUnmadeAfter DEF DidsInv
<1>4. \A i \in Invitees : \A did : Heard(i, did)' => Heard(i, did)
  BY DEF Heard, invitee
<1>5. OneHolderEach'
  BY <1>1, <1>4, OneHolderAfter
<1> QED BY <1>2, <1>3, <1>5 DEF DidsInv

\* No message changes the DID of a record.
LEMMA PromotedMine ==
    ASSUME InviterTyped, NEW i, NEW did
    PROVE  /\ DOMAIN Promoted(i, did) = DOMAIN recs
           /\ \A r \in DOMAIN recs :
                 /\ Promoted(i, did)[r].my = recs[r].my
                 /\ [Promoted(i, did)[r] EXCEPT !.state = "completed"].my = recs[r].my
<1>1. DOMAIN Promoted(i, did) = DOMAIN recs
  BY PromotedFacts
<1>2. ASSUME NEW r \in DOMAIN recs
      PROVE  /\ Promoted(i, did)[r].my = recs[r].my
             /\ [Promoted(i, did)[r] EXCEPT !.state = "completed"].my = recs[r].my
  <2>1. PICK c \in ConnRecs : c = recs[r]
    BY DEF InviterTyped
  <2>2. PICK p : p = Promoted(i, did)[r]
    OBVIOUS
  <2>3. p = c \/ p = [c EXCEPT !.state = "completed"]
    <3>1. \/ Promoted(i, did)[r] = recs[r]
          \/ Promoted(i, did)[r] = [recs[r] EXCEPT !.state = "completed"]
      BY <1>2 DEF Promoted
    <3> QED BY <2>1, <2>2, <3>1
  <2>4. p.my = c.my /\ p \in ConnRecs
    BY <2>3 DEF ConnRecs, States
  <2>5. [p EXCEPT !.state = "completed"].my = p.my
    BY <2>4 DEF ConnRecs
  <2> QED BY <2>1, <2>2, <2>4, <2>5
<1> QED BY <1>1, <1>2

LEMMA NewRecordDids ==
    ASSUME Typed, DidsInv, NEW t \in Tasks, NewRecord(t) PROVE DidsInv'
<1>1. InviterTyped /\ CommonTyped /\ InviteeTyped /\ dids \in Nat
  BY DEF Typed, InviterTyped
<1>2. PICK g \in Hands : g = hand[t]
  BY <1>1, DidsOfFacts
<1>3. PICK c : c = ConnRecord(IF didx THEN "request" ELSE "invitation", dids + 1)
  OBVIOUS
<1>4. PICK n : n = Len(recs) + 1
  OBVIOUS
<1>5. PICK k : k = [g EXCEPT !.pc = "save", !.rec = n, !.copy = c]
  OBVIOUS
<1>6. k.rec = n /\ k.copy = c /\ c.my = dids + 1
  BY <1>3, <1>5 DEF Hands, ConnRecord
<1>7. recs' = Append(recs, c) /\ hand' = [hand EXCEPT ![t] = k] /\ dids' = dids + 1
      /\ UNCHANGED <<invitee, msgs>>
  BY <1>2, <1>3, <1>4, <1>5 DEF NewRecord
<1>8. ASSUME NEW r \in DOMAIN recs' PROVE MayBeOf(recs'[r].my, r, n)
  <2>1. recs \in Seq(ConnRecs)
    BY <1>1 DEF InviterTyped
  <2>2. (r \in DOMAIN recs /\ recs'[r] = recs[r]) \/ (r = n /\ recs'[r] = c)
    BY <1>4, <1>7, <2>1
  <2>3. CASE r \in DOMAIN recs /\ recs'[r] = recs[r]
    BY <1>1, <2>3, DidsOfFacts
  <2>4. CASE r = n /\ recs'[r] = c
    BY <1>6, <1>7, <2>4 DEF MayBeOf
  <2> QED BY <2>2, <2>3, <2>4
<1>9. ASSUME NEW u \in Tasks PROVE MayBeOf(hand'[u].copy.my, hand'[u].rec, n)
  <2>1. CASE u # t
    <3>1. hand'[u] = hand[u]
      BY <1>1, <1>7, <2>1 DEF InviterTyped
    <3> QED BY <1>1, <3>1, DidsOfFacts
  <2>2. CASE u = t
    <3>1. hand'[u] = k
      BY <1>1, <1>7, <2>2 DEF InviterTyped
    <3> QED BY <1>6, <1>7, <3>1 DEF MayBeOf
  <2> QED BY <2>1, <2>2
<1>10. dids' \in Nat /\ dids' >= dids
  BY <1>1, <1>7
<1>11. OneRecordEach'
  BY <1>1, <1>8, <1>9, <1>10, OneRecordEachAfter DEF DidsInv
<1>12. NoneUnmade'
  BY <1>1, <1>7, <1>10, NoneUnmadeAfter DEF DidsInv, CommonTyped
<1>13. FirstStays
  <2>1. attached \in Seq(Seq(Mail)) /\ Len(attached) = Len(recs) /\ attached' = Append(attached, <<>>)
    BY <1>1 DEF InviterTyped, NewRecord
  <2>2. DOMAIN recs = 1..Len(attached)
    BY <1>1, <2>1 DEF InviterTyped
  <2> HIDE DEF Mail
  <2>3. \A r \in DOMAIN recs : attached'[r] = attached[r]
    BY <2>1, <2>2
  <2> QED BY <2>3 DEF FirstStays
<1>14. \A i \in Invitees : \A did : Heard(i, did)' => Heard(i, did)
  BY <1>7 DEF Heard, invitee
<1>15. OneHolderEach'
  BY <1>1, <1>8, <1>9, <1>13, <1>14, OneHolderAfter
<1> QED BY <1>11, <1>12, <1>15 DEF DidsInv

\* Handlers go on with the copy they have, or end; records keep the DID they have, or
\* get the one of the copy that is saved.
LEMMA CopiesKept ==
    ASSUME Typed, DidsInv, UNCHANGED <<dids, invitee>>, msgs' \subseteq msgs, FirstStays,
           DOMAIN recs' \subseteq DOMAIN recs,
           \A r \in DOMAIN recs' :
              \/ recs'[r].my = recs[r].my
              \/ \E u \in Tasks : hand[u].rec = r /\ recs'[r].my = hand[u].copy.my,
           \A u \in Tasks :
              \/ hand'[u].copy.my = 0
              \/ hand'[u].copy.my = hand[u].copy.my /\ hand'[u].rec = hand[u].rec
              \/ \E r \in DOMAIN recs : hand'[u].copy.my = recs[r].my /\ hand'[u].rec = r
    PROVE  DidsInv'
<1>1. InviterTyped
  BY DEF Typed
<1>2. \A r \in DOMAIN recs' : MayBeOf(recs'[r].my, r, 0)
  BY <1>1, DidsOfFacts
<1>3. \A u \in Tasks : MayBeOf(hand'[u].copy.my, hand'[u].rec, 0)
  BY <1>1, DidsOfFacts DEF MayBeOf
<1> QED BY <1>2, <1>3, NoDidMade

\* No handler has no DID.
LEMMA IdleHasNoDid == Idle.copy.my = 0
  BY DEF Idle, Invitation, ConnRecord

LEMMA ReceiveRequestDids ==
    ASSUME Typed, DidsInv, NEW t \in Tasks, NEW m, ReceiveRequest(t, m) PROVE DidsInv'
<1>0. FirstStays
  BY DEF FirstStays, ReceiveRequest
<1>1. InviterTyped /\ CommonTyped
  BY DEF Typed
<1>2. DOMAIN recs' = DOMAIN recs /\ \A r \in DOMAIN recs : recs'[r].my = recs[r].my
  BY <1>1, PromotedMine DEF ReceiveRequest
<1>3. ASSUME NEW u \in Tasks PROVE MayBeOf(hand'[u].copy.my, hand'[u].rec, 0)
  <2>1. CASE hand'[u] = hand[u]
    BY <1>1, <2>1, DidsOfFacts
  <2>2. CASE hand'[u] # hand[u]
    <3>1. PICK k : k = [Idle EXCEPT !.pc = "find", !.msg = m]
      OBVIOUS
    <3>2. hand' = [hand EXCEPT ![t] = k] /\ m \in Mail
      BY <1>1, <2>2, <3>1 DEF ReceiveRequest, Delivered, CommonTyped
    <3>3. k.copy.my = 0
      BY <3>1, <3>2, FindTyped, IdleHasNoDid DEF Idle
    <3>4. hand'[u].copy.my = 0
      BY <1>1, <2>2, <3>2, <3>3 DEF InviterTyped
    <3> QED BY <3>4 DEF MayBeOf
  <2> QED BY <2>1, <2>2
<1>4. UNCHANGED <<dids, invitee>> /\ msgs' \subseteq msgs
  BY DEF ReceiveRequest, Delivered
<1> QED BY <1>1, <1>2, <1>3, <1>4, DidsOfFacts, <1>0, NoDidMade

LEMMA FindInvitationDids ==
    ASSUME Typed, DidsInv, NEW t \in Tasks, FindInvitation(t) PROVE DidsInv'
<1>0. FirstStays
  BY DEF FirstStays, FindInvitation
<1>1. InviterTyped
  BY DEF Typed
<1>2. UNCHANGED <<recs, dids, invitee, msgs>>
  BY DEF FindInvitation
<1>3. ASSUME NEW u \in Tasks PROVE MayBeOf(hand'[u].copy.my, hand'[u].rec, 0)
  <2>1. CASE hand'[u] = hand[u]
    BY <1>1, <2>1, DidsOfFacts
  <2>2. CASE hand'[u] # hand[u] /\ hand' = [hand EXCEPT ![t] = Idle]
    <3>1. hand'[u].copy.my = 0
      BY <1>1, <2>2, IdleHasNoDid DEF InviterTyped
    <3> QED BY <3>1 DEF MayBeOf
  <2>3. CASE hand'[u] # hand[u] /\ \E r \in Open : hand' = [hand EXCEPT ![t] = Found(t, r)]
    <3>1. PICK r \in Open : hand' = [hand EXCEPT ![t] = Found(t, r)]
      BY <2>3
    <3>2. PICK k : k = Found(t, r)
      OBVIOUS
    <3>3. k.rec = r /\ k.copy = recs[r] /\ r \in DOMAIN recs
      BY <3>2, FoundTyped DEF FindInvitation
    <3>4. hand'[u].copy.my = recs[r].my /\ hand'[u].rec = r
      BY <1>1, <2>3, <3>1, <3>2, <3>3 DEF InviterTyped
    <3> QED BY <1>1, <3>3, <3>4, DidsOfFacts
  <2> QED BY <2>1, <2>2, <2>3 DEF FindInvitation, Found
<1> QED BY <1>1, <1>2, <1>3, DidsOfFacts, <1>0, NoDidMade

LEMMA RejectRequestDids ==
    ASSUME Typed, DidsInv, NEW t \in Tasks, RejectRequest(t) PROVE DidsInv'
<1>0. FirstStays
  BY DEF FirstStays, RejectRequest
<1>1. hand' = [hand EXCEPT ![t] = Idle] /\ UNCHANGED <<recs, dids, invitee, msgs>>
  BY DEF RejectRequest
<1>2. \A u \in Tasks : hand'[u] = hand[u] \/ hand'[u] = Idle
  BY <1>1 DEF Typed, InviterTyped
<1> QED BY <1>1, <1>2, IdleHasNoDid, <1>0, CopiesKept

LEMMA SaveRequestDids ==
    ASSUME Typed, DidsInv, NEW t \in Tasks, SaveRequest(t) PROVE DidsInv'
<1>0. FirstStays
  BY DEF FirstStays, SaveRequest
<1>1. InviterTyped
  BY DEF Typed
<1>2. PICK g \in Hands : g = hand[t]
  BY <1>1, DidsOfFacts
<1>3. g.msg \in Mail /\ g.rec \in DOMAIN recs
  BY <1>1, <1>2 DEF InviterTyped, SaveRequest
<1>4. PICK c \in ConnRecs : c = CopyToSave(g) /\ c.my = g.copy.my
  BY <1>3, CopyToSaveFacts DEF Typed
<1>5. PICK k : k = [g EXCEPT !.pc = "attach", !.copy = c]
  OBVIOUS
<1>6. k.rec = g.rec /\ k.copy = c
  BY <1>5 DEF Hands
<1>7. recs' = [recs EXCEPT ![g.rec] = c] /\ hand' = [hand EXCEPT ![t] = k]
      /\ UNCHANGED <<dids, invitee, msgs>>
  BY <1>2, <1>4, <1>5 DEF SaveRequest, CopyToSave
<1>8. DOMAIN recs' = DOMAIN recs /\ \A r \in DOMAIN recs : recs'[r] = IF r = g.rec THEN c ELSE recs[r]
  BY <1>1, <1>3, <1>7, OneSaved
<1>9. \A u \in Tasks : hand'[u] = IF u = t THEN k ELSE hand[u]
  BY <1>1, <1>7 DEF InviterTyped
<1> QED BY <1>2, <1>4, <1>6, <1>7, <1>8, <1>9, <1>0, CopiesKept

LEMMA AttachRequestDids ==
    ASSUME Typed, DidsInv, NEW t \in Tasks, AttachRequest(t) PROVE DidsInv'
<1>1. PICK g \in Hands : g = hand[t]
  BY DidsOfFacts DEF Typed
<1>2. PICK k : k = [g EXCEPT !.pc = "respond"]
  OBVIOUS
<1>3. k.rec = g.rec /\ k.copy = g.copy
  BY <1>2 DEF Hands
<1>4. \/ hand' = [hand EXCEPT ![t] = k]
      \/ hand' = [hand EXCEPT ![t] = Idle]
  BY <1>1, <1>2 DEF AttachRequest
<1>5. \A u \in Tasks : hand'[u] = hand[u] \/ hand'[u] = Idle \/ (u = t /\ hand'[u] = k)
  BY <1>4 DEF Typed, InviterTyped
<1>6. UNCHANGED <<recs, dids, invitee, msgs>>
  BY DEF AttachRequest
<1>7. FirstStays
  <2>1. attached \in Seq(Seq(Mail)) /\ DOMAIN attached = DOMAIN recs
    BY DEF Typed, InviterTyped
  <2>2. PICK m : m = hand[t].msg /\ attached' = [attached EXCEPT ![hand[t].rec] = Append(@, m)]
    BY DEF AttachRequest
  <2> HIDE DEF Mail
  <2>3. ASSUME NEW r \in DOMAIN recs, Len(attached[r]) # 0
        PROVE  Len(attached'[r]) # 0 /\ attached'[r][1] = attached[r][1]
    <3>1. PICK q \in Seq(Mail) : q = attached[r] /\ Len(q) # 0
      BY <2>1, <2>3
    <3>2. attached'[r] = q \/ attached'[r] = Append(q, m)
      BY <2>1, <2>2, <3>1
    <3>3. Len(Append(q, m)) # 0 /\ Append(q, m)[1] = q[1]
      BY <3>1
    <3> QED BY <3>1, <3>2, <3>3
  <2> QED BY <2>3 DEF FirstStays
<1> QED BY <1>1, <1>3, <1>5, <1>6, <1>7, IdleHasNoDid, CopiesKept

LEMMA AcceptRequestDids ==
    ASSUME Typed, DidsInv, NEW t \in Tasks, NEW r \in DOMAIN recs, AcceptRequest(t, r) PROVE DidsInv'
<1>0. FirstStays
  BY DEF FirstStays, AcceptRequest
<1>1. PICK k : k = [pc |-> "respond", msg |-> NoMessage, rec |-> r, copy |-> recs[r], resaves |-> FALSE]
  OBVIOUS
<1>2. k.rec = r /\ k.copy = recs[r]
  BY <1>1
<1>3. hand' = [hand EXCEPT ![t] = k] /\ UNCHANGED <<recs, dids, invitee, msgs>>
  BY <1>1 DEF AcceptRequest
<1>4. \A u \in Tasks : hand'[u] = IF u = t THEN k ELSE hand[u]
  BY <1>3 DEF Typed, InviterTyped
<1> QED BY <1>2, <1>3, <1>4, <1>0, CopiesKept

LEMMA ResaveResponseDids ==
    ASSUME Typed, DidsInv, NEW t \in Tasks, ResaveResponse(t) PROVE DidsInv'
<1>0. FirstStays
  BY DEF FirstStays, ResaveResponse
<1>1. InviterTyped
  BY DEF Typed
<1>2. PICK g \in Hands : g = hand[t]
  BY <1>1, DidsOfFacts
<1>3. PICK c \in ConnRecs : c = g.copy
  BY DEF Hands
<1>4. recs' = [recs EXCEPT ![g.rec] = c] /\ hand' = [hand EXCEPT ![t] = Idle]
      /\ UNCHANGED <<dids, invitee, msgs>>
  BY <1>2, <1>3 DEF ResaveResponse
<1>5. DOMAIN recs' = DOMAIN recs /\ \A r \in DOMAIN recs : recs'[r] = IF r = g.rec THEN c ELSE recs[r]
  BY <1>1, <1>2, <1>4, DidsOfFacts, OneSaved
<1>6. \A u \in Tasks : hand'[u] = hand[u] \/ hand'[u] = Idle
  BY <1>1, <1>4 DEF InviterTyped
<1> QED BY <1>2, <1>3, <1>4, <1>5, <1>6, IdleHasNoDid, <1>0, CopiesKept

\* The response tells a DID of the record it is saved in, be it new.
LEMMA CreateResponseDids ==
    ASSUME Typed, DidsInv, NEW t \in Tasks, CreateResponse(t) PROVE DidsInv'
<1>0. FirstStays
  BY DEF FirstStays, CreateResponse
<1>1. InviterTyped /\ InviteeTyped /\ CommonTyped /\ dids \in Nat
  BY DEF Typed, InviterTyped
<1>2. UNCHANGED invitee
  BY DEF CreateResponse
<1>3. CASE hand' = [hand EXCEPT ![t] = Idle] /\ UNCHANGED <<recs, dids, msgs>>
  <2>1. \A u \in Tasks : hand'[u] = hand[u] \/ hand'[u] = Idle
    BY <1>1, <1>3 DEF InviterTyped
  <2> QED BY <1>2, <1>3, <2>1, IdleHasNoDid, <1>0, CopiesKept
<1>4. CASE Responds(t)
  <2>1. PICK g \in Hands : g = hand[t] /\ g.rec \in DOMAIN recs
    BY <1>1, DidsOfFacts
  <2>2. PICK my \in Nat : my = AnswerMy(g) /\ my # 0 /\ (g.copy.my # 0 => my = g.copy.my)
    BY <1>1, AnswerFacts
  <2>3. PICK c \in ConnRecs : c = Answer(g) /\ c.my = my
    BY <1>1, <2>2, AnswerFacts
  <2>4. PICK k : k = [g EXCEPT !.pc = "resave", !.copy = c]
    OBVIOUS
  <2>5. k.rec = g.rec /\ k.copy = c
    BY <2>4 DEF Hands
  <2>6. PICK q \in Mail : q = attached[g.rec][1]
    BY <2>1, <1>4 DEF Responds
  <2>7. PICK n : n = Message("response", q.who, my, q.req)
    OBVIOUS
  <2>8. /\ recs' = [recs EXCEPT ![g.rec] = c] /\ msgs' = msgs \cup {n}
        /\ dids' = IF my > dids THEN my ELSE dids
        /\ hand' = [hand EXCEPT ![t] = k] \/ hand' = [hand EXCEPT ![t] = Idle]
    BY <1>4, <2>1, <2>2, <2>3, <2>4, <2>6, <2>7 DEF Responds
  <2>9. dids' \in Nat /\ dids' >= dids /\ my <= dids'
    BY <1>1, <2>8
  <2>10. MayBeOf(my, g.rec, g.rec)
    <3>1. CASE g.copy.my # 0
      BY <1>1, <2>1, <2>2, <3>1, DidsOfFacts
    <3>2. CASE g.copy.my = 0
      <4>1. my = dids + 1
        BY <2>2, <3>2 DEF AnswerMy
      <4>2. dids' = dids + 1
        BY <1>1, <2>8, <4>1
      <4> QED BY <4>1, <4>2 DEF MayBeOf
    <3> QED BY <3>1, <3>2
  <2>11. ASSUME NEW r \in DOMAIN recs' PROVE MayBeOf(recs'[r].my, r, g.rec)
    <3>1. r \in DOMAIN recs /\ recs'[r] = IF r = g.rec THEN c ELSE recs[r]
      BY <1>1, <2>1, <2>8, OneSaved
    <3>2. CASE r = g.rec
      BY <2>3, <2>10, <3>1, <3>2
    <3>3. CASE r # g.rec
      BY <1>1, <3>1, <3>3, DidsOfFacts
    <3> QED BY <3>2, <3>3
  <2>12. ASSUME NEW u \in Tasks PROVE MayBeOf(hand'[u].copy.my, hand'[u].rec, g.rec)
    <3>1. hand'[u] = hand[u] \/ hand'[u] = Idle \/ hand'[u] = k
      BY <1>1, <2>8 DEF InviterTyped
    <3>2. CASE hand'[u] = hand[u]
      BY <1>1, <3>2, DidsOfFacts
    <3>3. CASE hand'[u] = Idle
      BY <3>3, IdleHasNoDid DEF MayBeOf
    <3>4. CASE hand'[u] = k
      BY <2>3, <2>5, <2>10, <3>4
    <3> QED BY <3>1, <3>2, <3>3, <3>4
  <2>13. OneRecordEach'
    BY <1>1, <2>1, <2>9, <2>11, <2>12, OneRecordEachAfter DEF DidsInv
  <2>14. NoneUnmade'
    <3>1. n.did = my
      BY <2>7 DEF Message
    <3> QED BY <1>1, <1>2, <2>2, <2>8, <2>9, <3>1, NoneUnmadeAfter DEF DidsInv, CommonTyped
  <2>15. ASSUME NEW i \in Invitees, NEW did, Heard(i, did)', ~Heard(i, did) PROVE i = q.who /\ did = my
    <3>1. PICK m \in msgs' : m.who = i /\ m.did = did /\ m \notin msgs /\ did # 0
      BY <1>2, <2>15 DEF Heard, invitee
    <3>2. m = n
      BY <2>8, <3>1
    <3> QED BY <2>7, <3>1, <3>2 DEF Message
  <2>16. Len(attached[g.rec]) = 1 /\ attached[g.rec][1] = q
    BY <1>4, <2>1, <2>6 DEF Responds
  <2>17. ASSUME NEW j \in Invitees, Heard(j, my) PROVE j = q.who
    <3>1. my <= dids
      BY <2>17, HeardIsMade DEF DidsInv
    <3>2. g.copy.my # 0 /\ my = g.copy.my
      <4>1. CASE g.copy.my = 0
        <5>1. my = dids + 1
          BY <2>2, <4>1 DEF AnswerMy
        <5> QED BY <1>1, <3>1, <5>1
      <4> QED BY <2>2, <4>1
    <3>3. my \in DidsOf(g.rec)
      BY <2>1, <3>2 DEF DidsOf
    <3> QED BY <2>1, <2>16, <2>17, <3>3 DEF DidsInv, OneHolderEach
  <2>18. OneHolderEach'
    <3>1. ASSUME NEW i \in Invitees, NEW j \in Invitees, NEW did, Heard(i, did)', Heard(j, did)'
          PROVE  i = j
      <4>1. CASE Heard(i, did) /\ Heard(j, did)
        BY <4>1 DEF DidsInv, OneHolderEach
      <4>2. CASE ~Heard(i, did) \/ ~Heard(j, did)
        <5>1. did = my
          BY <2>15, <3>1, <4>2
        <5>2. i = q.who /\ j = q.who
          BY <2>15, <2>17, <3>1, <5>1
        <5> QED BY <5>2
      <4> QED BY <4>1, <4>2
    <3>2. ASSUME NEW r \in DOMAIN recs', NEW i \in Invitees, NEW did \in DidsOf(r)', Heard(i, did)'
          PROVE  Len(attached'[r]) # 0 /\ attached'[r][1].who = i
      <4>1. /\ recs'[g.rec].my = my /\ g.rec \in DOMAIN recs' /\ DOMAIN recs' = DOMAIN recs
            /\ attached' = attached
        BY <1>1, <2>1, <2>3, <2>8, OneSaved DEF CreateResponse
      <4>2. CASE did = my
        <5>1. my \in DidsOf(g.rec)'
          BY <2>2, <4>1 DEF DidsOf
        <5>2. r = g.rec
          BY <2>13, <3>2, <4>1, <4>2, <5>1 DEF OneRecordEach
        <5>3. i = q.who
          BY <2>15, <2>17, <3>2, <4>2
        <5> QED BY <2>16, <4>1, <5>2, <5>3
      <4>3. CASE did # my
        <5>1. Heard(i, did)
          BY <2>15, <3>2, <4>3
        <5>2. did # 0 /\ MayBeOf(did, r, g.rec)
          BY <2>11, <2>12, <3>2 DEF DidsOf
        <5>3. did <= dids
          BY <5>1, HeardIsMade DEF DidsInv
        <5>4. did \in DidsOf(r)
          BY <1>1, <5>2, <5>3 DEF MayBeOf
        <5> QED BY <4>1, <5>1, <5>4 DEF DidsInv, OneHolderEach
      <4> QED BY <4>2, <4>3
    <3> QED BY <3>1, <3>2 DEF OneHolderEach
  <2> QED BY <2>13, <2>14, <2>18 DEF DidsInv
<1> QED BY <1>3, <1>4, CreateResponseCases

LEMMA ReceiveCompleteDids ==
    ASSUME Typed, DidsInv, NEW m \in msgs, ReceiveComplete(m) PROVE DidsInv'
<1>0. FirstStays
  BY DEF FirstStays, ReceiveComplete
<1>1. InviterTyped
  BY DEF Typed
<1>2. DOMAIN recs' = DOMAIN recs /\ \A r \in DOMAIN recs : recs'[r].my = recs[r].my
  <2>1. CASE recs' = recs
    BY <2>1
  <2>2. CASE recs' # recs
    <3>1. recs' = [r \in DOMAIN recs |->
             IF {q \in DOMAIN recs : recs[q].req = m.req} = {r}
             THEN [Promoted(m.who, m.did)[r] EXCEPT !.state = "completed"]
             ELSE Promoted(m.who, m.did)[r]]
      BY <2>2 DEF ReceiveComplete
    <3> QED BY <1>1, <3>1, PromotedMine
  <2> QED BY <2>1, <2>2
<1>3. UNCHANGED <<hand, dids, invitee>> /\ msgs' \subseteq msgs
  BY DEF ReceiveComplete, Delivered
<1> QED BY <1>2, <1>3, <1>0, CopiesKept

\* The answer to a ping tells the DID that the ping was sent to.
LEMMA ReceivePingDids ==
    ASSUME Typed, DidsInv, NEW m \in msgs, ReceivePing(m) PROVE DidsInv'
<1>1. InviterTyped /\ InviteeTyped /\ CommonTyped /\ dids \in Nat
  BY DEF Typed, InviterTyped
<1>2. DOMAIN recs' = DOMAIN recs /\ \A r \in DOMAIN recs : recs'[r].my = recs[r].my
  BY <1>1, PromotedMine DEF ReceivePing
<1>3. UNCHANGED <<hand, dids, invitee>>
  BY DEF ReceivePing
<1>4. PICK n : n = Message("ping_response", m.who, m.did, NoRequest)
  OBVIOUS
<1>5. /\ n.did = m.did /\ n.kind = "ping_response"
      /\ \A x \in msgs' : x \in msgs \/ x = n
  <2>1. n.did = m.did /\ n.kind = "ping_response"
    BY <1>4 DEF Message
  <2>2. \A x \in msgs' : x \in msgs \/ x = n
    BY <1>4 DEF ReceivePing
  <2> QED BY <2>1, <2>2
<1>6. OneRecordEach' /\ OneHolderEach'
  <2>1. \A r \in DOMAIN recs' : MayBeOf(recs'[r].my, r, 0)
    BY <1>1, <1>2, DidsOfFacts
  <2>2. \A u \in Tasks : MayBeOf(hand'[u].copy.my, hand'[u].rec, 0)
    BY <1>1, <1>3, DidsOfFacts
  <2>3. \A i \in Invitees : \A did : Heard(i, did)' => Heard(i, did)
    <3>1. n.who = m.who
      BY <1>4 DEF Message
    <3> QED BY <1>3, <1>5, <3>1 DEF Heard, invitee
  <2>4. FirstStays
    BY DEF FirstStays, ReceivePing
  <2> QED BY <1>1, <1>3, <2>1, <2>2, <2>3, <2>4, OneRecordEachAfter, OneHolderAfter DEF DidsInv
<1>7. NoneUnmade'
  <2>1. m.did <= dids'
    BY <1>3 DEF DidsInv, NoneUnmade
  <2>2. \A x \in msgs' : x \in msgs \/ (x.did <= dids' /\ (x.kind = "response" => x.did # 0))
    BY <1>5, <2>1
  <2> QED BY <1>1, <1>3, <2>2, NoneUnmadeAfter DEF DidsInv, CommonTyped
<1> QED BY <1>6, <1>7 DEF DidsInv

-----------------------------------------------------------------------------
\* Steps of the invitees.

\* One invitee goes on, and messages tell what it knows.
LEMMA InviteeDids ==
    ASSUME Typed, DidsInv, NEW i \in Invitees, UNCHANGED inviter,
           \A m \in msgs' : m \in msgs \/ (m.who = i /\ MayHold(i, m.did) /\ m.kind # "response"),
           \A j \in Invitees \ {i} :
              /\ inv'[j] = inv[j] /\ ask'[j] = ask[j] /\ take'[j] = take[j]
              /\ accepted'[j] = accepted[j],
           MayHold(i, inv'[i].their), MayHold(i, ask'[i].copy.their), MayHold(i, take'[i].copy.their),
           take'[i].pc = "save" => take'[i].msg.did \in Nat \ {0} /\ MayHold(i, take'[i].msg.did),
           accepted'[i] \subseteq 1..dids
    PROVE  DidsInv'
<1>1. UNCHANGED <<recs, hand, dids, attached>> /\ InviterTyped /\ dids \in Nat
  BY DEF inviter, Typed, InviterTyped
<1>2. OneRecordEach'
  BY <1>1 DEF DidsInv, OneRecordEach, DidsOf
<1>3. ASSUME NEW did, MayHold(i, did) PROVE did <= dids
  BY <1>1, <1>3, HeardIsMade DEF MayHold, DidsInv
<1>4. \A m \in msgs' : m.did <= dids' /\ (m.kind = "response" => m.did # 0)
  BY <1>1, <1>3 DEF DidsInv, NoneUnmade
<1>5. ASSUME NEW j \in Invitees
      PROVE  /\ inv'[j].their <= dids' /\ ask'[j].copy.their <= dids' /\ take'[j].copy.their <= dids'
             /\ take'[j].pc = "save" => take'[j].msg.did \in 1..dids'
             /\ accepted'[j] \subseteq 1..dids'
  <2>1. CASE j = i
    <3>1. take'[i].pc = "save" => take'[i].msg.did \in 1..dids
      BY <1>1, <1>3
    <3> QED BY <1>1, <1>3, <2>1, <3>1
  <2>2. CASE j # i
    BY <1>1, <2>2 DEF DidsInv, NoneUnmade
  <2> QED BY <2>1, <2>2
<1>6. ASSUME NEW j \in Invitees, NEW did, Heard(j, did)' PROVE Heard(j, did)
  <2>1. CASE j = i
    BY <1>6, <2>1 DEF Heard, MayHold
  <2>2. CASE j # i
    BY <1>6, <2>2 DEF Heard
  <2> QED BY <2>1, <2>2
<1>7. OneHolderEach'
  <2>1. FirstStays
    BY <1>1 DEF FirstStays
  <2>2. /\ \A r \in DOMAIN recs' : MayBeOf(recs'[r].my, r, 0)
        /\ \A u \in Tasks : MayBeOf(hand'[u].copy.my, hand'[u].rec, 0)
    BY <1>1, DidsOfFacts
  <2> QED BY <1>1, <1>6, <2>1, <2>2, OneHolderAfter
<1> QED BY <1>2, <1>4, <1>5, <1>7 DEF DidsInv, NoneUnmade

\* What holds of an invitee before a step.
LEMMA InviteeDidsFacts ==
    ASSUME Typed, DidsInv, NEW i \in Invitees
    PROVE  /\ dids \in Nat /\ inv[i] \in InvRecs /\ ask[i] \in Asking /\ take[i] \in Taking
           /\ MayHold(i, inv[i].their) /\ MayHold(i, ask[i].copy.their) /\ MayHold(i, take[i].copy.their)
           /\ take[i].pc = "save" =>
                 /\ take[i].msg.did \in Nat \ {0} /\ take[i].msg.did \in 1..dids
                 /\ MayHold(i, take[i].msg.did)
           /\ accepted[i] \subseteq 1..dids
           /\ MayHold(i, 0)
           /\ NotAsking.copy.their = 0 /\ NotTaking.copy.their = 0
           /\ NotTaking.pc = "idle"
<1>1. dids \in Nat /\ inv[i] \in InvRecs /\ ask[i] \in Asking /\ take[i] \in Taking
  BY DEF Typed, InviterTyped, InviteeTyped
<1>2. NotAsking.copy.their = 0 /\ NotTaking.copy.their = 0 /\ NotTaking.pc = "idle" /\ MayHold(i, 0)
  BY <1>1, NotAskingTyped DEF MayHold
<1>3. MayHold(i, inv[i].their) /\ MayHold(i, ask[i].copy.their) /\ MayHold(i, take[i].copy.their)
  BY DEF MayHold, Heard
<1>4. take[i].pc = "save" =>
         /\ take[i].msg.did \in Nat \ {0} /\ take[i].msg.did \in 1..dids
         /\ MayHold(i, take[i].msg.did)
  <2>1. take[i].pc = "save" => take[i].msg.did \in 1..dids
    BY DEF DidsInv, NoneUnmade
  <2> QED BY <2>1 DEF MayHold, Heard
<1> QED BY <1>1, <1>2, <1>3, <1>4 DEF DidsInv, NoneUnmade

LEMMA AcceptInvitationDids ==
    ASSUME Typed, DidsInv, NEW i \in Invitees, AcceptInvitation(i) PROVE DidsInv'
<1>1. PICK k : k = [pc |-> "save", copy |-> inv[i]]
  OBVIOUS
<1>2. ask' = [ask EXCEPT ![i] = k] /\ UNCHANGED <<inviter, inv, take, accepted, msgs>>
  BY <1>1 DEF AcceptInvitation
<1>3. ask'[i] = k /\ \A j \in Invitees \ {i} : ask'[j] = ask[j]
  BY <1>2 DEF Typed, InviteeTyped
<1>4. k.copy = inv[i]
  BY <1>1
<1> QED BY <1>2, <1>3, <1>4, InviteeDidsFacts, InviteeDids

LEMMA CreateRequestDids ==
    ASSUME Typed, DidsInv, NEW i \in Invitees, CreateRequest(i) PROVE DidsInv'
<1>1. ask[i].pc = "save" /\ InviteeTyped
  BY DEF CreateRequest, Typed
<1>2. PICK c \in InvRecs : c = Requested(i) /\ c.their = ask[i].copy.their
  BY <1>1, RequestedFacts
<1>3. PICK k : k = [pc |-> "resave", copy |-> c]
  OBVIOUS
<1>4. PICK n : n = Message("request", i, 0, c.req)
  OBVIOUS
<1>5. n.did = 0 /\ n.kind = "request" /\ n.who = i
  BY <1>4 DEF Message
<1>6. /\ inv' = [inv EXCEPT ![i] = c] /\ msgs' = msgs \cup {n}
      /\ ask' = [ask EXCEPT ![i] = k] \/ ask' = [ask EXCEPT ![i] = NotAsking]
      /\ UNCHANGED <<inviter, take, accepted>>
  BY <1>2, <1>3, <1>4 DEF CreateRequest, Requested
<1>7. /\ inv'[i] = c /\ (ask'[i] = k \/ ask'[i] = NotAsking)
      /\ \A j \in Invitees \ {i} : inv'[j] = inv[j] /\ ask'[j] = ask[j]
  BY <1>1, <1>6 DEF InviteeTyped
<1>8. /\ dids \in Nat /\ MayHold(i, ask[i].copy.their) /\ MayHold(i, take[i].copy.their)
      /\ take[i].pc = "save" => take[i].msg.did \in Nat \ {0} /\ MayHold(i, take[i].msg.did)
      /\ accepted[i] \subseteq 1..dids /\ NotAsking.copy.their = 0 /\ MayHold(i, 0)
  BY InviteeDidsFacts
<1>9. MayHold(i, inv'[i].their) /\ MayHold(i, ask'[i].copy.their)
  <2>1. k.copy = c
    BY <1>3
  <2> QED BY <1>2, <1>7, <1>8, <2>1
<1>10. \A m \in msgs' : m \in msgs \/ (m.who = i /\ MayHold(i, m.did) /\ m.kind # "response")
  BY <1>5, <1>6, <1>8
<1> QED BY <1>6, <1>7, <1>8, <1>9, <1>10, InviteeDids

LEMMA ResaveRequestDids ==
    ASSUME Typed, DidsInv, NEW i \in Invitees, ResaveRequest(i) PROVE DidsInv'
<1>1. PICK c : c = ask[i].copy
  OBVIOUS
<1>2. inv' = [inv EXCEPT ![i] = c] /\ ask' = [ask EXCEPT ![i] = NotAsking]
      /\ UNCHANGED <<inviter, take, accepted, msgs>>
  BY <1>1 DEF ResaveRequest
<1>3. /\ inv'[i] = c /\ ask'[i] = NotAsking
      /\ \A j \in Invitees \ {i} : inv'[j] = inv[j] /\ ask'[j] = ask[j]
  BY <1>2 DEF Typed, InviteeTyped
<1> QED BY <1>1, <1>2, <1>3, InviteeDidsFacts, InviteeDids

LEMMA ReceiveResponseDids ==
    ASSUME Typed, DidsInv, NEW m \in msgs, ReceiveResponse(m) PROVE DidsInv'
<1>1. InviteeTyped /\ m \in Mail /\ m.did <= dids /\ m.did # 0 /\ dids \in Nat
  BY DEF Typed, CommonTyped, InviterTyped, DidsInv, NoneUnmade, ReceiveResponse
<1>2. PICK i \in Invitees : i = m.who
  BY <1>1 DEF Mail
<1>3. m.did \in Nat \ {0} /\ MayHold(i, m.did)
  BY <1>1, <1>2 DEF Mail, MayHold, Heard, ReceiveResponse, Delivered
<1>4. PICK c : c = Answered(i, m.did) /\ c.their = inv[i].their
  BY <1>1, AnsweredFacts
<1>5. PICK k : k = [pc |-> "save", copy |-> c, msg |-> m]
  OBVIOUS
<1>6. /\ inv' = [inv EXCEPT ![i] = c]
      /\ take' = [take EXCEPT ![i] = k] \/ take' = take
      /\ UNCHANGED <<inviter, ask, accepted>> /\ msgs' \subseteq msgs
  BY <1>2, <1>4, <1>5 DEF ReceiveResponse, Delivered
<1>7. /\ inv'[i] = c /\ (take'[i] = k \/ take'[i] = take[i])
      /\ \A j \in Invitees \ {i} : inv'[j] = inv[j] /\ take'[j] = take[j]
  BY <1>1, <1>6 DEF InviteeTyped
<1>8. k.copy = c /\ k.msg = m
  BY <1>5
<1> QED BY <1>3, <1>4, <1>6, <1>7, <1>8, InviteeDidsFacts, InviteeDids

LEMMA SaveResponseDids ==
    ASSUME Typed, DidsInv, NEW i \in Invitees, SaveResponse(i) PROVE DidsInv'
<1>1. InviteeTyped /\ take[i].pc = "save"
  BY DEF Typed, SaveResponse
<1>2. PICK g \in Taking : g = take[i]
  BY <1>1 DEF InviteeTyped
<1>3. PICK did : did = g.msg.did /\ did \in 1..dids /\ dids \in Nat /\ MayHold(i, did)
  BY <1>1, <1>2, InviteeDidsFacts
<1>4. PICK c : c = [g.copy EXCEPT !.state = "response", !.their = did]
  OBVIOUS
<1>5. c.their = did
  BY <1>4 DEF Taking, InvRecs
<1>6. PICK k : k = [g EXCEPT !.pc = "complete", !.copy = c]
  OBVIOUS
<1>7. k.pc = "complete" /\ k.copy = c
  BY <1>6 DEF Taking
<1>8. PICK n : n = Message("complete", i, did, g.msg.req)
  OBVIOUS
<1>9. n.did = did /\ n.kind = "complete" /\ n.who = i
  BY <1>8 DEF Message
<1>10. /\ inv' = [inv EXCEPT ![i] = c]
       /\ accepted' = [accepted EXCEPT ![i] = @ \cup {did}]
       /\ \/ msgs' = msgs \cup {n} /\ take' = [take EXCEPT ![i] = k]
          \/ take' = [take EXCEPT ![i] = NotTaking] /\ msgs' = msgs
       /\ UNCHANGED <<inviter, ask>>
  BY <1>2, <1>3, <1>4, <1>6, <1>8 DEF SaveResponse
<1>11. /\ inv'[i] = c /\ (take'[i] = k \/ take'[i] = NotTaking)
       /\ accepted'[i] = accepted[i] \cup {did}
       /\ \A j \in Invitees \ {i} :
             inv'[j] = inv[j] /\ take'[j] = take[j] /\ accepted'[j] = accepted[j]
  BY <1>1, <1>10 DEF InviteeTyped
<1>12. \A m \in msgs' : m \in msgs \/ (m.who = i /\ MayHold(i, m.did) /\ m.kind # "response")
  BY <1>3, <1>9, <1>10
<1>13. MayHold(i, inv'[i].their) /\ accepted'[i] \subseteq 1..dids
  BY <1>3, <1>5, <1>11, InviteeDidsFacts
<1>14. MayHold(i, take'[i].copy.their) /\ take'[i].pc # "save"
  BY <1>3, <1>5, <1>7, <1>11, InviteeDidsFacts
<1>15. MayHold(i, ask'[i].copy.their)
  BY <1>10, InviteeDidsFacts
<1> QED BY <1>10, <1>11, <1>12, <1>13, <1>14, <1>15, InviteeDids

LEMMA SaveCompleteDids ==
    ASSUME Typed, DidsInv, NEW i \in Invitees, SaveComplete(i) PROVE DidsInv'
<1>1. PICK c \in InvRecs : c = take[i].copy
  BY DEF Typed, InviteeTyped, Taking
<1>2. PICK d : d = [c EXCEPT !.state = "completed"]
  OBVIOUS
<1>3. d.their = c.their
  BY <1>2 DEF InvRecs
<1>4. inv' = [inv EXCEPT ![i] = d] /\ take' = [take EXCEPT ![i] = NotTaking]
      /\ UNCHANGED <<inviter, ask, accepted, msgs>>
  BY <1>1, <1>2 DEF SaveComplete
<1>5. /\ inv'[i] = d /\ take'[i] = NotTaking
      /\ \A j \in Invitees \ {i} : inv'[j] = inv[j] /\ take'[j] = take[j]
  BY <1>4 DEF Typed, InviteeTyped
<1> QED BY <1>1, <1>3, <1>4, <1>5, InviteeDidsFacts, InviteeDids

LEMMA SendPingDids ==
    ASSUME Typed, DidsInv, NEW i \in Invitees, SendPing(i) PROVE DidsInv'
<1>1. PICK n : n = Message("ping", i, inv[i].their, NoRequest)
  OBVIOUS
<1>2. n.did = inv[i].their /\ n.kind = "ping" /\ n.who = i
  BY <1>1 DEF Message
<1>3. msgs' = {n} \cup msgs /\ UNCHANGED <<inviter, inv, ask, take, accepted>>
  BY <1>1 DEF SendPing, invitee
<1> QED BY <1>2, <1>3, InviteeDidsFacts, InviteeDids

LEMMA ReceivePingResponseDids ==
    ASSUME Typed, DidsInv, NEW m \in msgs, ReceivePingResponse(m) PROVE DidsInv'
<1>1. InviteeTyped /\ m \in Mail
  BY DEF Typed, CommonTyped
<1>2. PICK i \in Invitees : i = m.who
  BY <1>1 DEF Mail
<1>3. PICK c : c = Answered(i, m.did) /\ c.their = inv[i].their
  BY <1>1, AnsweredFacts
<1>4. inv' = [inv EXCEPT ![i] = c] /\ msgs' \subseteq msgs
      /\ UNCHANGED <<inviter, ask, take, accepted>>
  BY <1>2, <1>3 DEF ReceivePingResponse
<1>5. inv'[i] = c /\ \A j \in Invitees \ {i} : inv'[j] = inv[j]
  BY <1>1, <1>4 DEF InviteeTyped
<1> QED BY <1>3, <1>4, <1>5, InviteeDidsFacts, InviteeDids

LEMMA RestartInviteeDids ==
    ASSUME Typed, DidsInv, NEW i \in Invitees, RestartInvitee(i) PROVE DidsInv'
<1>1. /\ ask'[i] = NotAsking /\ take'[i] = NotTaking
      /\ \A j \in Invitees \ {i} : ask'[j] = ask[j] /\ take'[j] = take[j]
      /\ UNCHANGED <<inviter, inv, accepted, msgs>>
  BY DEF RestartInvitee, Typed, InviteeTyped
<1> QED BY <1>1, InviteeDidsFacts, InviteeDids

LEMMA RestartInviterDids == ASSUME Typed, DidsInv, RestartInviter PROVE DidsInv'
<1>0. FirstStays
  BY DEF FirstStays, RestartInviter
<1>1. /\ UNCHANGED <<recs, dids, invitee, msgs>>
      /\ \A u \in Tasks : hand'[u] = Idle
  BY DEF RestartInviter
<1> QED BY <1>1, IdleHasNoDid, <1>0, CopiesKept

\* Messages are lost, a cache forgets, or nothing happens.
LEMMA RestDids ==
    ASSUME Typed, DidsInv, UNCHANGED <<inviter, invitee>>, msgs' \subseteq msgs PROVE DidsInv'
<1>1. UNCHANGED <<recs, hand, dids>> /\ FirstStays
  BY DEF inviter, FirstStays
<1> QED BY <1>1, CopiesKept

\* What there is initially.
LEMMA InitDids == Init => DidsInv
<1> SUFFICES ASSUME Init PROVE DidsInv
  OBVIOUS
<1>1. /\ DOMAIN recs = {1} /\ recs[1] = Invitation /\ Invitation.my \in {0} /\ dids = 0 /\ msgs = {}
      /\ \A t \in Tasks : hand[t] = Idle
  BY DEF Init, Invitation, ConnRecord
<1>2. OneRecordEach
  BY <1>1, IdleHasNoDid DEF OneRecordEach, DidsOf
<1>3. NoneUnmade
  BY <1>1, NotAskingTyped DEF Init, NoneUnmade, Invited
<1>4. OneHolderEach
  <2>1. \A i \in Invitees : inv[i].their = 0 /\ ask[i].copy.their = 0 /\ take[i].copy.their = 0
                           /\ take[i].pc = "idle"
    BY NotAskingTyped DEF Init, Invited
  <2> QED BY <1>1, <2>1 DEF OneHolderEach, Heard
<1> QED BY <1>2, <1>3, <1>4 DEF DidsInv

LEMMA NextDids == ASSUME Typed, DidsInv, [Next]_vars PROVE DidsInv'
<1>1. ASSUME NEW m \in msgs,
             \/ \E t \in Tasks : ReceiveRequest(t, m)
             \/ ReceiveComplete(m) \/ ReceivePing(m)
             \/ ReceiveResponse(m) \/ ReceivePingResponse(m)
             \/ Lose(m)
      PROVE  DidsInv'
  <2>1. CASE Lose(m)
    BY <2>1, RestDids DEF Lose
  <2> QED BY <1>1, <2>1, ReceiveRequestDids, ReceiveCompleteDids, ReceivePingDids,
             ReceiveResponseDids, ReceivePingResponseDids
<1>2. ASSUME NEW t \in Tasks,
             \/ FindInvitation(t) \/ NewRecord(t) \/ RejectRequest(t)
             \/ SaveRequest(t) \/ AttachRequest(t)
             \/ \E r \in DOMAIN recs : AcceptRequest(t, r)
             \/ CreateResponse(t) \/ ResaveResponse(t)
      PROVE  DidsInv'
  BY <1>2, FindInvitationDids, NewRecordDids, RejectRequestDids, SaveRequestDids, AttachRequestDids,
     AcceptRequestDids, CreateResponseDids, ResaveResponseDids
<1>3. ASSUME NEW i \in Invitees,
             \/ AcceptInvitation(i) \/ CreateRequest(i) \/ ResaveRequest(i)
             \/ SaveResponse(i) \/ SaveComplete(i)
             \/ SendPing(i) \/ RestartInvitee(i)
      PROVE  DidsInv'
  BY <1>3, AcceptInvitationDids, CreateRequestDids, ResaveRequestDids, SaveResponseDids,
     SaveCompleteDids, SendPingDids, RestartInviteeDids
<1>4. ASSUME NEW pair \in cached, Expire(pair) PROVE DidsInv'
  BY <1>4, RestDids DEF Expire
<1>5. CASE RestartInviter
  BY <1>5, RestartInviterDids
<1>6. CASE UNCHANGED vars
  BY <1>6, RestDids DEF vars, inviter, invitee
<1> QED BY <1>1, <1>2, <1>3, <1>4, <1>5, <1>6 DEF Next

\* Types and DIDs need no assumption on how the inviter's handlers meet.
LEMMA DidsInvariance == Spec => [](Typed /\ DidsInv)
<1>1. Init => Typed /\ DidsInv
  BY InitTyped, InitDids
<1>2. Typed /\ DidsInv /\ [Next]_vars => (Typed /\ DidsInv)'
  BY NextTyped, NextDids
<1> QED BY <1>1, <1>2, PTL DEF Spec

\* Together they are the types the module states.
LEMMA TypedIsTypeOK == Typed /\ DidsInv => TypeOK
<1> SUFFICES ASSUME Typed, DidsInv PROVE TypeOK
  OBVIOUS
<1>1. InviterTyped /\ InviteeTyped /\ CommonTyped /\ dids \in Nat
  BY DEF Typed, InviterTyped
<1>2. ASSUME NEW r \in DOMAIN recs
      PROVE  /\ recs[r].state \in States /\ recs[r].my \in 0..dids
             /\ recs[r].their \in Invitees \cup {0} /\ recs[r].req \in Requests
  <2>1. recs[r] \in ConnRecs
    BY <1>1 DEF InviterTyped
  <2>2. recs[r].my <= dids
    <3>1. recs[r].my # 0 => recs[r].my \in DidsOf(r)
      BY DEF DidsOf
    <3> QED BY <1>1, <3>1 DEF DidsInv, OneRecordEach
  <2>3. recs[r].my \in Nat
    BY <2>1 DEF ConnRecs
  <2> QED BY <1>1, <2>1, <2>2, <2>3 DEF ConnRecs
<1>3. DOMAIN attached = DOMAIN recs
  BY <1>1 DEF InviterTyped
<1>4. DOMAIN hand = Tasks
      /\ \A t \in Tasks : hand[t].pc \in {"idle", "find", "new", "save", "attach", "respond", "resave"}
  BY <1>1 DEF InviterTyped, Hands
<1>5. ASSUME NEW i \in Invitees
      PROVE  /\ inv[i].state \in States /\ inv[i].their \in 0..dids /\ inv[i].req \in Requests
             /\ asks[i] \in 0..MaxAsks
             /\ ask[i].pc \in {"idle", "save", "resave"}
             /\ take[i].pc \in {"idle", "save", "complete"}
             /\ accepted[i] \subseteq 1..dids
  <2>1. inv[i] \in InvRecs /\ ask[i] \in Asking /\ take[i] \in Taking /\ asks[i] \in 0..MaxAsks
    BY <1>1 DEF InviteeTyped
  <2>2. inv[i].their <= dids /\ accepted[i] \subseteq 1..dids
    BY DEF DidsInv, NoneUnmade
  <2>3. inv[i].their \in Nat
    BY <2>1 DEF InvRecs
  <2> QED BY <1>1, <2>1, <2>2, <2>3 DEF InvRecs, Asking, Taking
<1>6. \A m \in msgs : m.kind \in {"request", "response", "complete", "ping", "ping_response"}
  BY <1>1 DEF CommonTyped, Mail, Kinds
<1> QED BY <1>1, <1>2, <1>3, <1>4, <1>5, <1>6 DEF TypeOK, CommonTyped

\* The types of all there is, copies and messages included, and which DIDs are made.
WellTyped == TypeOK /\ Typed /\ NoneUnmade

\* Records, the copies handlers carry and messages keep their types, in every setting;
\* no record, handler's copy, invitee or message has a DID that create_local_did has
\* not made yet.
THEOREM TypeCorrect == Spec => []WellTyped
<1>1. Typed /\ DidsInv => WellTyped
  BY TypedIsTypeOK DEF WellTyped, DidsInv
<1> QED BY <1>1, DidsInvariance, PTL

\* No two records have one DID, although the handlers that save copies late
\* (connections/v1_0/manager.py 640-729, didexchange/v1_0/manager.py 481-497) write
\* back the DID of their copy, in every setting.
OneDidEach == \A r, q \in DOMAIN recs : recs[r].my = recs[q].my /\ recs[r].my # 0 => r = q

THEOREM DidsAreOwn == Spec => []OneDidEach
<1>1. DidsInv => OneDidEach
  <2> SUFFICES ASSUME DidsInv, NEW r \in DOMAIN recs, NEW q \in DOMAIN recs,
                      recs[r].my = recs[q].my, recs[r].my # 0
               PROVE  r = q
    BY DEF OneDidEach
  <2>1. recs[r].my \in DidsOf(r) /\ recs[r].my \in DidsOf(q)
    BY DEF DidsOf
  <2> QED BY <2>1 DEF DidsInv, OneRecordEach
<1> QED BY <1>1, DidsInvariance, PTL

\* A DID of the inviter that one invitee holds, or that a message brings to it, is held
\* by no other and brought to no other, in every setting: also where handlers of two
\* requests overlap in one record and write back their copies, the record answers
\* only the first request attached to it (didexchange/v1_0/manager.py 429-497,
\* connections/v1_0/manager.py 640-729).
NoDidShared ==
    /\ \A i, j \in Invitees : inv[i].their # 0 /\ inv[i].their = inv[j].their => i = j
    /\ \A m \in msgs : \A i \in Invitees : m.did # 0 /\ m.did = inv[i].their => m.who = i
    /\ \A m, n \in msgs : m.did # 0 /\ m.did = n.did => m.who = n.who

THEOREM HoldersAreApart == Spec => []NoDidShared
<1>1. Typed /\ DidsInv => NoDidShared
  <2> SUFFICES ASSUME Typed, DidsInv PROVE NoDidShared
    OBVIOUS
  <2>1. \A i, j \in Invitees : \A did : Heard(i, did) /\ Heard(j, did) => i = j
    BY DEF DidsInv, OneHolderEach
  <2>2. \A i \in Invitees : inv[i].their # 0 => Heard(i, inv[i].their)
    BY DEF Heard
  <2>3. \A m \in msgs : m.who \in Invitees /\ (m.did # 0 => Heard(m.who, m.did))
    BY DEF Heard, Typed, CommonTyped, Mail
  <2> QED BY <2>1, <2>2, <2>3 DEF NoDidShared
<1> QED BY <1>1, DidsInvariance, PTL
===============================================================================
