------------------------- MODULE IssueCredentialProofs -------------------------
(* Type correctness of IssueCredential, that an acknowledgement means a stored *)
(* credential, and that the exchange implements CredentialIssuance, for any    *)
(* number of handlers, records, requests, credentials, repeated messages and   *)
(* faults.                                                                     *)
EXTENDS IssueCredential, TLAPS

\* The holder's wallet holds a credential.
Kept == \E c \in Creds : wallet[c] > 0

\* The records: acknowledged means stored, received means there is something
\* to store.
RecordsOK ==
    /\ \A r \in IssuerRecs : rec[r] # None =>
          (rec[r].state = "credential_acked" => Kept)
    /\ \A r \in HolderRecs : rec[r] # None =>
          /\ rec[r].state = "credential_acked" => InWallet(rec[r].cred)
          /\ rec[r].state = "credential_received" => rec[r].raw \in Creds

\* The same of the copies the handlers carry from one await to the next; a
\* handler works on the records of its own agent.
IssuerJobOK(h) == job[h] # None =>
    /\ job[h].step \in IssuerSteps
    /\ job[h].id \in IssuerRecs \cup {None}
    /\ job[h].id = None => job[h].step = "offer"
    /\ job[h].copy.state = "credential_acked" => Kept

HolderJobOK(h) == job[h] # None =>
    /\ job[h].step \in HolderSteps
    /\ job[h].id \in HolderRecs \cup {None}
    /\ job[h].id = None => job[h].step = "saveOffer"
    /\ job[h].copy.state = "credential_acked" => InWallet(job[h].copy.cred)
    /\ job[h].copy.state = "credential_received" => job[h].copy.raw \in Creds
    /\ job[h].step \in {"saveCredential", "store"} => job[h].copy.state = "credential_received"
    /\ job[h].step \in {"saveStored", "finish"} => job[h].copy.state = "credential_acked"

\* An ack under way was sent by a holder that had stored.
AckOK == net[Msg("ack", None)] > 0 => Kept

IInv ==
    /\ TypeOK
    /\ RecordsOK
    /\ \A h \in IssuerHandlers : IssuerJobOK(h)
    /\ \A h \in HolderHandlers : HolderJobOK(h)
    /\ AckOK

USE ExchangeAssumption, NoneAssumption DEF Handlers, RecIds, Made

\* The invariant holds initially.
LEMMA InitIInv == Init => IInv
<1> SUFFICES ASSUME Init PROVE IInv
  OBVIOUS
<1>1. TypeOK
  <2> USE DEF Init
  <2>1. rec \in [RecIds -> Record \cup {None}] /\ used \subseteq RecIds
    OBVIOUS
  <2>2. job \in [Handlers -> Job \cup {None}] /\ index \in [Agents -> RecIds \cup {None}]
    OBVIOUS
  <2>3. net \in [Message -> Nat] /\ dups \in 0..MaxDup /\ faults \in 0..MaxFault
    OBVIOUS
  <2>4. wallet \in [Creds -> Nat]
    OBVIOUS
  <2>5. made \in [Creds -> [ex : IssuerRecs, request : Requests \cup {None}] \cup {None}]
    OBVIOUS
  <2> QED BY <2>1, <2>2, <2>3, <2>4, <2>5 DEF TypeOK
<1>2. AckOK
  BY DEF Init, AckOK, Message, Msg
<1> QED BY <1>1, <1>2 DEF Init, IInv, RecordsOK, IssuerJobOK, HolderJobOK

\* What the network operations do to the network.
LEMMA SendFacts ==
  ASSUME TypeOK, NEW m, Send(m)
  PROVE  /\ net' \in [Message -> Nat]
         /\ \A n \in Message : n # m => net'[n] = net[n]
<1>1. \A n \in Message : n # m => net'[n] = net[n]
  BY DEF TypeOK, Send
<1>2. \A n \in Message : net'[n] \in Nat
  <2> TAKE n \in Message
  <2>1. CASE n = m
    BY <2>1 DEF TypeOK, Send
  <2>2. CASE n # m
    BY <2>2, <1>1 DEF TypeOK
  <2> QED BY <2>1, <2>2
<1> QED BY <1>1, <1>2 DEF TypeOK, Send

LEMMA ReceiveFacts ==
  ASSUME TypeOK, NEW m \in Message, Receive(m)
  PROVE  /\ net[m] > 0
         /\ net' \in [Message -> Nat]
         /\ dups' \in 0..MaxDup
         /\ \A n \in Message : net'[n] > 0 => net[n] > 0
<1>1. CASE net' = [net EXCEPT ![m] = @ - 1] /\ UNCHANGED dups
  BY <1>1 DEF TypeOK, Receive
<1>2. CASE dups < MaxDup /\ dups' = dups + 1 /\ UNCHANGED net
  BY <1>2 DEF TypeOK, Receive
<1> QED BY <1>1, <1>2 DEF Receive

\* What messages are.
LEMMA MsgFacts ==
  /\ \A type \in {"proposal", "offer", "ack"} : Msg(type, None) \in Message
  /\ \A q \in Requests : Msg("request", q) \in Message
  /\ \A c \in Creds : Msg("issue", c) \in Message
  /\ \A b : Msg("ack", None) # Msg("issue", b) /\ Msg("ack", None) # Msg("request", b)
  /\ Msg("ack", None) # Msg("proposal", None) /\ Msg("ack", None) # Msg("offer", None)
  BY DEF Message, Msg

\* A new record is a record.
LEMMA NewRecordType ==
  ASSUME NEW s \in IssuerStates \cup HolderStates, NEW b \in BOOLEAN
  PROVE  /\ NewRecord(s, b) \in Record
         /\ NewRecord(s, b).state = s
  BY DEF NewRecord, Record

\* What putting a handler in a new place does to the handlers.
LEMMA GotoFacts ==
  ASSUME TypeOK, NEW h \in Handlers, NEW step \in IssuerSteps \cup HolderSteps,
         NEW id \in RecIds \cup {None}, NEW copy \in Record, Goto(h, step, id, copy)
  PROVE  /\ job' \in [Handlers -> Job \cup {None}]
         /\ job'[h].step = step /\ job'[h].id = id /\ job'[h].copy = copy
         /\ \A g \in Handlers : g # h => job'[g] = job[g]
<1>1. [step |-> step, id |-> id, copy |-> copy] \in Job
  BY DEF Job
<1> QED BY <1>1 DEF TypeOK, Goto

\* And what ending it does.
LEMMA EndFacts ==
  ASSUME TypeOK, NEW h \in Handlers, End(h)
  PROVE  /\ job' \in [Handlers -> Job \cup {None}]
         /\ job'[h] = None
         /\ \A g \in Handlers : g # h => job'[g] = job[g]
  BY DEF TypeOK, End

\* The other handlers are as good as they were, as long as the wallet only
\* gains.
LEMMA OthersOK ==
  ASSUME IInv, NEW h \in Handlers, wallet' \in [Creds -> Nat],
         \A c \in Creds : wallet[c] > 0 => wallet'[c] > 0,
         \A g \in Handlers : g # h => job'[g] = job[g]
  PROVE  /\ \A g \in IssuerHandlers : g # h => IssuerJobOK(g)'
         /\ \A g \in HolderHandlers : g # h => HolderJobOK(g)'
  BY DEF IInv, IssuerJobOK, HolderJobOK, Kept, InWallet

\* A record that is found is stored.
LEMMA FoundFacts ==
  ASSUME TypeOK, NEW a \in Agents, NEW r \in RecsOf(a), Found(a, r)
  PROVE  rec[r] # None /\ rec[r] \in Record
  BY DEF TypeOK, Found, Stored, RecsOf

\* What is unchanged by a handler that only reads records keeps its part of
\* the invariant.
LEMMA ReadOnly ==
  ASSUME IInv, UNCHANGED <<rec, used, faults, offered, requests, reqCache, lapsed, made, wallet>>,
         job' \in [Handlers -> Job \cup {None}],
         index' \in [Agents -> RecIds \cup {None}],
         net' \in [Message -> Nat], dups' \in 0..MaxDup,
         net'[Msg("ack", None)] > 0 => net[Msg("ack", None)] > 0
  PROVE  TypeOK' /\ RecordsOK' /\ AckOK'
<1>1. TypeOK'
  BY DEF IInv, TypeOK
<1>2. RecordsOK'
  BY DEF IInv, RecordsOK, Kept, InWallet
<1>3. AckOK'
  BY DEF IInv, AckOK, Kept
<1> QED BY <1>1, <1>2, <1>3

\* StartOffer keeps the invariant.
LEMMA StartOfferStep ==
  ASSUME IInv, NEW h \in IssuerHandlers, StartOffer(h) PROVE IInv'
<1> USE DEF StartOffer
<1>1. PICK auto \in {TRUE, AutoIssue} : Begin(h, "offer", None, NewRecord("offer_sent", auto))
  OBVIOUS
<1>2. /\ NewRecord("offer_sent", auto) \in Record
      /\ NewRecord("offer_sent", auto).state = "offer_sent"
  BY NewRecordType DEF IssuerStates
<1>3. /\ job' \in [Handlers -> Job \cup {None}]
      /\ job'[h].step = "offer" /\ job'[h].id = None
      /\ job'[h].copy = NewRecord("offer_sent", auto)
      /\ \A g \in Handlers : g # h => job'[g] = job[g]
  BY <1>1, <1>2, GotoFacts DEF Begin, Goto, IInv, IssuerSteps
<1>4. IssuerJobOK(h)'
  BY <1>2, <1>3 DEF IssuerJobOK, IssuerSteps
<1>5. /\ \A g \in IssuerHandlers : g # h => IssuerJobOK(g)'
      /\ \A g \in HolderHandlers : g # h => HolderJobOK(g)'
  BY <1>3, OthersOK DEF IInv, TypeOK
<1>6. TypeOK'
  BY <1>3 DEF IInv, TypeOK
<1>7. RecordsOK' /\ AckOK'
  BY DEF IInv, RecordsOK, AckOK, Kept, InWallet
<1> QED BY <1>4, <1>5, <1>6, <1>7 DEF IInv

\* ReceiveProposal keeps the invariant.
LEMMA ReceiveProposalStep ==
  ASSUME IInv, NEW h \in IssuerHandlers, ReceiveProposal(h) PROVE IInv'
<1> USE DEF ReceiveProposal, Begin, At, Goto, End, Add, CanUpdate, Update
<1>0. Receive(Msg("proposal", None)) /\ TypeOK
  BY DEF IInv
<1>a. /\ net[Msg("proposal", None)] > 0
      /\ net' \in [Message -> Nat]
      /\ dups' \in 0..MaxDup
      /\ \A n \in Message : net'[n] > 0 => net[n] > 0
  BY <1>0, MsgFacts, ReceiveFacts
<1>1. TypeOK'
  BY <1>a, NewRecordType DEF IInv, TypeOK, Job, Record, IssuerJobOK, HolderJobOK, IssuerStates,
     HolderStates, IssuerSteps, HolderSteps, Stored, RecsOf, Agents, Storable, RequestFor
<1>2. RecordsOK'
  BY <1>a, NewRecordType DEF IInv, TypeOK, RecordsOK, IssuerJobOK, HolderJobOK, Kept, InWallet, Job, Record,
     IssuerStates, HolderStates, IssuerSteps, HolderSteps
<1>3. ASSUME NEW g \in IssuerHandlers PROVE IssuerJobOK(g)'
  BY <1>a, NewRecordType DEF IInv, TypeOK, RecordsOK, IssuerJobOK, HolderJobOK, Kept, InWallet, Job, Record, AckOK,
     IssuerStates, HolderStates, IssuerSteps, HolderSteps, Stored, RecsOf, Found
<1>4. ASSUME NEW g \in HolderHandlers PROVE HolderJobOK(g)'
  BY <1>a, NewRecordType DEF IInv, TypeOK, RecordsOK, IssuerJobOK, HolderJobOK, Kept, InWallet, Job, Record,
     IssuerStates, HolderStates, IssuerSteps, HolderSteps, Stored, RecsOf, Found, Storable
<1>5. AckOK'
  BY <1>a, MsgFacts DEF IInv, TypeOK, AckOK, HolderJobOK, Kept, InWallet
<1> QED BY <1>1, <1>2, <1>3, <1>4, <1>5 DEF IInv

\* SendBoundOffer keeps the invariant.
LEMMA SendBoundOfferStep ==
  ASSUME IInv, NEW h \in IssuerHandlers, SendBoundOffer(h) PROVE IInv'
<1> USE DEF SendBoundOffer, Begin, At, Goto, End, Add, CanUpdate, Update
<1>1. TypeOK'
  BY NewRecordType DEF IInv, TypeOK, Job, Record, IssuerJobOK, HolderJobOK, IssuerStates,
     HolderStates, IssuerSteps, HolderSteps, Stored, RecsOf, Agents, Storable, RequestFor
<1>2. RecordsOK'
  BY NewRecordType DEF IInv, TypeOK, RecordsOK, IssuerJobOK, HolderJobOK, Kept, InWallet, Job, Record,
     IssuerStates, HolderStates, IssuerSteps, HolderSteps
<1>3. ASSUME NEW g \in IssuerHandlers PROVE IssuerJobOK(g)'
  BY NewRecordType DEF IInv, TypeOK, RecordsOK, IssuerJobOK, HolderJobOK, Kept, InWallet, Job, Record, AckOK,
     IssuerStates, HolderStates, IssuerSteps, HolderSteps, Stored, RecsOf, Found
<1>4. ASSUME NEW g \in HolderHandlers PROVE HolderJobOK(g)'
  BY NewRecordType DEF IInv, TypeOK, RecordsOK, IssuerJobOK, HolderJobOK, Kept, InWallet, Job, Record,
     IssuerStates, HolderStates, IssuerSteps, HolderSteps, Stored, RecsOf, Found, Storable
<1>5. AckOK'
  BY MsgFacts DEF IInv, TypeOK, AckOK, HolderJobOK, Kept, InWallet
<1> QED BY <1>1, <1>2, <1>3, <1>4, <1>5 DEF IInv

\* SaveOffer keeps the invariant.
LEMMA SaveOfferStep ==
  ASSUME IInv, NEW h \in IssuerHandlers, SaveOffer(h) PROVE IInv'
<1> USE DEF SaveOffer, Begin, At, Goto, End, Add, CanUpdate, Update
<1>0. Send(Msg("offer", None)) /\ TypeOK
  BY DEF IInv
<1>a. /\ net' \in [Message -> Nat]
      /\ \A n \in Message : n # Msg("offer", None) => net'[n] = net[n]
  BY <1>0, SendFacts
<1>1. TypeOK'
  BY <1>a, NewRecordType DEF IInv, TypeOK, Job, Record, IssuerJobOK, HolderJobOK, IssuerStates,
     HolderStates, IssuerSteps, HolderSteps, Stored, RecsOf, Agents, Storable, RequestFor
<1>2. RecordsOK'
  BY <1>a, NewRecordType DEF IInv, TypeOK, RecordsOK, IssuerJobOK, HolderJobOK, Kept, InWallet, Job, Record,
     IssuerStates, HolderStates, IssuerSteps, HolderSteps
<1>3. ASSUME NEW g \in IssuerHandlers PROVE IssuerJobOK(g)'
  BY <1>a, NewRecordType DEF IInv, TypeOK, RecordsOK, IssuerJobOK, HolderJobOK, Kept, InWallet, Job, Record, AckOK,
     IssuerStates, HolderStates, IssuerSteps, HolderSteps, Stored, RecsOf, Found
<1>4. ASSUME NEW g \in HolderHandlers PROVE HolderJobOK(g)'
  BY <1>a, NewRecordType DEF IInv, TypeOK, RecordsOK, IssuerJobOK, HolderJobOK, Kept, InWallet, Job, Record,
     IssuerStates, HolderStates, IssuerSteps, HolderSteps, Stored, RecsOf, Found, Storable
<1>5. AckOK'
  BY <1>a, MsgFacts DEF IInv, TypeOK, AckOK, HolderJobOK, Kept, InWallet
<1> QED BY <1>1, <1>2, <1>3, <1>4, <1>5 DEF IInv

\* ReceiveRequest keeps the invariant.
LEMMA ReceiveRequestStep ==
  ASSUME IInv, NEW h \in IssuerHandlers, NEW q \in Requests, ReceiveRequest(h, q) PROVE IInv'
<1> USE DEF ReceiveRequest
<1>1. /\ net[Msg("request", q)] > 0
      /\ net' \in [Message -> Nat]
      /\ dups' \in 0..MaxDup
      /\ \A n \in Message : net'[n] > 0 => net[n] > 0
  BY MsgFacts, ReceiveFacts DEF IInv
<1>2. ASSUME job' \in [Handlers -> Job \cup {None}],
             index' \in [Agents -> RecIds \cup {None}],
             \A g \in Handlers : g # h => job'[g] = job[g],
             IssuerJobOK(h)'
      PROVE  IInv'
  <2>1. TypeOK' /\ RecordsOK' /\ AckOK'
    BY <1>1, <1>2, MsgFacts, ReadOnly
  <2>2. /\ \A g \in IssuerHandlers : g # h => IssuerJobOK(g)'
        /\ \A g \in HolderHandlers : g # h => HolderJobOK(g)'
    BY <1>2, OthersOK DEF IInv, TypeOK
  <2> QED BY <1>2, <2>1, <2>2 DEF IInv
<1>3. ASSUME NEW r \in IssuerRecs, Found("issuer", r),
             index' = [index EXCEPT !["issuer"] = r],
             Begin(h, "saveRequest", r, [rec[r] EXCEPT !.request = q, !.state = "request_received"])
      PROVE  IInv'
  <2> DEFINE copy == [rec[r] EXCEPT !.request = q, !.state = "request_received"]
  <2>1. rec[r] # None /\ rec[r] \in Record
    BY <1>3, FoundFacts DEF IInv, Agents, RecsOf
  <2>2. copy \in Record /\ copy.state = "request_received"
    BY <2>1 DEF Record, IssuerStates, HolderStates
  <2> HIDE DEF copy
  <2>3. /\ job' \in [Handlers -> Job \cup {None}]
        /\ job'[h].step = "saveRequest" /\ job'[h].id = r /\ job'[h].copy = copy
        /\ \A g \in Handlers : g # h => job'[g] = job[g]
    <3>1. Goto(h, "saveRequest", r, copy)
      BY <1>3 DEF Begin, Goto, copy
    <3> QED BY <2>2, <3>1, GotoFacts DEF IInv, IssuerSteps
  <2>4. IssuerJobOK(h)'
    BY <2>2, <2>3 DEF IssuerJobOK, IssuerSteps
  <2>5. index' \in [Agents -> RecIds \cup {None}]
    BY <1>3 DEF IInv, TypeOK, Agents
  <2> QED BY <1>2, <2>3, <2>4, <2>5
<1>4. ASSUME UNCHANGED <<index, job>> PROVE IInv'
  <2>1. IssuerJobOK(h)'
    BY <1>4 DEF IInv, IssuerJobOK, HolderJobOK, Kept, InWallet
  <2> QED BY <1>2, <1>4, <2>1 DEF IInv, TypeOK
<1> QED BY <1>3, <1>4

\* SaveRequest keeps the invariant.
LEMMA SaveRequestStep ==
  ASSUME IInv, NEW h \in IssuerHandlers, SaveRequest(h) PROVE IInv'
<1> USE DEF SaveRequest, Begin, At, Goto, End, Add, CanUpdate, Update
<1>1. TypeOK'
  BY NewRecordType DEF IInv, TypeOK, Job, Record, IssuerJobOK, HolderJobOK, IssuerStates,
     HolderStates, IssuerSteps, HolderSteps, Stored, RecsOf, Agents, Storable, RequestFor
<1>2. RecordsOK'
  BY NewRecordType DEF IInv, TypeOK, RecordsOK, IssuerJobOK, HolderJobOK, Kept, InWallet, Job, Record,
     IssuerStates, HolderStates, IssuerSteps, HolderSteps
<1>3. ASSUME NEW g \in IssuerHandlers PROVE IssuerJobOK(g)'
  BY NewRecordType DEF IInv, TypeOK, RecordsOK, IssuerJobOK, HolderJobOK, Kept, InWallet, Job, Record, AckOK,
     IssuerStates, HolderStates, IssuerSteps, HolderSteps, Stored, RecsOf, Found
<1>4. ASSUME NEW g \in HolderHandlers PROVE HolderJobOK(g)'
  BY NewRecordType DEF IInv, TypeOK, RecordsOK, IssuerJobOK, HolderJobOK, Kept, InWallet, Job, Record,
     IssuerStates, HolderStates, IssuerSteps, HolderSteps, Stored, RecsOf, Found, Storable
<1>5. AckOK'
  BY MsgFacts DEF IInv, TypeOK, AckOK, HolderJobOK, Kept, InWallet
<1> QED BY <1>1, <1>2, <1>3, <1>4, <1>5 DEF IInv

\* SendIssue keeps the invariant.
LEMMA SendIssueStep ==
  ASSUME IInv, NEW h \in IssuerHandlers, SendIssue(h) PROVE IInv'
<1> USE DEF SendIssue, Begin, At, Goto, End, Add, CanUpdate, Update
<1>1. TypeOK'
  BY NewRecordType DEF IInv, TypeOK, Job, Record, IssuerJobOK, HolderJobOK, IssuerStates,
     HolderStates, IssuerSteps, HolderSteps, Stored, RecsOf, Agents, Storable, RequestFor
<1>2. RecordsOK'
  BY NewRecordType DEF IInv, TypeOK, RecordsOK, IssuerJobOK, HolderJobOK, Kept, InWallet, Job, Record,
     IssuerStates, HolderStates, IssuerSteps, HolderSteps
<1>3. ASSUME NEW g \in IssuerHandlers PROVE IssuerJobOK(g)'
  BY NewRecordType DEF IInv, TypeOK, RecordsOK, IssuerJobOK, HolderJobOK, Kept, InWallet, Job, Record, AckOK,
     IssuerStates, HolderStates, IssuerSteps, HolderSteps, Stored, RecsOf, Found
<1>4. ASSUME NEW g \in HolderHandlers PROVE HolderJobOK(g)'
  BY NewRecordType DEF IInv, TypeOK, RecordsOK, IssuerJobOK, HolderJobOK, Kept, InWallet, Job, Record,
     IssuerStates, HolderStates, IssuerSteps, HolderSteps, Stored, RecsOf, Found, Storable
<1>5. AckOK'
  BY MsgFacts DEF IInv, TypeOK, AckOK, HolderJobOK, Kept, InWallet
<1> QED BY <1>1, <1>2, <1>3, <1>4, <1>5 DEF IInv

\* CreateCredential keeps the invariant.
LEMMA CreateCredentialStep ==
  ASSUME IInv, NEW h \in IssuerHandlers, CreateCredential(h) PROVE IInv'
<1> USE DEF CreateCredential, Begin, At, Goto, End, Add, CanUpdate, Update
<1>1. TypeOK'
  BY NewRecordType DEF IInv, TypeOK, Job, Record, IssuerJobOK, HolderJobOK, IssuerStates,
     HolderStates, IssuerSteps, HolderSteps, Stored, RecsOf, Agents, Storable, RequestFor
<1>2. RecordsOK'
  BY NewRecordType DEF IInv, TypeOK, RecordsOK, IssuerJobOK, HolderJobOK, Kept, InWallet, Job, Record,
     IssuerStates, HolderStates, IssuerSteps, HolderSteps
<1>3. ASSUME NEW g \in IssuerHandlers PROVE IssuerJobOK(g)'
  BY NewRecordType DEF IInv, TypeOK, RecordsOK, IssuerJobOK, HolderJobOK, Kept, InWallet, Job, Record, AckOK,
     IssuerStates, HolderStates, IssuerSteps, HolderSteps, Stored, RecsOf, Found
<1>4. ASSUME NEW g \in HolderHandlers PROVE HolderJobOK(g)'
  BY NewRecordType DEF IInv, TypeOK, RecordsOK, IssuerJobOK, HolderJobOK, Kept, InWallet, Job, Record,
     IssuerStates, HolderStates, IssuerSteps, HolderSteps, Stored, RecsOf, Found, Storable
<1>5. AckOK'
  BY MsgFacts DEF IInv, TypeOK, AckOK, HolderJobOK, Kept, InWallet
<1> QED BY <1>1, <1>2, <1>3, <1>4, <1>5 DEF IInv

\* SaveIssued keeps the invariant.
LEMMA SaveIssuedStep ==
  ASSUME IInv, NEW h \in IssuerHandlers, SaveIssued(h) PROVE IInv'
<1> USE DEF SaveIssued, Begin, At, Goto, End, Add, CanUpdate, Update
<1>0. Send(Msg("issue", job[h].copy.cred)) /\ TypeOK
  BY DEF IInv
<1>a. /\ net' \in [Message -> Nat]
      /\ \A n \in Message : n # Msg("issue", job[h].copy.cred) => net'[n] = net[n]
  BY <1>0, SendFacts
<1>1. TypeOK'
  BY <1>a, NewRecordType DEF IInv, TypeOK, Job, Record, IssuerJobOK, HolderJobOK, IssuerStates,
     HolderStates, IssuerSteps, HolderSteps, Stored, RecsOf, Agents, Storable, RequestFor
<1>2. RecordsOK'
  BY <1>a, NewRecordType DEF IInv, TypeOK, RecordsOK, IssuerJobOK, HolderJobOK, Kept, InWallet, Job, Record,
     IssuerStates, HolderStates, IssuerSteps, HolderSteps
<1>3. ASSUME NEW g \in IssuerHandlers PROVE IssuerJobOK(g)'
  BY <1>a, NewRecordType DEF IInv, TypeOK, RecordsOK, IssuerJobOK, HolderJobOK, Kept, InWallet, Job, Record, AckOK,
     IssuerStates, HolderStates, IssuerSteps, HolderSteps, Stored, RecsOf, Found
<1>4. ASSUME NEW g \in HolderHandlers PROVE HolderJobOK(g)'
  BY <1>a, NewRecordType DEF IInv, TypeOK, RecordsOK, IssuerJobOK, HolderJobOK, Kept, InWallet, Job, Record,
     IssuerStates, HolderStates, IssuerSteps, HolderSteps, Stored, RecsOf, Found, Storable
<1>5. AckOK'
  BY <1>a, MsgFacts DEF IInv, TypeOK, AckOK, HolderJobOK, Kept, InWallet
<1> QED BY <1>1, <1>2, <1>3, <1>4, <1>5 DEF IInv

\* ReceiveAck keeps the invariant.
LEMMA ReceiveAckStep ==
  ASSUME IInv, NEW h \in IssuerHandlers, ReceiveAck(h) PROVE IInv'
<1> USE DEF ReceiveAck
<1>1. /\ net[Msg("ack", None)] > 0
      /\ net' \in [Message -> Nat]
      /\ dups' \in 0..MaxDup
      /\ \A n \in Message : net'[n] > 0 => net[n] > 0
  BY MsgFacts, ReceiveFacts DEF IInv
<1>2. ASSUME job' \in [Handlers -> Job \cup {None}],
             index' \in [Agents -> RecIds \cup {None}],
             \A g \in Handlers : g # h => job'[g] = job[g],
             IssuerJobOK(h)'
      PROVE  IInv'
  <2>1. TypeOK' /\ RecordsOK' /\ AckOK'
    BY <1>1, <1>2, MsgFacts, ReadOnly
  <2>2. /\ \A g \in IssuerHandlers : g # h => IssuerJobOK(g)'
        /\ \A g \in HolderHandlers : g # h => HolderJobOK(g)'
    BY <1>2, OthersOK DEF IInv, TypeOK
  <2> QED BY <1>2, <2>1, <2>2 DEF IInv
<1>3. ASSUME NEW r \in IssuerRecs, Found("issuer", r),
             index' = [index EXCEPT !["issuer"] = r],
             Begin(h, "saveAcked", r, [rec[r] EXCEPT !.state = "credential_acked"])
      PROVE  IInv'
  <2> DEFINE copy == [rec[r] EXCEPT !.state = "credential_acked"]
  <2>1. rec[r] # None /\ rec[r] \in Record
    BY <1>3, FoundFacts DEF IInv, Agents, RecsOf
  <2>2. copy \in Record /\ copy.state = "credential_acked"
    BY <2>1 DEF Record, IssuerStates, HolderStates
  <2> HIDE DEF copy
  <2>3. /\ job' \in [Handlers -> Job \cup {None}]
        /\ job'[h].step = "saveAcked" /\ job'[h].id = r /\ job'[h].copy = copy
        /\ \A g \in Handlers : g # h => job'[g] = job[g]
    <3>1. Goto(h, "saveAcked", r, copy)
      BY <1>3 DEF Begin, Goto, copy
    <3> QED BY <2>2, <3>1, GotoFacts DEF IInv, IssuerSteps
  <2>4. IssuerJobOK(h)'
    BY <1>1, <2>2, <2>3, MsgFacts DEF IInv, AckOK, Kept, IssuerJobOK, IssuerSteps
  <2>5. index' \in [Agents -> RecIds \cup {None}]
    BY <1>3 DEF IInv, TypeOK, Agents
  <2> QED BY <1>2, <2>3, <2>4, <2>5
<1>4. ASSUME UNCHANGED <<index, job>> PROVE IInv'
  <2>1. IssuerJobOK(h)'
    BY <1>4 DEF IInv, IssuerJobOK, HolderJobOK, Kept, InWallet
  <2> QED BY <1>2, <1>4, <2>1 DEF IInv, TypeOK
<1> QED BY <1>3, <1>4

\* SaveAcked keeps the invariant.
LEMMA SaveAckedStep ==
  ASSUME IInv, NEW h \in IssuerHandlers, SaveAcked(h) PROVE IInv'
<1> USE DEF SaveAcked, Begin, At, Goto, End, Add, CanUpdate, Update
<1>1. TypeOK'
  BY NewRecordType DEF IInv, TypeOK, Job, Record, IssuerJobOK, HolderJobOK, IssuerStates,
     HolderStates, IssuerSteps, HolderSteps, Stored, RecsOf, Agents, Storable, RequestFor
<1>2. RecordsOK'
  BY NewRecordType DEF IInv, TypeOK, RecordsOK, IssuerJobOK, HolderJobOK, Kept, InWallet, Job, Record,
     IssuerStates, HolderStates, IssuerSteps, HolderSteps
<1>3. ASSUME NEW g \in IssuerHandlers PROVE IssuerJobOK(g)'
  BY NewRecordType DEF IInv, TypeOK, RecordsOK, IssuerJobOK, HolderJobOK, Kept, InWallet, Job, Record, AckOK,
     IssuerStates, HolderStates, IssuerSteps, HolderSteps, Stored, RecsOf, Found
<1>4. ASSUME NEW g \in HolderHandlers PROVE HolderJobOK(g)'
  BY NewRecordType DEF IInv, TypeOK, RecordsOK, IssuerJobOK, HolderJobOK, Kept, InWallet, Job, Record,
     IssuerStates, HolderStates, IssuerSteps, HolderSteps, Stored, RecsOf, Found, Storable
<1>5. AckOK'
  BY MsgFacts DEF IInv, TypeOK, AckOK, HolderJobOK, Kept, InWallet
<1> QED BY <1>1, <1>2, <1>3, <1>4, <1>5 DEF IInv

\* RemoveAcked keeps the invariant.
LEMMA RemoveAckedStep ==
  ASSUME IInv, NEW h \in IssuerHandlers, RemoveAcked(h) PROVE IInv'
<1> USE DEF RemoveAcked, Begin, At, Goto, End, Add, CanUpdate, Update
<1>1. TypeOK'
  BY NewRecordType DEF IInv, TypeOK, Job, Record, IssuerJobOK, HolderJobOK, IssuerStates,
     HolderStates, IssuerSteps, HolderSteps, Stored, RecsOf, Agents, Storable, RequestFor
<1>2. RecordsOK'
  BY NewRecordType DEF IInv, TypeOK, RecordsOK, IssuerJobOK, HolderJobOK, Kept, InWallet, Job, Record,
     IssuerStates, HolderStates, IssuerSteps, HolderSteps
<1>3. ASSUME NEW g \in IssuerHandlers PROVE IssuerJobOK(g)'
  BY NewRecordType DEF IInv, TypeOK, RecordsOK, IssuerJobOK, HolderJobOK, Kept, InWallet, Job, Record, AckOK,
     IssuerStates, HolderStates, IssuerSteps, HolderSteps, Stored, RecsOf, Found
<1>4. ASSUME NEW g \in HolderHandlers PROVE HolderJobOK(g)'
  BY NewRecordType DEF IInv, TypeOK, RecordsOK, IssuerJobOK, HolderJobOK, Kept, InWallet, Job, Record,
     IssuerStates, HolderStates, IssuerSteps, HolderSteps, Stored, RecsOf, Found, Storable
<1>5. AckOK'
  BY MsgFacts DEF IInv, TypeOK, AckOK, HolderJobOK, Kept, InWallet
<1> QED BY <1>1, <1>2, <1>3, <1>4, <1>5 DEF IInv

\* SendProposal keeps the invariant.
LEMMA SendProposalStep ==
  ASSUME IInv, NEW h \in HolderHandlers, SendProposal(h) PROVE IInv'
<1> USE DEF SendProposal
<1>1. /\ net' \in [Message -> Nat]
      /\ \A n \in Message : n # Msg("proposal", None) => net'[n] = net[n]
  BY SendFacts DEF IInv
<1>2. PICK r \in HolderRecs : Add(r, NewRecord("proposal_sent", FALSE))
  OBVIOUS
<1>3. /\ NewRecord("proposal_sent", FALSE) \in Record
      /\ NewRecord("proposal_sent", FALSE).state = "proposal_sent"
  BY NewRecordType DEF HolderStates
<1>4. /\ rec' \in [RecIds -> Record \cup {None}] /\ used' \subseteq RecIds
      /\ rec'[r].state = "proposal_sent"
      /\ \A s \in RecIds : s # r => rec'[s] = rec[s]
  BY <1>2, <1>3 DEF IInv, TypeOK, Add
<1>5. TypeOK'
  BY <1>1, <1>4 DEF IInv, TypeOK
<1>6. RecordsOK'
  BY <1>4 DEF IInv, RecordsOK, Kept, InWallet
<1>7. AckOK'
  BY <1>1, MsgFacts DEF IInv, AckOK, Kept
<1>8. /\ \A g \in IssuerHandlers : IssuerJobOK(g)'
      /\ \A g \in HolderHandlers : HolderJobOK(g)'
  BY DEF IInv, IssuerJobOK, HolderJobOK, Kept, InWallet
<1> QED BY <1>5, <1>6, <1>7, <1>8 DEF IInv

\* ReceiveOffer keeps the invariant.
LEMMA ReceiveOfferStep ==
  ASSUME IInv, NEW h \in HolderHandlers, ReceiveOffer(h) PROVE IInv'
<1> USE DEF ReceiveOffer
<1>1. /\ net[Msg("offer", None)] > 0
      /\ net' \in [Message -> Nat]
      /\ dups' \in 0..MaxDup
      /\ \A n \in Message : net'[n] > 0 => net[n] > 0
  BY MsgFacts, ReceiveFacts DEF IInv
<1>2. ASSUME job' \in [Handlers -> Job \cup {None}],
             index' \in [Agents -> RecIds \cup {None}],
             \A g \in Handlers : g # h => job'[g] = job[g],
             HolderJobOK(h)'
      PROVE  IInv'
  <2>1. TypeOK' /\ RecordsOK' /\ AckOK'
    BY <1>1, <1>2, MsgFacts, ReadOnly
  <2>2. /\ \A g \in IssuerHandlers : g # h => IssuerJobOK(g)'
        /\ \A g \in HolderHandlers : g # h => HolderJobOK(g)'
    BY <1>2, OthersOK DEF IInv, TypeOK
  <2> QED BY <1>2, <2>1, <2>2 DEF IInv
<1>3. ASSUME NEW r \in HolderRecs, Found("holder", r),
             index' = [index EXCEPT !["holder"] = r],
             Begin(h, "saveOffer", r, [rec[r] EXCEPT !.state = "offer_received"])
      PROVE  IInv'
  <2> DEFINE copy == [rec[r] EXCEPT !.state = "offer_received"]
  <2>1. rec[r] # None /\ rec[r] \in Record
    BY <1>3, FoundFacts DEF IInv, Agents, RecsOf
  <2>2. copy \in Record /\ copy.state = "offer_received"
    BY <2>1 DEF Record, IssuerStates, HolderStates
  <2> HIDE DEF copy
  <2>3. /\ job' \in [Handlers -> Job \cup {None}]
        /\ job'[h].step = "saveOffer" /\ job'[h].id = r /\ job'[h].copy = copy
        /\ \A g \in Handlers : g # h => job'[g] = job[g]
    <3>1. Goto(h, "saveOffer", r, copy)
      BY <1>3 DEF Begin, Goto, copy
    <3> QED BY <2>2, <3>1, GotoFacts DEF IInv, HolderSteps
  <2>4. HolderJobOK(h)'
    BY <2>2, <2>3 DEF HolderJobOK, HolderSteps
  <2>5. index' \in [Agents -> RecIds \cup {None}]
    BY <1>3 DEF IInv, TypeOK, Agents
  <2> QED BY <1>2, <2>3, <2>4, <2>5
<1>4. ASSUME UNCHANGED <<index, job>> PROVE IInv'
  <2>1. HolderJobOK(h)'
    BY <1>4 DEF IInv, IssuerJobOK, HolderJobOK, Kept, InWallet
  <2> QED BY <1>2, <1>4, <2>1 DEF IInv, TypeOK
<1>5. ASSUME Begin(h, "saveOffer", None, NewRecord("offer_received", FALSE)), UNCHANGED index
      PROVE  IInv'
  <2> DEFINE copy == NewRecord("offer_received", FALSE)
  <2>1. copy \in Record /\ copy.state = "offer_received"
    BY NewRecordType DEF HolderStates
  <2> HIDE DEF copy
  <2>2. /\ job' \in [Handlers -> Job \cup {None}]
        /\ job'[h].step = "saveOffer" /\ job'[h].id = None /\ job'[h].copy = copy
        /\ \A g \in Handlers : g # h => job'[g] = job[g]
    <3>1. Goto(h, "saveOffer", None, copy)
      BY <1>5 DEF Begin, Goto, copy
    <3> QED BY <2>1, <3>1, GotoFacts DEF IInv, HolderSteps, TypeOK
  <2>3. HolderJobOK(h)'
    BY <2>1, <2>2 DEF HolderJobOK, HolderSteps
  <2> QED BY <1>2, <1>5, <2>2, <2>3 DEF IInv, TypeOK
<1> QED BY <1>3, <1>4, <1>5

\* SaveOfferReceived keeps the invariant.
LEMMA SaveOfferReceivedStep ==
  ASSUME IInv, NEW h \in HolderHandlers, SaveOfferReceived(h) PROVE IInv'
<1> USE DEF SaveOfferReceived, Begin, At, Goto, End, Add, CanUpdate, Update
<1>1. TypeOK'
  BY NewRecordType DEF IInv, TypeOK, Job, Record, IssuerJobOK, HolderJobOK, IssuerStates,
     HolderStates, IssuerSteps, HolderSteps, Stored, RecsOf, Agents, Storable, RequestFor
<1>2. RecordsOK'
  BY NewRecordType DEF IInv, TypeOK, RecordsOK, IssuerJobOK, HolderJobOK, Kept, InWallet, Job, Record,
     IssuerStates, HolderStates, IssuerSteps, HolderSteps
<1>3. ASSUME NEW g \in IssuerHandlers PROVE IssuerJobOK(g)'
  BY NewRecordType DEF IInv, TypeOK, RecordsOK, IssuerJobOK, HolderJobOK, Kept, InWallet, Job, Record, AckOK,
     IssuerStates, HolderStates, IssuerSteps, HolderSteps, Stored, RecsOf, Found
<1>4. ASSUME NEW g \in HolderHandlers PROVE HolderJobOK(g)'
  BY NewRecordType DEF IInv, TypeOK, RecordsOK, IssuerJobOK, HolderJobOK, Kept, InWallet, Job, Record,
     IssuerStates, HolderStates, IssuerSteps, HolderSteps, Stored, RecsOf, Found, Storable
<1>5. AckOK'
  BY MsgFacts DEF IInv, TypeOK, AckOK, HolderJobOK, Kept, InWallet
<1> QED BY <1>1, <1>2, <1>3, <1>4, <1>5 DEF IInv

\* SendRequest keeps the invariant.
LEMMA SendRequestStep ==
  ASSUME IInv, NEW h \in HolderHandlers, SendRequest(h) PROVE IInv'
<1> USE DEF SendRequest, Begin, At, Goto, End, Add, CanUpdate, Update
<1>1. TypeOK'
  BY NewRecordType DEF IInv, TypeOK, Job, Record, IssuerJobOK, HolderJobOK, IssuerStates,
     HolderStates, IssuerSteps, HolderSteps, Stored, RecsOf, Agents, Storable, RequestFor
<1>2. RecordsOK'
  BY NewRecordType DEF IInv, TypeOK, RecordsOK, IssuerJobOK, HolderJobOK, Kept, InWallet, Job, Record,
     IssuerStates, HolderStates, IssuerSteps, HolderSteps
<1>3. ASSUME NEW g \in IssuerHandlers PROVE IssuerJobOK(g)'
  BY NewRecordType DEF IInv, TypeOK, RecordsOK, IssuerJobOK, HolderJobOK, Kept, InWallet, Job, Record, AckOK,
     IssuerStates, HolderStates, IssuerSteps, HolderSteps, Stored, RecsOf, Found
<1>4. ASSUME NEW g \in HolderHandlers PROVE HolderJobOK(g)'
  BY NewRecordType DEF IInv, TypeOK, RecordsOK, IssuerJobOK, HolderJobOK, Kept, InWallet, Job, Record,
     IssuerStates, HolderStates, IssuerSteps, HolderSteps, Stored, RecsOf, Found, Storable
<1>5. AckOK'
  BY MsgFacts DEF IInv, TypeOK, AckOK, HolderJobOK, Kept, InWallet
<1> QED BY <1>1, <1>2, <1>3, <1>4, <1>5 DEF IInv

\* CreateRequest keeps the invariant.
LEMMA CreateRequestStep ==
  ASSUME IInv, NEW h \in HolderHandlers, CreateRequest(h) PROVE IInv'
<1> DEFINE saved(q) == [job[h].copy EXCEPT !.request = q, !.state = "request_sent"]
<1>0. job[h] # None /\ job[h] \in Job /\ job[h].copy \in Record
  BY DEF CreateRequest, At, IInv, TypeOK, Job
<1>1. PICK q \in RequestFor(job[h].copy) :
        /\ requests' = requests \cup {q}
        /\ reqCache' = IF job[h].copy.request = None THEN q ELSE reqCache
        /\ IF CanUpdate(h)
           THEN Update(h, saved(q)) /\ Send(Msg("request", q))
           ELSE UNCHANGED <<rec, used, net>>
  BY DEF CreateRequest
<1>2. q \in Requests
  BY <1>0 DEF IInv, TypeOK, RequestFor, Record
<1>3. saved(q) \in Record /\ saved(q).state = "request_sent"
  BY <1>0, <1>2 DEF Record, IssuerStates, HolderStates
<1>4. /\ rec' \in [RecIds -> Record \cup {None}]
      /\ \A r \in RecIds : rec'[r] = rec[r] \/ rec'[r].state = "request_sent"
      /\ used' = used
      /\ net' \in [Message -> Nat]
      /\ \A n \in Message : n # Msg("request", q) => net'[n] = net[n]
  <2> HIDE DEF saved
  <2>1. CASE CanUpdate(h)
    <3>1. rec' = [rec EXCEPT ![job[h].id] = saved(q)] /\ used' = used
      BY <1>1, <2>1 DEF Update
    <3>2. /\ net' \in [Message -> Nat]
          /\ \A n \in Message : n # Msg("request", q) => net'[n] = net[n]
      BY <1>1, <2>1, SendFacts DEF IInv
    <3> QED BY <1>3, <3>1, <3>2 DEF IInv, TypeOK
  <2>2. CASE ~CanUpdate(h)
    BY <1>1, <2>2 DEF IInv, TypeOK
  <2> QED BY <2>1, <2>2
<1>5. /\ job' \in [Handlers -> Job \cup {None}]
      /\ job'[h] = None
      /\ \A g \in Handlers : g # h => job'[g] = job[g]
  BY EndFacts DEF CreateRequest, IInv
<1>6. TypeOK'
  BY <1>1, <1>2, <1>4, <1>5 DEF CreateRequest, IInv, TypeOK
<1>7. RecordsOK'
  BY <1>4 DEF CreateRequest, IInv, RecordsOK, Kept, InWallet
<1>8. AckOK'
  BY <1>4, MsgFacts DEF CreateRequest, IInv, AckOK, Kept
<1>9. /\ \A g \in IssuerHandlers : g # h => IssuerJobOK(g)'
      /\ \A g \in HolderHandlers : g # h => HolderJobOK(g)'
  BY <1>5, OthersOK DEF CreateRequest, IInv, TypeOK
<1>10. HolderJobOK(h)'
  BY <1>5 DEF HolderJobOK
<1> QED BY <1>6, <1>7, <1>8, <1>9, <1>10 DEF IInv

\* ReceiveCredential keeps the invariant.
LEMMA ReceiveCredentialStep ==
  ASSUME IInv, NEW h \in HolderHandlers, NEW c \in Creds, ReceiveCredential(h, c) PROVE IInv'
<1> USE DEF ReceiveCredential
<1>1. /\ net[Msg("issue", c)] > 0
      /\ net' \in [Message -> Nat]
      /\ dups' \in 0..MaxDup
      /\ \A n \in Message : net'[n] > 0 => net[n] > 0
  BY MsgFacts, ReceiveFacts DEF IInv
<1>2. ASSUME job' \in [Handlers -> Job \cup {None}],
             index' \in [Agents -> RecIds \cup {None}],
             \A g \in Handlers : g # h => job'[g] = job[g],
             HolderJobOK(h)'
      PROVE  IInv'
  <2>1. TypeOK' /\ RecordsOK' /\ AckOK'
    BY <1>1, <1>2, MsgFacts, ReadOnly
  <2>2. /\ \A g \in IssuerHandlers : g # h => IssuerJobOK(g)'
        /\ \A g \in HolderHandlers : g # h => HolderJobOK(g)'
    BY <1>2, OthersOK DEF IInv, TypeOK
  <2> QED BY <1>2, <2>1, <2>2 DEF IInv
<1>3. ASSUME NEW r \in HolderRecs, Found("holder", r),
             index' = [index EXCEPT !["holder"] = r],
             Begin(h, "saveCredential", r, [rec[r] EXCEPT !.raw = c, !.state = "credential_received"])
      PROVE  IInv'
  <2> DEFINE copy == [rec[r] EXCEPT !.raw = c, !.state = "credential_received"]
  <2>1. rec[r] # None /\ rec[r] \in Record
    BY <1>3, FoundFacts DEF IInv, Agents, RecsOf
  <2>2. copy \in Record /\ copy.state = "credential_received" /\ copy.raw = c
    BY <2>1 DEF Record, IssuerStates, HolderStates
  <2> HIDE DEF copy
  <2>3. /\ job' \in [Handlers -> Job \cup {None}]
        /\ job'[h].step = "saveCredential" /\ job'[h].id = r /\ job'[h].copy = copy
        /\ \A g \in Handlers : g # h => job'[g] = job[g]
    <3>1. Goto(h, "saveCredential", r, copy)
      BY <1>3 DEF Begin, Goto, copy
    <3> QED BY <2>2, <3>1, GotoFacts DEF IInv, HolderSteps
  <2>4. HolderJobOK(h)'
    BY <2>2, <2>3 DEF HolderJobOK, HolderSteps
  <2>5. index' \in [Agents -> RecIds \cup {None}]
    BY <1>3 DEF IInv, TypeOK, Agents
  <2> QED BY <1>2, <2>3, <2>4, <2>5
<1>4. ASSUME UNCHANGED <<index, job>> PROVE IInv'
  <2>1. HolderJobOK(h)'
    BY <1>4 DEF IInv, IssuerJobOK, HolderJobOK, Kept, InWallet
  <2> QED BY <1>2, <1>4, <2>1 DEF IInv, TypeOK
<1> QED BY <1>3, <1>4

\* SaveCredential keeps the invariant.
LEMMA SaveCredentialStep ==
  ASSUME IInv, NEW h \in HolderHandlers, SaveCredential(h) PROVE IInv'
<1> USE DEF SaveCredential, Begin, At, Goto, End, Add, CanUpdate, Update
<1>1. TypeOK'
  BY NewRecordType DEF IInv, TypeOK, Job, Record, IssuerJobOK, HolderJobOK, IssuerStates,
     HolderStates, IssuerSteps, HolderSteps, Stored, RecsOf, Agents, Storable, RequestFor
<1>2. RecordsOK'
  BY NewRecordType DEF IInv, TypeOK, RecordsOK, IssuerJobOK, HolderJobOK, Kept, InWallet, Job, Record,
     IssuerStates, HolderStates, IssuerSteps, HolderSteps
<1>3. ASSUME NEW g \in IssuerHandlers PROVE IssuerJobOK(g)'
  BY NewRecordType DEF IInv, TypeOK, RecordsOK, IssuerJobOK, HolderJobOK, Kept, InWallet, Job, Record, AckOK,
     IssuerStates, HolderStates, IssuerSteps, HolderSteps, Stored, RecsOf, Found
<1>4. ASSUME NEW g \in HolderHandlers PROVE HolderJobOK(g)'
  BY NewRecordType DEF IInv, TypeOK, RecordsOK, IssuerJobOK, HolderJobOK, Kept, InWallet, Job, Record,
     IssuerStates, HolderStates, IssuerSteps, HolderSteps, Stored, RecsOf, Found, Storable
<1>5. AckOK'
  BY MsgFacts DEF IInv, TypeOK, AckOK, HolderJobOK, Kept, InWallet
<1> QED BY <1>1, <1>2, <1>3, <1>4, <1>5 DEF IInv

\* SendStore keeps the invariant.
LEMMA SendStoreStep ==
  ASSUME IInv, NEW h \in HolderHandlers, SendStore(h) PROVE IInv'
<1> USE DEF SendStore, Begin, At, Goto, End, Add, CanUpdate, Update
<1>1. TypeOK'
  BY NewRecordType DEF IInv, TypeOK, Job, Record, IssuerJobOK, HolderJobOK, IssuerStates,
     HolderStates, IssuerSteps, HolderSteps, Stored, RecsOf, Agents, Storable, RequestFor
<1>2. RecordsOK'
  BY NewRecordType DEF IInv, TypeOK, RecordsOK, IssuerJobOK, HolderJobOK, Kept, InWallet, Job, Record,
     IssuerStates, HolderStates, IssuerSteps, HolderSteps
<1>3. ASSUME NEW g \in IssuerHandlers PROVE IssuerJobOK(g)'
  BY NewRecordType DEF IInv, TypeOK, RecordsOK, IssuerJobOK, HolderJobOK, Kept, InWallet, Job, Record, AckOK,
     IssuerStates, HolderStates, IssuerSteps, HolderSteps, Stored, RecsOf, Found
<1>4. ASSUME NEW g \in HolderHandlers PROVE HolderJobOK(g)'
  BY NewRecordType DEF IInv, TypeOK, RecordsOK, IssuerJobOK, HolderJobOK, Kept, InWallet, Job, Record,
     IssuerStates, HolderStates, IssuerSteps, HolderSteps, Stored, RecsOf, Found, Storable
<1>5. AckOK'
  BY MsgFacts DEF IInv, TypeOK, AckOK, HolderJobOK, Kept, InWallet
<1> QED BY <1>1, <1>2, <1>3, <1>4, <1>5 DEF IInv

\* StoreCredential keeps the invariant.
LEMMA StoreCredentialStep ==
  ASSUME IInv, NEW h \in HolderHandlers, StoreCredential(h) PROVE IInv'
<1> DEFINE copy == job[h].copy
           acked == [copy EXCEPT !.cred = copy.raw, !.state = "credential_acked"]
<1>0. /\ job[h] # None /\ job[h].step = "store"
      /\ copy \in Record /\ copy.raw \in Creds /\ job[h].id \in RecIds \cup {None}
      /\ job[h].id \in HolderRecs
  BY DEF StoreCredential, At, IInv, TypeOK, HolderJobOK, Job
<1>1. CASE Storable(copy)
  <2>1. /\ wallet' = [wallet EXCEPT ![copy.raw] = @ + 1]
        /\ Goto(h, "saveStored", job[h].id, acked)
    BY <1>1 DEF StoreCredential
  <2>2. /\ wallet' \in [Creds -> Nat]
        /\ \A c \in Creds : wallet[c] > 0 => wallet'[c] > 0
        /\ wallet'[copy.raw] > 0
    BY <1>0, <2>1 DEF IInv, TypeOK
  <2>3. acked \in Record /\ acked.state = "credential_acked" /\ acked.cred = copy.raw
    BY <1>0 DEF Record, IssuerStates, HolderStates
  <2>4. /\ job' \in [Handlers -> Job \cup {None}]
        /\ job'[h].step = "saveStored" /\ job'[h].id = job[h].id /\ job'[h].copy = acked
        /\ \A g \in Handlers : g # h => job'[g] = job[g]
    <3> HIDE DEF acked
    <3> QED BY <1>0, <2>1, <2>3, GotoFacts DEF IInv, HolderSteps
  <2>5. TypeOK'
    BY <2>2, <2>4 DEF StoreCredential, IInv, TypeOK
  <2>6. RecordsOK' /\ AckOK'
    BY <2>2 DEF StoreCredential, IInv, RecordsOK, AckOK, Kept, InWallet
  <2>7. HolderJobOK(h)'
    <3> HIDE DEF acked
    <3> QED BY <1>0, <2>2, <2>3, <2>4 DEF HolderJobOK, HolderSteps, InWallet
  <2>8. /\ \A g \in IssuerHandlers : g # h => IssuerJobOK(g)'
        /\ \A g \in HolderHandlers : g # h => HolderJobOK(g)'
    BY <2>2, <2>4, OthersOK
  <2> QED BY <2>5, <2>6, <2>7, <2>8 DEF IInv
<1>2. CASE ~Storable(copy)
  <2>1. UNCHANGED wallet /\ End(h)
    BY <1>2 DEF StoreCredential
  <2>2. /\ job' \in [Handlers -> Job \cup {None}]
        /\ job'[h] = None
        /\ \A g \in Handlers : g # h => job'[g] = job[g]
    BY <2>1, EndFacts DEF IInv
  <2>3. TypeOK'
    BY <2>1, <2>2 DEF StoreCredential, IInv, TypeOK
  <2>4. RecordsOK' /\ AckOK'
    BY <2>1 DEF StoreCredential, IInv, RecordsOK, AckOK, Kept, InWallet
  <2>5. /\ \A g \in IssuerHandlers : g # h => IssuerJobOK(g)'
        /\ \A g \in HolderHandlers : g # h => HolderJobOK(g)'
    BY <2>1, <2>2, OthersOK DEF IInv, TypeOK
  <2> QED BY <2>2, <2>3, <2>4, <2>5 DEF IInv, HolderJobOK
<1> QED BY <1>1, <1>2

\* SaveStored keeps the invariant.
LEMMA SaveStoredStep ==
  ASSUME IInv, NEW h \in HolderHandlers, SaveStored(h) PROVE IInv'
<1> USE DEF SaveStored, Begin, At, Goto, End, Add, CanUpdate, Update
<1>1. TypeOK'
  BY NewRecordType DEF IInv, TypeOK, Job, Record, IssuerJobOK, HolderJobOK, IssuerStates,
     HolderStates, IssuerSteps, HolderSteps, Stored, RecsOf, Agents, Storable, RequestFor
<1>2. RecordsOK'
  BY NewRecordType DEF IInv, TypeOK, RecordsOK, IssuerJobOK, HolderJobOK, Kept, InWallet, Job, Record,
     IssuerStates, HolderStates, IssuerSteps, HolderSteps
<1>3. ASSUME NEW g \in IssuerHandlers PROVE IssuerJobOK(g)'
  BY NewRecordType DEF IInv, TypeOK, RecordsOK, IssuerJobOK, HolderJobOK, Kept, InWallet, Job, Record, AckOK,
     IssuerStates, HolderStates, IssuerSteps, HolderSteps, Stored, RecsOf, Found
<1>4. ASSUME NEW g \in HolderHandlers PROVE HolderJobOK(g)'
  BY NewRecordType DEF IInv, TypeOK, RecordsOK, IssuerJobOK, HolderJobOK, Kept, InWallet, Job, Record,
     IssuerStates, HolderStates, IssuerSteps, HolderSteps, Stored, RecsOf, Found, Storable
<1>5. AckOK'
  BY MsgFacts DEF IInv, TypeOK, AckOK, HolderJobOK, Kept, InWallet
<1> QED BY <1>1, <1>2, <1>3, <1>4, <1>5 DEF IInv

\* FinishStore keeps the invariant.
LEMMA FinishStoreStep ==
  ASSUME IInv, NEW h \in HolderHandlers, FinishStore(h) PROVE IInv'
<1> USE DEF FinishStore, Begin, At, Goto, End, Add, CanUpdate, Update
<1>0. Send(Msg("ack", None)) /\ TypeOK
  BY DEF IInv
<1>a. /\ net' \in [Message -> Nat]
      /\ \A n \in Message : n # Msg("ack", None) => net'[n] = net[n]
  BY <1>0, SendFacts
<1>1. TypeOK'
  BY <1>a, NewRecordType DEF IInv, TypeOK, Job, Record, IssuerJobOK, HolderJobOK, IssuerStates,
     HolderStates, IssuerSteps, HolderSteps, Stored, RecsOf, Agents, Storable, RequestFor
<1>2. RecordsOK'
  BY <1>a, NewRecordType DEF IInv, TypeOK, RecordsOK, IssuerJobOK, HolderJobOK, Kept, InWallet, Job, Record,
     IssuerStates, HolderStates, IssuerSteps, HolderSteps
<1>3. ASSUME NEW g \in IssuerHandlers PROVE IssuerJobOK(g)'
  BY <1>a, NewRecordType DEF IInv, TypeOK, RecordsOK, IssuerJobOK, HolderJobOK, Kept, InWallet, Job, Record, AckOK,
     IssuerStates, HolderStates, IssuerSteps, HolderSteps, Stored, RecsOf, Found
<1>4. ASSUME NEW g \in HolderHandlers PROVE HolderJobOK(g)'
  BY <1>a, NewRecordType DEF IInv, TypeOK, RecordsOK, IssuerJobOK, HolderJobOK, Kept, InWallet, Job, Record,
     IssuerStates, HolderStates, IssuerSteps, HolderSteps, Stored, RecsOf, Found, Storable
<1>5. AckOK'
  BY <1>a, MsgFacts DEF IInv, TypeOK, AckOK, HolderJobOK, Kept, InWallet
<1> QED BY <1>1, <1>2, <1>3, <1>4, <1>5 DEF IInv

\* RecordGone keeps the invariant.
LEMMA RecordGoneStep ==
  ASSUME IInv, NEW h \in Handlers, RecordGone(h) PROVE IInv'
<1> USE DEF RecordGone, Begin, At, Goto, End, Add, CanUpdate, Update
<1>1. TypeOK'
  BY NewRecordType DEF IInv, TypeOK, Job, Record, IssuerJobOK, HolderJobOK, IssuerStates,
     HolderStates, IssuerSteps, HolderSteps, Stored, RecsOf, Agents, Storable, RequestFor, UpdateRefused
<1>2. RecordsOK'
  BY NewRecordType DEF IInv, TypeOK, RecordsOK, IssuerJobOK, HolderJobOK, Kept, InWallet, Job, Record,
     IssuerStates, HolderStates, IssuerSteps, HolderSteps, UpdateRefused
<1>3. ASSUME NEW g \in IssuerHandlers PROVE IssuerJobOK(g)'
  BY NewRecordType DEF IInv, TypeOK, RecordsOK, IssuerJobOK, HolderJobOK, Kept, InWallet, Job, Record, AckOK,
     IssuerStates, HolderStates, IssuerSteps, HolderSteps, Stored, RecsOf, Found, UpdateRefused
<1>4. ASSUME NEW g \in HolderHandlers PROVE HolderJobOK(g)'
  BY NewRecordType DEF IInv, TypeOK, RecordsOK, IssuerJobOK, HolderJobOK, Kept, InWallet, Job, Record,
     IssuerStates, HolderStates, IssuerSteps, HolderSteps, Stored, RecsOf, Found, Storable, UpdateRefused
<1>5. AckOK'
  BY MsgFacts DEF IInv, TypeOK, AckOK, HolderJobOK, Kept, InWallet, UpdateRefused
<1> QED BY <1>1, <1>2, <1>3, <1>4, <1>5 DEF IInv

\* HandlerFails keeps the invariant.
LEMMA HandlerFailsStep ==
  ASSUME IInv, NEW h \in Handlers, HandlerFails(h) PROVE IInv'
<1> USE DEF HandlerFails, Begin, At, Goto, End, Add, CanUpdate, Update
<1>1. TypeOK'
  BY NewRecordType DEF IInv, TypeOK, Job, Record, IssuerJobOK, HolderJobOK, IssuerStates,
     HolderStates, IssuerSteps, HolderSteps, Stored, RecsOf, Agents, Storable, RequestFor, Fault
<1>2. RecordsOK'
  BY NewRecordType DEF IInv, TypeOK, RecordsOK, IssuerJobOK, HolderJobOK, Kept, InWallet, Job, Record,
     IssuerStates, HolderStates, IssuerSteps, HolderSteps, Fault
<1>3. ASSUME NEW g \in IssuerHandlers PROVE IssuerJobOK(g)'
  BY NewRecordType DEF IInv, TypeOK, RecordsOK, IssuerJobOK, HolderJobOK, Kept, InWallet, Job, Record, AckOK,
     IssuerStates, HolderStates, IssuerSteps, HolderSteps, Stored, RecsOf, Found, Fault
<1>4. ASSUME NEW g \in HolderHandlers PROVE HolderJobOK(g)'
  BY NewRecordType DEF IInv, TypeOK, RecordsOK, IssuerJobOK, HolderJobOK, Kept, InWallet, Job, Record,
     IssuerStates, HolderStates, IssuerSteps, HolderSteps, Stored, RecsOf, Found, Storable, Fault
<1>5. AckOK'
  BY MsgFacts DEF IInv, TypeOK, AckOK, HolderJobOK, Kept, InWallet, Fault
<1> QED BY <1>1, <1>2, <1>3, <1>4, <1>5 DEF IInv

\* A restart keeps the invariant: the handlers of one agent are gone.
LEMMA RestartStep ==
  ASSUME IInv, NEW a \in Agents, Restart(a) PROVE IInv'
<1> USE DEF Restart, Fault
<1>1. job' \in [Handlers -> Job \cup {None}] /\ index' \in [Agents -> RecIds \cup {None}]
  BY DEF IInv, TypeOK
<1>0. reqCache' \in Requests \cup {None} /\ lapsed' \in BOOLEAN
  <2>1. CASE a = "holder"
    <3>1. reqCache' = None /\ lapsed' = (lapsed \/ reqCache # None)
      BY <2>1
    <3>2. reqCache' \in Requests \cup {None}
      BY <3>1
    <3>3. lapsed' \in BOOLEAN
      BY <3>1, Zenon
    <3> QED BY <3>2, <3>3
  <2>2. CASE a # "holder"
    <3>1. reqCache' = reqCache /\ lapsed' = lapsed
      BY <2>2
    <3> QED BY <3>1, Zenon DEF IInv, TypeOK
  <2> QED BY <2>1, <2>2
<1>2. TypeOK'
  <2>1. /\ UNCHANGED <<rec, used, net, dups, offered, requests, made, wallet>>
        /\ faults' \in 0..MaxFault
    BY DEF IInv, TypeOK
  <2> QED BY <1>1, <1>0, <2>1, Zenon DEF IInv, TypeOK
<1>3. RecordsOK' /\ AckOK'
  BY DEF IInv, RecordsOK, AckOK, Kept, InWallet
<1>4. \A g \in Handlers : job'[g] = None \/ job'[g] = job[g]
  OBVIOUS
<1>5. /\ \A g \in IssuerHandlers : IssuerJobOK(g)'
      /\ \A g \in HolderHandlers : HolderJobOK(g)'
  BY <1>4 DEF IInv, IssuerJobOK, HolderJobOK, Kept, InWallet
<1> QED BY <1>2, <1>3, <1>5 DEF IInv

\* So does removing a record.
LEMMA RemoveRecordStep ==
  ASSUME IInv, RemoveRecord PROVE IInv'
<1> USE DEF RemoveRecord, Fault
<1>1. TypeOK'
  BY DEF IInv, TypeOK
<1>2. RecordsOK' /\ AckOK'
  BY DEF IInv, TypeOK, RecordsOK, AckOK, Kept, InWallet
<1>3. /\ \A g \in IssuerHandlers : IssuerJobOK(g)'
      /\ \A g \in HolderHandlers : HolderJobOK(g)'
  BY DEF IInv, IssuerJobOK, HolderJobOK, Kept, InWallet
<1> QED BY <1>1, <1>2, <1>3 DEF IInv

\* And the expiry of a cached id.
LEMMA ExpireIndexStep ==
  ASSUME IInv, NEW a \in Agents, ExpireIndex(a) PROVE IInv'
<1> USE DEF ExpireIndex
<1>1. TypeOK'
  BY DEF IInv, TypeOK
<1>2. RecordsOK' /\ AckOK'
  BY DEF IInv, RecordsOK, AckOK, Kept, InWallet
<1>3. /\ \A g \in IssuerHandlers : IssuerJobOK(g)'
      /\ \A g \in HolderHandlers : HolderJobOK(g)'
  BY DEF IInv, IssuerJobOK, HolderJobOK, Kept, InWallet
<1> QED BY <1>1, <1>2, <1>3 DEF IInv

\* And of the cached request.
LEMMA ExpireRequestStep ==
  ASSUME IInv, ExpireRequest PROVE IInv'
<1> USE DEF ExpireRequest
<1>1. TypeOK'
  BY DEF IInv, TypeOK
<1>2. RecordsOK' /\ AckOK'
  BY DEF IInv, RecordsOK, AckOK, Kept, InWallet
<1>3. /\ \A g \in IssuerHandlers : IssuerJobOK(g)'
      /\ \A g \in HolderHandlers : HolderJobOK(g)'
  BY DEF IInv, IssuerJobOK, HolderJobOK, Kept, InWallet
<1> QED BY <1>1, <1>2, <1>3 DEF IInv

\* A stuttering step changes nothing.
LEMMA StutterStep ==
  ASSUME IInv, UNCHANGED vars PROVE IInv'
  BY DEF vars, IInv, TypeOK, RecordsOK, IssuerJobOK, HolderJobOK, AckOK, Kept, InWallet

\* Every step of the exchange keeps the invariant.
LEMMA NextIInv == IInv /\ [Next]_vars => IInv'
<1> SUFFICES ASSUME IInv, [Next]_vars PROVE IInv'
  OBVIOUS
<1>1. ASSUME NEW h \in IssuerHandlers, IssuerCalled(h) PROVE IInv'
  BY <1>1, StartOfferStep, SendBoundOfferStep, SendIssueStep DEF IssuerCalled
<1>2. ASSUME NEW h \in IssuerHandlers, IssuerReceives(h) PROVE IInv'
  BY <1>2, ReceiveProposalStep, ReceiveRequestStep, ReceiveAckStep DEF IssuerReceives
<1>3. ASSUME NEW h \in IssuerHandlers, IssuerContinues(h) PROVE IInv'
  BY <1>3, SaveOfferStep, SaveRequestStep, CreateCredentialStep, SaveIssuedStep,
     SaveAckedStep, RemoveAckedStep DEF IssuerContinues
<1>4. ASSUME NEW h \in HolderHandlers, HolderCalled(h) PROVE IInv'
  BY <1>4, SendProposalStep, SendRequestStep, SendStoreStep DEF HolderCalled
<1>5. ASSUME NEW h \in HolderHandlers, HolderReceives(h) PROVE IInv'
  BY <1>5, ReceiveOfferStep, ReceiveCredentialStep DEF HolderReceives
<1>6. ASSUME NEW h \in HolderHandlers, HolderContinues(h) PROVE IInv'
  BY <1>6, SaveOfferReceivedStep, CreateRequestStep, SaveCredentialStep,
     StoreCredentialStep, SaveStoredStep, FinishStoreStep DEF HolderContinues
<1>7. ASSUME NEW h \in Handlers, RecordGone(h) \/ HandlerFails(h) PROVE IInv'
  BY <1>7, RecordGoneStep, HandlerFailsStep
<1>8. ASSUME NEW a \in Agents, Restart(a) \/ ExpireIndex(a) PROVE IInv'
  BY <1>8, RestartStep, ExpireIndexStep
<1>9. CASE RemoveRecord \/ ExpireRequest
  BY <1>9, RemoveRecordStep, ExpireRequestStep
<1>10. CASE UNCHANGED vars
  BY <1>10, StutterStep
<1> QED BY <1>1, <1>2, <1>3, <1>4, <1>5, <1>6, <1>7, <1>8, <1>9, <1>10 DEF Next

\* The invariant always holds.
THEOREM Invariance == Spec => []IInv
  BY InitIInv, NextIInv, PTL DEF Spec

\* Every variable of the exchange keeps its type.
THEOREM TypeCorrect == Spec => []TypeOK
<1>1. IInv => TypeOK
  BY DEF IInv
<1> QED BY <1>1, Invariance, PTL

\* A record says credential_acked, on either side, only when the holder's
\* wallet holds a credential, whatever handlers run against each other and
\* whatever is repeated, lost, removed or restarted.
THEOREM AckIsHonest == Spec => []AckMeansStored
<1>1. IInv => AckMeansStored
  BY DEF IInv, RecordsOK, AckMeansStored, Kept, InWallet
<1> QED BY <1>1, Invariance, PTL

\* The abstract state the exchange stands for.
Issued    == {c \in Creds : made[c] # None}
InWallets == {c \in Creds : InWallet(c)}
Confirmed == \E r \in IssuerRecs : rec[r] # None /\ rec[r].state = "credential_acked"

\* A step that neither issues nor stores confirms, forgets or changes nothing
\* abstractly; it can confirm only when something is stored.
LEMMA QuietStep ==
  ASSUME IInv', UNCHANGED <<made, wallet>>
  PROVE  [Issuance!Next]_<<Issued, InWallets, Confirmed>>
<1>1. Issued' = Issued /\ InWallets' = InWallets
  BY DEF Issued, InWallets, InWallet
<1>2. Confirmed' => InWallets # {}
  BY DEF IInv, RecordsOK, Kept, Confirmed, InWallets, InWallet
<1>3. Confirmed \in BOOLEAN /\ Confirmed' \in BOOLEAN
  BY DEF Confirmed
<1>4. CASE Confirmed' = Confirmed
  BY <1>1, <1>4
<1>5. CASE Confirmed' /\ ~Confirmed
  <2>1. Confirmed' = TRUE
    BY <1>3, <1>5
  <2> QED BY <1>1, <1>2, <2>1 DEF Issuance!Next, Issuance!Confirm, Issued, InWallets, Confirmed
<1>6. CASE ~Confirmed' /\ Confirmed
  <2>1. Confirmed' = FALSE
    BY <1>3, <1>6
  <2> QED BY <1>1, <1>6, <2>1 DEF Issuance!Next, Issuance!Forget, Issued, InWallets, Confirmed
<1> QED BY <1>3, <1>4, <1>5, <1>6

\* Creating a credential issues one.
LEMMA IssueStep ==
  ASSUME IInv, NEW h \in IssuerHandlers, CreateCredential(h), IInv'
  PROVE  [Issuance!Next]_<<Issued, InWallets, Confirmed>>
<1>1. CASE UNCHANGED made
  BY <1>1, QuietStep DEF CreateCredential
<1>2. CASE ~UNCHANGED made
  <2>1. PICK c \in Creds :
          /\ made[c] = None
          /\ made' = [made EXCEPT ![c] = [ex |-> job[h].id, request |-> job[h].copy.request]]
    BY <1>2 DEF CreateCredential
  <2>2. InWallets' = InWallets /\ Confirmed' = Confirmed
    BY DEF CreateCredential, InWallets, InWallet, Confirmed
  <2>3. Issued' = Issued \/ (c \notin Issued /\ Issued' = Issued \cup {c})
    BY <2>1 DEF IInv, TypeOK, Issued
  <2>4. CASE Issued' = Issued
    BY <2>2, <2>4
  <2>5. CASE c \notin Issued /\ Issued' = Issued \cup {c}
    BY <2>2, <2>5 DEF Issuance!Next, Issuance!Issue, Issued, InWallets, Confirmed
  <2> QED BY <2>3, <2>4, <2>5
<1> QED BY <1>1, <1>2

\* Storing a credential stores one that was issued.
LEMMA StoreStep ==
  ASSUME IInv, NEW h \in HolderHandlers, StoreCredential(h), IInv'
  PROVE  [Issuance!Next]_<<Issued, InWallets, Confirmed>>
<1>1. CASE UNCHANGED wallet
  BY <1>1, QuietStep DEF StoreCredential
<1>2. CASE ~UNCHANGED wallet
  <2> DEFINE c == job[h].copy.raw
  <2>1. made[c] # None /\ wallet' = [wallet EXCEPT ![c] = @ + 1]
    BY <1>2 DEF StoreCredential, Storable
  <2>2. c \in Creds
    BY DEF StoreCredential, At, IInv, HolderJobOK
  <2>3. Issued' = Issued /\ Confirmed' = Confirmed
    BY DEF StoreCredential, Issued, Confirmed
  <2>4. c \in Issued
    BY <2>1, <2>2 DEF Issued
  <2> HIDE DEF c
  <2>5. InWallets' = InWallets \cup {c}
    BY <2>1, <2>2 DEF IInv, TypeOK, InWallets, InWallet
  <2> QED BY <2>3, <2>4, <2>5 DEF Issuance!Next, Issuance!Store, Issued, InWallets, Confirmed
<1> QED BY <1>1, <1>2

\* Every step of the exchange is a step of CredentialIssuance or none of it.
LEMMA AbstractStep ==
  ASSUME IInv, [Next]_vars, IInv'
  PROVE  [Issuance!Next]_<<Issued, InWallets, Confirmed>>
<1>1. CASE \E h \in IssuerHandlers : CreateCredential(h)
  BY <1>1, IssueStep
<1>2. CASE \E h \in HolderHandlers : StoreCredential(h)
  BY <1>2, StoreStep
<1>3. CASE /\ ~\E h \in IssuerHandlers : CreateCredential(h)
           /\ ~\E h \in HolderHandlers : StoreCredential(h)
  <2>1. ASSUME NEW h \in IssuerHandlers, IssuerCalled(h) \/ IssuerReceives(h) \/ IssuerContinues(h)
        PROVE  UNCHANGED <<made, wallet>>
    BY <1>3, <2>1 DEF IssuerCalled, IssuerReceives, IssuerContinues, StartOffer, SendBoundOffer,
       SendIssue, ReceiveProposal, ReceiveRequest, ReceiveAck, SaveOffer, SaveRequest, SaveIssued,
       SaveAcked, RemoveAcked
  <2>2. ASSUME NEW h \in HolderHandlers, HolderCalled(h) \/ HolderReceives(h) \/ HolderContinues(h)
        PROVE  UNCHANGED <<made, wallet>>
    BY <1>3, <2>2 DEF HolderCalled, HolderReceives, HolderContinues, SendProposal, SendRequest,
       SendStore, ReceiveOffer, ReceiveCredential, SaveOfferReceived, CreateRequest, SaveCredential,
       SaveStored, FinishStore
  <2>3. ASSUME NEW h \in Handlers, RecordGone(h) \/ HandlerFails(h)
        PROVE  UNCHANGED <<made, wallet>>
    BY <2>3 DEF RecordGone, UpdateRefused, HandlerFails
  <2>4. ASSUME NEW a \in Agents, Restart(a) \/ ExpireIndex(a)
        PROVE  UNCHANGED <<made, wallet>>
    BY <2>4 DEF Restart, ExpireIndex
  <2>5. RemoveRecord \/ ExpireRequest => UNCHANGED <<made, wallet>>
    BY DEF RemoveRecord, ExpireRequest
  <2>6. UNCHANGED vars => UNCHANGED <<made, wallet>>
    BY DEF vars
  <2>7. Next => UNCHANGED <<made, wallet>>
    <3> SUFFICES ASSUME Next PROVE UNCHANGED <<made, wallet>>
      OBVIOUS
    <3> HIDE DEF Handlers
    <3> QED BY <2>1, <2>2, <2>3, <2>4, <2>5, Zenon DEF Next
  <2>8. UNCHANGED <<made, wallet>>
    BY <2>6, <2>7
  <2> QED BY <2>8, QuietStep
<1> QED BY <1>1, <1>2, <1>3

\* The exchange implements CredentialIssuance: credentials are stored only
\* after they were issued, and confirmed only after one is stored.
THEOREM Implements == Spec => IssuanceSpec
<1>1. Init => Issuance!Init
  BY DEF Init, Issuance!Init, InWallet
<1>2. IInv /\ [Next]_vars /\ IInv' => [Issuance!Next]_<<Issued, InWallets, Confirmed>>
  BY AbstractStep
<1>3. IInv /\ [Next]_vars /\ IInv' =>
        [Issuance!Next]_<<{c \in Creds : made[c] # None}, {c \in Creds : InWallet(c)},
           \E r \in IssuerRecs : rec[r] # None /\ rec[r].state = "credential_acked">>
  BY <1>2 DEF Issued, InWallets, Confirmed
<1> QED BY <1>1, <1>3, Invariance, PTL DEF Spec, IssuanceSpec, Issuance!Spec

-----------------------------------------------------------------------------
\* A record that was removed stays removed: no handler that still has a copy of
\* it writes it back.

\* A record that was removed stays removed.
RemovedKept == \A r \in used : rec[r] = None => rec'[r] = None

\* A step that touches no record removes none.
LEMMA SameKept == ASSUME UNCHANGED rec PROVE RemovedKept
  BY DEF RemovedKept

\* No step stores a record that is gone again.
LEMMA NextRemoved == ASSUME TypeOK, [Next]_vars PROVE RemovedKept
<1>1. ASSUME NEW h \in IssuerHandlers, IssuerCalled(h) \/ IssuerReceives(h) PROVE RemovedKept
  <2>1. ReceiveProposal(h) => RemovedKept
    BY DEF ReceiveProposal, Add, Update, CanUpdate, TypeOK, RemovedKept
  <2>2. ~ReceiveProposal(h) => UNCHANGED rec
    BY <1>1 DEF IssuerCalled, IssuerReceives, StartOffer, SendBoundOffer, SendIssue, ReceiveRequest, ReceiveAck
  <2> QED BY <2>1, <2>2, SameKept
<1>2. ASSUME NEW h \in IssuerHandlers, IssuerContinues(h) PROVE RemovedKept
  <2>1. SaveOffer(h) => RemovedKept
    BY DEF SaveOffer, Add, Update, CanUpdate, TypeOK, RemovedKept
  <2>2. SaveRequest(h) => RemovedKept
    BY DEF SaveRequest, Add, Update, CanUpdate, TypeOK, RemovedKept
  <2>3. CreateCredential(h) => RemovedKept
    BY SameKept DEF CreateCredential
  <2>4. SaveIssued(h) => RemovedKept
    BY DEF SaveIssued, Add, Update, CanUpdate, TypeOK, RemovedKept
  <2>5. SaveAcked(h) => RemovedKept
    BY DEF SaveAcked, Add, Update, CanUpdate, TypeOK, RemovedKept
  <2>6. RemoveAcked(h) => RemovedKept
    BY DEF RemoveAcked, Add, Update, CanUpdate, TypeOK, RemovedKept
  <2> QED BY <1>2, <2>1, <2>2, <2>3, <2>4, <2>5, <2>6 DEF IssuerContinues
<1>3. ASSUME NEW h \in HolderHandlers, HolderCalled(h) \/ HolderReceives(h) PROVE RemovedKept
  <2>1. SendProposal(h) => RemovedKept
    BY DEF SendProposal, Add, Update, CanUpdate, TypeOK, RemovedKept
  <2>2. ~SendProposal(h) => UNCHANGED rec
    BY <1>3 DEF HolderCalled, HolderReceives, SendRequest, SendStore, ReceiveOffer, ReceiveCredential
  <2> QED BY <2>1, <2>2, SameKept
<1>4. ASSUME NEW h \in HolderHandlers, HolderContinues(h) PROVE RemovedKept
  <2>1. SaveOfferReceived(h) => RemovedKept
    BY DEF SaveOfferReceived, Add, Update, CanUpdate, TypeOK, RemovedKept
  <2>2. CreateRequest(h) => RemovedKept
    BY DEF CreateRequest, Add, Update, CanUpdate, TypeOK, RemovedKept
  <2>3. SaveCredential(h) => RemovedKept
    BY DEF SaveCredential, Add, Update, CanUpdate, TypeOK, RemovedKept
  <2>4. StoreCredential(h) => RemovedKept
    BY SameKept DEF StoreCredential
  <2>5. SaveStored(h) => RemovedKept
    BY DEF SaveStored, Add, Update, CanUpdate, TypeOK, RemovedKept
  <2>6. FinishStore(h) => RemovedKept
    BY DEF FinishStore, Add, Update, CanUpdate, TypeOK, RemovedKept
  <2> QED BY <1>4, <2>1, <2>2, <2>3, <2>4, <2>5, <2>6 DEF HolderContinues
<1>5. ASSUME NEW h \in Handlers, RecordGone(h) \/ HandlerFails(h) PROVE RemovedKept
  BY <1>5, SameKept DEF RecordGone, UpdateRefused, HandlerFails
<1>6. ASSUME NEW a \in Agents, Restart(a) \/ ExpireIndex(a) PROVE RemovedKept
  BY <1>6, SameKept DEF Restart, ExpireIndex
<1>7. RemoveRecord \/ ExpireRequest => RemovedKept
  BY SameKept DEF RemoveRecord, ExpireRequest, TypeOK, RemovedKept
<1>8. UNCHANGED vars => RemovedKept
  BY SameKept DEF vars
<1> HIDE DEF Handlers
<1> QED BY <1>1, <1>2, <1>3, <1>4, <1>5, <1>6, <1>7, <1>8, Zenon DEF Next

\* A record that is removed is never stored again, whatever copies of it the
\* handlers still hold and whatever fails.
THEOREM RemovalIsFinal == Spec => RemovedStaysRemoved
<1>1. TypeOK /\ [Next]_vars => [RemovedKept]_vars
  BY NextRemoved
<1>2. Spec => [][RemovedKept]_vars
  BY <1>1, TypeCorrect, PTL DEF Spec
<1> QED BY <1>2 DEF RemovedStaysRemoved, RemovedKept

-----------------------------------------------------------------------------
\* One credential per exchange, when the issuer runs one handler at a time: the
\* copy of the handler that runs is what is stored.

\* The issuer runs one handler at a time and nothing fails.
OneIssuer == (\A g, h \in IssuerHandlers : g = h) /\ MaxFault = 0

StoredUsed == \A r \in IssuerRecs : rec[r] # None => r \in used

CopyFresh(h) == job[h] # None /\ job[h].id # None =>
    /\ rec[job[h].id] # None
    /\ job[h].step # "saveIssued" => job[h].copy.cred = rec[job[h].id].cred
    /\ job[h].step = "saveIssued" => rec[job[h].id].cred \in {None, job[h].copy.cred}

Saving(r, c) ==
    \E h \in IssuerHandlers : At(h, "saveIssued") /\ job[h].id = r /\ job[h].copy.cred = c

Known(c) == made[c] # None =>
    /\ made[c].ex \in used
    /\ rec[made[c].ex] # None => rec[made[c].ex].cred = c \/ Saving(made[c].ex, c)

MadeKnown == \A c \in Creds : Known(c)

OnceInv == StoredUsed /\ (\A h \in IssuerHandlers : CopyFresh(h)) /\ MadeKnown /\ IssuedOnce

\* The invariant of IssuedOnce holds initially.
LEMMA InitOnce == Init => OnceInv
  BY DEF Init, OnceInv, StoredUsed, CopyFresh, MadeKnown, Known, IssuedOnce

\* It is kept by what leaves the issuer's records, handlers and credentials alone.
LEMMA OnceAside == ASSUME IInv, OnceInv, UNCHANGED made, used \subseteq used',
  \A h \in IssuerHandlers : job'[h] = job[h],
  \A r \in IssuerRecs : rec'[r] = rec[r]
  PROVE OnceInv'
<1>1. IssuedOnce' /\ StoredUsed'
  BY DEF OnceInv, IssuedOnce, StoredUsed
<1>2. \A h \in IssuerHandlers : CopyFresh(h)'
  BY DEF IInv, IssuerJobOK, OnceInv, CopyFresh
<1>3. \A c \in Creds : made[c] # None => made[c].ex \in IssuerRecs
  BY DEF IInv, TypeOK
<1>4. \A r, c : Saving(r, c) => Saving(r, c)'
  BY DEF Saving, At
<1>5. MadeKnown'
  BY <1>3, <1>4 DEF OnceInv, MadeKnown, Known
<1> QED BY <1>1, <1>2, <1>5 DEF OnceInv

\* What the handler that runs may do to the issuer's records.
Written(h) == \A r \in IssuerRecs : r \in used /\ rec'[r] # None =>
    /\ rec[r] # None
    /\ At(h, "saveIssued") /\ job[h].id = r => rec'[r].cred = job[h].copy.cred
    /\ ~(At(h, "saveIssued") /\ job[h].id = r) => rec'[r].cred = rec[r].cred

\* It is kept by a handler that makes no credential and writes as told.
LEMMA OnceKept ==
  ASSUME OneIssuer, IInv, OnceInv, NEW h \in IssuerHandlers, UNCHANGED made,
         used \subseteq used', Written(h), StoredUsed', CopyFresh(h)'
  PROVE  OnceInv'
<1>0. \A g \in IssuerHandlers : g = h
  BY DEF OneIssuer
<1>1. \A c \in Creds : made[c] # None => made[c].ex \in IssuerRecs
  BY DEF IInv, TypeOK
<1>2. MadeKnown'
  <2> SUFFICES ASSUME NEW c \in Creds, made[c] # None
               PROVE  /\ made[c].ex \in used'
                      /\ rec'[made[c].ex] # None => rec'[made[c].ex].cred = c
    BY DEF MadeKnown, Known
  <2>1. /\ made[c].ex \in used /\ made[c].ex \in IssuerRecs
        /\ rec[made[c].ex] # None => rec[made[c].ex].cred = c \/ Saving(made[c].ex, c)
    BY <1>1 DEF OnceInv, MadeKnown, Known
  <2>2. ASSUME rec'[made[c].ex] # None PROVE rec'[made[c].ex].cred = c
    <3>1. rec[made[c].ex] # None
      BY <2>1, <2>2 DEF Written
    <3>2. CASE At(h, "saveIssued") /\ job[h].id = made[c].ex
      <4>1. rec'[made[c].ex].cred = job[h].copy.cred
        BY <2>1, <2>2, <3>2 DEF Written
      <4>2. CASE Saving(made[c].ex, c)
        BY <1>0, <4>1, <4>2 DEF Saving
      <4>3. CASE rec[made[c].ex].cred = c
        <5>1. c # None /\ made[c].ex # None
          BY <2>1
        <5> QED BY <3>2, <4>1, <4>3, <5>1 DEF OnceInv, CopyFresh, At
      <4> QED BY <2>1, <3>1, <4>2, <4>3
    <3>3. CASE ~(At(h, "saveIssued") /\ job[h].id = made[c].ex)
      <4>1. ~Saving(made[c].ex, c)
        BY <1>0, <3>3 DEF Saving
      <4> QED BY <2>1, <2>2, <3>1, <3>3, <4>1 DEF Written
    <3> QED BY <3>2, <3>3
  <2> QED BY <2>1, <2>2
<1>3. IssuedOnce'
  BY DEF OnceInv, IssuedOnce
<1> QED BY <1>0, <1>2, <1>3 DEF OnceInv

\* It is kept by a handler that begins with what is stored.
LEMMA ReadsOnce ==
  ASSUME OneIssuer, IInv, OnceInv, NEW h \in IssuerHandlers, UNCHANGED <<rec, used, made>>,
         job[h] = None, CopyFresh(h)'
  PROVE  OnceInv'
<1>1. Written(h) /\ StoredUsed'
  BY DEF Written, OnceInv, StoredUsed, At
<1> QED BY <1>1, OnceKept

\* Starting an offer keeps one credential per exchange.
LEMMA StartOfferOnce ==
  ASSUME OneIssuer, IInv, OnceInv, NEW h \in IssuerHandlers, StartOffer(h)
  PROVE  OnceInv'
<1>1. job[h] = None /\ UNCHANGED <<rec, used, made>>
  BY DEF StartOffer, Begin
<1>2. CopyFresh(h)'
  BY <1>1 DEF StartOffer, Begin, CopyFresh, IInv, TypeOK, Stored, RecsOf, Found, Record, NewRecord
<1> QED BY <1>1, <1>2, ReadsOnce

\* A call to send the offer keeps one credential per exchange.
LEMMA SendBoundOfferOnce ==
  ASSUME OneIssuer, IInv, OnceInv, NEW h \in IssuerHandlers, SendBoundOffer(h)
  PROVE  OnceInv'
<1>1. job[h] = None /\ UNCHANGED <<rec, used, made>>
  BY DEF SendBoundOffer, Begin
<1>2. CopyFresh(h)'
  BY <1>1 DEF SendBoundOffer, Begin, CopyFresh, IInv, TypeOK, Stored, RecsOf, Found, Record, NewRecord
<1> QED BY <1>1, <1>2, ReadsOnce

\* A call to issue keeps one credential per exchange.
LEMMA SendIssueOnce ==
  ASSUME OneIssuer, IInv, OnceInv, NEW h \in IssuerHandlers, SendIssue(h)
  PROVE  OnceInv'
<1>1. job[h] = None /\ UNCHANGED <<rec, used, made>>
  BY DEF SendIssue, Begin
<1>2. CopyFresh(h)'
  BY <1>1 DEF SendIssue, Begin, CopyFresh, IInv, TypeOK, Stored, RecsOf, Found, Record, NewRecord
<1> QED BY <1>1, <1>2, ReadsOnce

\* An ack received keeps one credential per exchange.
LEMMA ReceiveAckOnce ==
  ASSUME OneIssuer, IInv, OnceInv, NEW h \in IssuerHandlers, ReceiveAck(h)
  PROVE  OnceInv'
<1>1. job[h] = None /\ UNCHANGED <<rec, used, made>>
  BY DEF ReceiveAck, Begin
<1>2. CopyFresh(h)'
  BY <1>1 DEF ReceiveAck, Begin, CopyFresh, IInv, TypeOK, Stored, RecsOf, Found, Record, NewRecord
<1> QED BY <1>1, <1>2, ReadsOnce

\* A request received keeps one credential per exchange.
LEMMA ReceiveRequestOnce ==
  ASSUME OneIssuer, IInv, OnceInv, NEW h \in IssuerHandlers, NEW q \in Requests, ReceiveRequest(h, q)
  PROVE  OnceInv'
<1>1. job[h] = None /\ UNCHANGED <<rec, used, made>>
  BY DEF ReceiveRequest, Begin
<1>2. CopyFresh(h)'
  <2>1. CASE UNCHANGED job
    BY <1>1, <2>1 DEF CopyFresh
  <2>2. ASSUME NEW r \in IssuerRecs, Found("issuer", r),
               Begin(h, "saveRequest", r, [rec[r] EXCEPT !.request = q, !.state = "request_received"])
        PROVE  CopyFresh(h)'
    <3> DEFINE copy == [rec[r] EXCEPT !.request = q, !.state = "request_received"]
    <3>1. rec[r] # None /\ rec[r] \in Record
      BY <2>2, FoundFacts DEF IInv, Agents, RecsOf
    <3>2. copy.cred = rec[r].cred
      BY <3>1 DEF Record
    <3>3. job' = [job EXCEPT ![h] = [step |-> "saveRequest", id |-> r, copy |-> copy]]
      BY <2>2 DEF Begin
    <3> HIDE DEF copy
    <3> QED BY <1>1, <3>1, <3>2, <3>3 DEF CopyFresh, IInv, TypeOK
  <2> QED BY <2>1, <2>2 DEF ReceiveRequest
<1> QED BY <1>1, <1>2, ReadsOnce

\* A proposal received keeps one credential per exchange.
LEMMA ReceiveProposalOnce ==
  ASSUME OneIssuer, IInv, OnceInv, NEW h \in IssuerHandlers, ReceiveProposal(h)
  PROVE  OnceInv'
<1> USE DEF ReceiveProposal, Update, CanUpdate, Add, Begin, Goto, End, At
<1>1. /\ UNCHANGED made /\ used \subseteq used'
      /\ job[h] # None => job[h].copy \in Record /\ job[h].id \in IssuerRecs \cup {None}
  BY DEF IInv, IssuerJobOK, TypeOK, Job
<1>2. CopyFresh(h)'
  BY <1>1 DEF IInv, TypeOK, OnceInv, CopyFresh, Record, NewRecord, IssuerStates, HolderStates
<1>3. StoredUsed'
  BY <1>1 DEF IInv, TypeOK, OnceInv, StoredUsed
<1>4. Written(h)
  BY <1>1 DEF IInv, TypeOK, OnceInv, CopyFresh, Written, Record
<1> QED BY <1>1, <1>2, <1>3, <1>4, OnceKept

\* Saving the offer keeps one credential per exchange.
LEMMA SaveOfferOnce ==
  ASSUME OneIssuer, IInv, OnceInv, NEW h \in IssuerHandlers, SaveOffer(h)
  PROVE  OnceInv'
<1> USE DEF SaveOffer, Update, CanUpdate, Add, Begin, Goto, End, At
<1>1. /\ UNCHANGED made /\ used \subseteq used'
      /\ job[h] # None => job[h].copy \in Record /\ job[h].id \in IssuerRecs \cup {None}
  BY DEF IInv, IssuerJobOK, TypeOK, Job
<1>2. CopyFresh(h)'
  BY <1>1 DEF IInv, TypeOK, OnceInv, CopyFresh, Record, NewRecord, IssuerStates, HolderStates
<1>3. StoredUsed'
  BY <1>1 DEF IInv, TypeOK, OnceInv, StoredUsed
<1>4. Written(h)
  BY <1>1 DEF IInv, TypeOK, OnceInv, CopyFresh, Written, Record
<1> QED BY <1>1, <1>2, <1>3, <1>4, OnceKept

\* Saving the request keeps one credential per exchange.
LEMMA SaveRequestOnce ==
  ASSUME OneIssuer, IInv, OnceInv, NEW h \in IssuerHandlers, SaveRequest(h)
  PROVE  OnceInv'
<1> USE DEF SaveRequest, Update, CanUpdate, Add, Begin, Goto, End, At
<1>1. /\ UNCHANGED made /\ used \subseteq used'
      /\ job[h] # None => job[h].copy \in Record /\ job[h].id \in IssuerRecs \cup {None}
  BY DEF IInv, IssuerJobOK, TypeOK, Job
<1>2. CopyFresh(h)'
  BY <1>1 DEF IInv, TypeOK, OnceInv, CopyFresh, Record, NewRecord, IssuerStates, HolderStates
<1>3. StoredUsed'
  BY <1>1 DEF IInv, TypeOK, OnceInv, StoredUsed
<1>4. Written(h)
  BY <1>1 DEF IInv, TypeOK, OnceInv, CopyFresh, Written, Record
<1> QED BY <1>1, <1>2, <1>3, <1>4, OnceKept

\* Saving what was issued keeps one credential per exchange.
LEMMA SaveIssuedOnce ==
  ASSUME OneIssuer, IInv, OnceInv, NEW h \in IssuerHandlers, SaveIssued(h)
  PROVE  OnceInv'
<1> USE DEF SaveIssued, Update, CanUpdate, Add, Begin, Goto, End, At
<1>1. /\ UNCHANGED made /\ used \subseteq used'
      /\ job[h] # None => job[h].copy \in Record /\ job[h].id \in IssuerRecs \cup {None}
  BY DEF IInv, IssuerJobOK, TypeOK, Job
<1>2. CopyFresh(h)'
  BY <1>1 DEF IInv, TypeOK, OnceInv, CopyFresh, Record, NewRecord, IssuerStates, HolderStates
<1>3. StoredUsed'
  BY <1>1 DEF IInv, TypeOK, OnceInv, StoredUsed
<1>4. Written(h)
  BY <1>1 DEF IInv, TypeOK, OnceInv, CopyFresh, Written, Record
<1> QED BY <1>1, <1>2, <1>3, <1>4, OnceKept

\* Saving the ack keeps one credential per exchange.
LEMMA SaveAckedOnce ==
  ASSUME OneIssuer, IInv, OnceInv, NEW h \in IssuerHandlers, SaveAcked(h)
  PROVE  OnceInv'
<1> USE DEF SaveAcked, Update, CanUpdate, Add, Begin, Goto, End, At
<1>1. /\ UNCHANGED made /\ used \subseteq used'
      /\ job[h] # None => job[h].copy \in Record /\ job[h].id \in IssuerRecs \cup {None}
  BY DEF IInv, IssuerJobOK, TypeOK, Job
<1>2. CopyFresh(h)'
  BY <1>1 DEF IInv, TypeOK, OnceInv, CopyFresh, Record, NewRecord, IssuerStates, HolderStates
<1>3. StoredUsed'
  BY <1>1 DEF IInv, TypeOK, OnceInv, StoredUsed
<1>4. Written(h)
  BY <1>1 DEF IInv, TypeOK, OnceInv, CopyFresh, Written, Record
<1> QED BY <1>1, <1>2, <1>3, <1>4, OnceKept

\* Removing the acknowledged record keeps one credential per exchange.
LEMMA RemoveAckedOnce ==
  ASSUME OneIssuer, IInv, OnceInv, NEW h \in IssuerHandlers, RemoveAcked(h)
  PROVE  OnceInv'
<1> USE DEF RemoveAcked, Update, CanUpdate, Add, Begin, Goto, End, At
<1>1. /\ UNCHANGED made /\ used \subseteq used'
      /\ job[h] # None => job[h].copy \in Record /\ job[h].id \in IssuerRecs \cup {None}
  BY DEF IInv, IssuerJobOK, TypeOK, Job
<1>2. CopyFresh(h)'
  BY <1>1 DEF IInv, TypeOK, OnceInv, CopyFresh, Record, NewRecord, IssuerStates, HolderStates
<1>3. StoredUsed'
  BY <1>1 DEF IInv, TypeOK, OnceInv, StoredUsed
<1>4. Written(h)
  BY <1>1 DEF IInv, TypeOK, OnceInv, CopyFresh, Written, Record
<1> QED BY <1>1, <1>2, <1>3, <1>4, OnceKept

\* Creating the credential keeps one credential per exchange.
LEMMA CreateCredentialOnce ==
  ASSUME OneIssuer, IInv, OnceInv, NEW h \in IssuerHandlers, CreateCredential(h)
  PROVE  OnceInv'
<1>r. PICK r \in IssuerRecs : r = job[h].id
  BY DEF CreateCredential, At, IInv, IssuerJobOK
<1>0. /\ job[h] # None /\ job[h].step = "issue" /\ job[h].copy \in Record
      /\ r # None
      /\ rec[r] # None /\ job[h].copy.cred = rec[r].cred
      /\ \A g \in IssuerHandlers : g = h
      /\ UNCHANGED <<rec, used>>
  BY <1>r DEF CreateCredential, At, IInv, TypeOK, Job, OnceInv, CopyFresh, OneIssuer
<1>1. StoredUsed'
  BY <1>0 DEF OnceInv, StoredUsed
<1>2. ASSUME job[h].copy.cred # None, Goto(h, "saveIssued", r, job[h].copy), UNCHANGED made
      PROVE  OnceInv'
  <2>1. CopyFresh(h)'
    BY <1>r, <1>0, <1>2 DEF Goto, CopyFresh, IInv, TypeOK
  <2>2. Written(h)
    BY <1>r, <1>0 DEF Written, At
  <2> QED BY <1>0, <1>1, <1>2, <2>1, <2>2, OnceKept
<1>3. ASSUME job[h].copy.cred = None, NEW c \in Creds, made[c] = None,
             made' = [made EXCEPT ![c] = [ex |-> r, request |-> job[h].copy.request]],
             Goto(h, "saveIssued", r, [job[h].copy EXCEPT !.cred = c])
      PROVE  OnceInv'
  <2> DEFINE copy == [job[h].copy EXCEPT !.cred = c]
             m == [ex |-> r, request |-> job[h].copy.request]
  <2>1. copy \in Record /\ copy.cred = c /\ m.ex = r
    BY <1>0 DEF Record
  <2>2. /\ made'[c] = m /\ \A d \in Creds : d # c => made'[d] = made[d]
        /\ job'[h] = [step |-> "saveIssued", id |-> r, copy |-> copy]
    BY <1>3 DEF Goto, IInv, TypeOK
  <2>3. job'[h] # None /\ job'[h].step = "saveIssued" /\ job'[h].id = r /\ job'[h].copy = copy
    <3>1. job'[h] \in Job
      BY <1>0, <2>1, <2>2 DEF Job, IssuerSteps
    <3> QED BY <2>2, <3>1
  <2> HIDE DEF copy, m
  <2>4. \A d \in Creds : made[d] # None => made[d].ex # r
    <3> SUFFICES ASSUME NEW d \in Creds, made[d] # None, made[d].ex = r PROVE FALSE
      OBVIOUS
    <3>1. rec[r].cred = d \/ Saving(r, d)
      BY <1>0 DEF OnceInv, MadeKnown, Known
    <3>2. ~Saving(r, d)
      BY <1>0 DEF Saving, At
    <3> QED BY <1>0, <1>3, <3>1, <3>2
  <2>5. CopyFresh(h)'
    BY <1>0, <1>3, <2>1, <2>3 DEF CopyFresh
  <2>6. IssuedOnce'
    BY <2>1, <2>2, <2>4 DEF OnceInv, IssuedOnce
  <2>7. ASSUME NEW d \in Creds PROVE Known(d)'
    <3>1. CASE d = c
      <4>1. Saving(r, c)'
        BY <2>1, <2>3 DEF Saving, At
      <4> QED BY <1>0, <2>1, <2>2, <3>1, <4>1 DEF Known, OnceInv, StoredUsed
    <3>2. CASE d # c
      <4>1. ~Saving(made[d].ex, d)
        BY <1>0 DEF Saving, At
      <4> QED BY <1>0, <2>2, <3>2, <4>1 DEF OnceInv, MadeKnown, Known
    <3> QED BY <3>1, <3>2
  <2> QED BY <1>0, <1>1, <2>5, <2>6, <2>7 DEF OnceInv, MadeKnown
<1> QED BY <1>r, <1>0, <1>2, <1>3 DEF CreateCredential

\* A step of the holder leaves the issuer alone.
IssuerAside ==
    /\ UNCHANGED made /\ used \subseteq used'
    /\ \A g \in IssuerHandlers : job'[g] = job[g]
    /\ \A r \in IssuerRecs : rec'[r] = rec[r]

\* Every step of the holder leaves the issuer alone.
LEMMA HolderStep ==
  ASSUME IInv, NEW h \in HolderHandlers,
         HolderCalled(h) \/ HolderReceives(h) \/ HolderContinues(h)
  PROVE  IssuerAside
<1> USE DEF Begin, Goto, End, At, Add, Update, CanUpdate, IssuerAside
<1>0. job[h] # None => job[h].id \in HolderRecs \cup {None}
  BY DEF IInv, HolderJobOK
<1>1. SendProposal(h) => IssuerAside
  BY <1>0 DEF SendProposal, IInv, TypeOK
<1>2. SendRequest(h) => IssuerAside
  BY <1>0 DEF SendRequest, IInv, TypeOK
<1>3. SendStore(h) => IssuerAside
  BY <1>0 DEF SendStore, IInv, TypeOK
<1>4. ReceiveOffer(h) => IssuerAside
  BY <1>0 DEF ReceiveOffer, IInv, TypeOK
<1>5. SaveOfferReceived(h) => IssuerAside
  BY <1>0 DEF SaveOfferReceived, IInv, TypeOK
<1>6. CreateRequest(h) => IssuerAside
  BY <1>0 DEF CreateRequest, IInv, TypeOK
<1>7. SaveCredential(h) => IssuerAside
  BY <1>0 DEF SaveCredential, IInv, TypeOK
<1>8. StoreCredential(h) => IssuerAside
  BY <1>0 DEF StoreCredential, IInv, TypeOK
<1>9. SaveStored(h) => IssuerAside
  BY <1>0 DEF SaveStored, IInv, TypeOK
<1>10. FinishStore(h) => IssuerAside
  BY <1>0 DEF FinishStore, IInv, TypeOK
<1>11. ASSUME NEW c \in Creds, ReceiveCredential(h, c) PROVE IssuerAside
  BY <1>11 DEF ReceiveCredential, IInv, TypeOK
<1> HIDE DEF IssuerAside
<1> QED BY <1>1, <1>2, <1>3, <1>4, <1>5, <1>6, <1>7, <1>8, <1>9, <1>10, <1>11 DEF HolderCalled, HolderReceives, HolderContinues

\* The steps that are no agent's own keep one credential per exchange.
LEMMA OtherOnce ==
  ASSUME OneIssuer, IInv, OnceInv,
         \/ \E h \in Handlers : RecordGone(h) \/ HandlerFails(h)
         \/ \E a \in Agents : Restart(a) \/ ExpireIndex(a)
         \/ RemoveRecord \/ ExpireRequest
         \/ UNCHANGED vars
  PROVE  OnceInv'
<1>1. ~Fault
  BY DEF Fault, OneIssuer, IInv, TypeOK
<1>2. ASSUME NEW h \in Handlers, RecordGone(h) PROVE OnceInv'
  <2>1. h \in HolderHandlers
    BY <1>2 DEF RecordGone, UpdateRefused, OnceInv, CopyFresh
  <2>2. \A g \in IssuerHandlers : job'[g] = job[g]
    BY <1>2, <2>1 DEF RecordGone, UpdateRefused, End, IInv, TypeOK
  <2> QED BY <1>2, <2>2, OnceAside DEF RecordGone, UpdateRefused
<1>3. ASSUME NEW a \in Agents, ExpireIndex(a) PROVE OnceInv'
  BY <1>3, OnceAside DEF ExpireIndex
<1>4. CASE ExpireRequest \/ UNCHANGED vars
  BY <1>4, OnceAside DEF ExpireRequest, vars
<1> QED BY <1>1, <1>2, <1>3, <1>4 DEF HandlerFails, Restart, RemoveRecord

\* Every step keeps the invariant of IssuedOnce.
LEMMA NextOnce == ASSUME OneIssuer, IInv, IInv', OnceInv, [Next]_vars PROVE OnceInv'
<1>1. ASSUME NEW h \in IssuerHandlers, IssuerCalled(h) \/ IssuerReceives(h) \/ IssuerContinues(h)
      PROVE  OnceInv'
  BY <1>1, StartOfferOnce, SendBoundOfferOnce, SendIssueOnce, ReceiveProposalOnce,
     ReceiveRequestOnce, ReceiveAckOnce, SaveOfferOnce, SaveRequestOnce, CreateCredentialOnce,
     SaveIssuedOnce, SaveAckedOnce, RemoveAckedOnce
     DEF IssuerCalled, IssuerReceives, IssuerContinues
<1>2. ASSUME NEW h \in HolderHandlers, HolderCalled(h) \/ HolderReceives(h) \/ HolderContinues(h)
      PROVE  OnceInv'
  BY <1>2, HolderStep, OnceAside DEF IssuerAside
<1> HIDE DEF Handlers
<1> QED BY <1>1, <1>2, OtherOnce DEF Next

\* One at a time, and nothing fails: an exchange gets one credential.
THEOREM OneCredentialEach == ASSUME OneIssuer PROVE Spec => []IssuedOnce
<1>1. IInv /\ IInv' /\ OnceInv /\ [Next]_vars => OnceInv'
  BY NextOnce
<1>2. OnceInv => IssuedOnce
  BY DEF OnceInv
<1> QED BY <1>1, <1>2, InitOnce, Invariance, PTL DEF Spec

-----------------------------------------------------------------------------
\* What is received can be stored: there is one request, and it is in the
\* holder's record by the time a credential for it arrives.

\* The holder runs one handler at a time, asks for what it is offered by itself,
\* and nothing fails.
OneHolder == (\A g, h \in HolderHandlers : g = h) /\ AutoRequest = TRUE /\ MaxFault = 0

\* Before the exchange is started there is nothing.
Quiet == ~offered =>
    /\ used = {} /\ reqCache = None
    /\ \A r \in RecIds : rec[r] = None
    /\ \A h \in Handlers : job[h] = None
    /\ \A m \in Message : net[m] = 0

\* Without a failure, and until it expires, there is one request, the cached one: no other is asked with,
\* recorded, or made a credential for.
ReqKnown(copy) ==
    /\ copy.request \in {None, reqCache}
    /\ copy.state = "request_received" => copy.request # None
    /\ copy.cred # None => made[copy.cred] # None

IssuerRecKnown(r) == rec[r] # None => ReqKnown(rec[r])

IssuerJobKnown(h) == job[h] # None =>
    /\ ReqKnown(job[h].copy)
    /\ job[h].step \in {"saveRequest", "issue"} => job[h].copy.state = "request_received"
    /\ job[h].step = "saveIssued" => job[h].copy.cred # None

MadeForIt == \A c \in Creds : made[c] # None => made[c].request = reqCache /\ reqCache # None

MsgsKnown ==
    /\ \A q \in Requests : net[Msg("request", q)] > 0 => q = reqCache
    /\ \A c \in Creds : net[Msg("issue", c)] > 0 => made[c] # None

IssuerKnows ==
    /\ \A r \in IssuerRecs : IssuerRecKnown(r)
    /\ \A h \in IssuerHandlers : IssuerJobKnown(h)
    /\ MadeForIt

\* The holder's records have the request, but for the one it is being made for.
Asking(r) == \E h \in HolderHandlers : At(h, "request") /\ job[h].id = r

RawMade(copy) == copy.state = "credential_received" => copy.raw \in Creds /\ made[copy.raw] # None

HolderRecKnown(r) == rec[r] # None =>
    /\ r \in used
    /\ rec[r].request = reqCache \/ (rec[r].state = "offer_received" /\ Asking(r))
    /\ RawMade(rec[r])

HolderJobKnown(h) == job[h] # None =>
    /\ RawMade(job[h].copy)
    /\ job[h].id # None => job[h].id \in used
    /\ job[h].id # None /\ job[h].step # "request" => job[h].copy.request = reqCache
    /\ job[h].id = None => job[h].copy.request = None
    /\ job[h].step = "request" => job[h].id # None /\ job[h].copy.request \in {None, reqCache}
    /\ job[h].step \in {"saveOffer", "request"} => job[h].copy.state = "offer_received"
    /\ job[h].step \notin {"saveOffer", "request"} => reqCache # None

\* Before the request there is one record at most, and it is there.
First == reqCache = None =>
    /\ \A r, s \in used \cap HolderRecs : r = s
    /\ \A r \in used \cap HolderRecs : rec[r] # None
    /\ index["holder"] # None => index["holder"] \in used \cap HolderRecs
    /\ \A h \in HolderHandlers : job[h] # None /\ job[h].id = None => used \cap HolderRecs = {}

HolderKnows ==
    /\ \A r \in HolderRecs : HolderRecKnown(r)
    /\ \A h \in HolderHandlers : HolderJobKnown(h)
    /\ First

StoreInv == Quiet /\ IssuerKnows /\ MsgsKnown /\ HolderKnows

\* The invariant of ReceivedCanBeStored holds initially.
LEMMA InitStore == Init => StoreInv
<1> SUFFICES ASSUME Init PROVE StoreInv
  OBVIOUS
<1>1. Quiet
  BY DEF Init, Quiet
<1>2. IssuerKnows
  BY DEF Init, IssuerKnows, IssuerRecKnown, IssuerJobKnown, MadeForIt
<1>3. MsgsKnown
  BY MsgFacts DEF Init, MsgsKnown
<1>4. HolderKnows
  BY DEF Init, HolderKnows, HolderRecKnown, HolderJobKnown, First, Agents
<1> QED BY <1>1, <1>2, <1>3, <1>4 DEF StoreInv

\* An exchange stays started.
LEMMA OfferedStays == ASSUME [Next]_vars, offered = TRUE PROVE offered' = TRUE
<1>1. ASSUME NEW h \in IssuerHandlers, IssuerCalled(h) \/ IssuerReceives(h) PROVE offered' = TRUE
  BY <1>1 DEF IssuerCalled, IssuerReceives, StartOffer, SendBoundOffer, SendIssue, ReceiveProposal,
     ReceiveRequest, ReceiveAck
<1>2. ASSUME NEW h \in IssuerHandlers, IssuerContinues(h) PROVE offered' = TRUE
  BY <1>2 DEF IssuerContinues, SaveOffer, SaveRequest, CreateCredential, SaveIssued, SaveAcked, RemoveAcked
<1>3. ASSUME NEW h \in HolderHandlers, HolderCalled(h) \/ HolderReceives(h) PROVE offered' = TRUE
  BY <1>3 DEF HolderCalled, HolderReceives, SendProposal, SendRequest, SendStore, ReceiveOffer, ReceiveCredential
<1>4. ASSUME NEW h \in HolderHandlers, HolderContinues(h) PROVE offered' = TRUE
  BY <1>4 DEF HolderContinues, SaveOfferReceived, CreateRequest, SaveCredential, StoreCredential,
     SaveStored, FinishStore
<1>5. ASSUME NEW h \in Handlers, RecordGone(h) \/ HandlerFails(h) PROVE offered' = TRUE
  BY <1>5 DEF RecordGone, UpdateRefused, HandlerFails
<1>6. ASSUME NEW a \in Agents, Restart(a) \/ ExpireIndex(a) PROVE offered' = TRUE
  BY <1>6 DEF Restart, ExpireIndex
<1>7. RemoveRecord \/ ExpireRequest \/ UNCHANGED vars => offered' = TRUE
  BY DEF RemoveRecord, ExpireRequest, vars
<1> HIDE DEF Handlers
<1> QED BY <1>1, <1>2, <1>3, <1>4, <1>5, <1>6, <1>7, Zenon DEF Next

\* That a cached request was gone is remembered.
LEMMA LapsedStays == ASSUME [Next]_vars, lapsed = TRUE PROVE lapsed' = TRUE
<1>1. ASSUME NEW h \in IssuerHandlers, IssuerCalled(h) \/ IssuerReceives(h) PROVE lapsed' = TRUE
  BY <1>1 DEF IssuerCalled, IssuerReceives, StartOffer, SendBoundOffer, SendIssue, ReceiveProposal,
     ReceiveRequest, ReceiveAck
<1>2. ASSUME NEW h \in IssuerHandlers, IssuerContinues(h) PROVE lapsed' = TRUE
  BY <1>2 DEF IssuerContinues, SaveOffer, SaveRequest, CreateCredential, SaveIssued, SaveAcked, RemoveAcked
<1>3. ASSUME NEW h \in HolderHandlers, HolderCalled(h) \/ HolderReceives(h) PROVE lapsed' = TRUE
  BY <1>3 DEF HolderCalled, HolderReceives, SendProposal, SendRequest, SendStore, ReceiveOffer, ReceiveCredential
<1>4. ASSUME NEW h \in HolderHandlers, HolderContinues(h) PROVE lapsed' = TRUE
  BY <1>4 DEF HolderContinues, SaveOfferReceived, CreateRequest, SaveCredential, StoreCredential,
     SaveStored, FinishStore
<1>5. ASSUME NEW h \in Handlers, RecordGone(h) \/ HandlerFails(h) PROVE lapsed' = TRUE
  BY <1>5 DEF RecordGone, UpdateRefused, HandlerFails
<1>6. ASSUME NEW a \in Agents, Restart(a) \/ ExpireIndex(a) PROVE lapsed' = TRUE
  BY <1>6 DEF Restart, ExpireIndex
<1>7. RemoveRecord \/ ExpireRequest \/ UNCHANGED vars => lapsed' = TRUE
  BY DEF RemoveRecord, ExpireRequest, vars
<1> HIDE DEF Handlers
<1> QED BY <1>1, <1>2, <1>3, <1>4, <1>5, <1>6, <1>7, Zenon DEF Next

\* Nothing but a start happens in an exchange that is not started.
LEMMA QuietKept == ASSUME IInv, OneHolder, Quiet, [Next]_vars PROVE Quiet'
<1> SUFFICES ASSUME ~offered, ~offered' PROVE Quiet'
  BY OfferedStays DEF Quiet, IInv, TypeOK
<1>0. ~Fault
  BY DEF Fault, OneHolder, IInv, TypeOK
<1>1. \A m \in Message : ~Receive(m)
  BY DEF Quiet, Receive
<1>2. \A h \in Handlers : \A step : ~At(h, step)
  BY DEF Quiet, At
<1>3. \A r : r \notin Stored("issuer") /\ r \notin Stored("holder")
  BY DEF Quiet, Stored, RecsOf
<1>4. ASSUME NEW h \in IssuerHandlers PROVE ~(IssuerCalled(h) \/ IssuerReceives(h) \/ IssuerContinues(h))
  <2>1. ~IssuerCalled(h)
    BY <1>3 DEF IssuerCalled, StartOffer, SendBoundOffer, SendIssue
  <2>2. ~IssuerReceives(h)
    BY <1>1, MsgFacts DEF IssuerReceives, ReceiveProposal, ReceiveRequest, ReceiveAck
  <2>3. ~IssuerContinues(h)
    BY <1>2 DEF IssuerContinues, SaveOffer, SaveRequest, CreateCredential, SaveIssued, SaveAcked, RemoveAcked
  <2> QED BY <2>1, <2>2, <2>3
<1>5. ASSUME NEW h \in HolderHandlers PROVE ~(HolderCalled(h) \/ HolderReceives(h) \/ HolderContinues(h))
  <2>1. ~HolderCalled(h)
    BY <1>3 DEF HolderCalled, SendProposal, SendRequest, SendStore
  <2>2. ~HolderReceives(h)
    BY <1>1, MsgFacts DEF HolderReceives, ReceiveOffer, ReceiveCredential
  <2>3. ~HolderContinues(h)
    BY <1>2 DEF HolderContinues, SaveOfferReceived, CreateRequest, SaveCredential, StoreCredential, SaveStored, FinishStore
  <2> QED BY <2>1, <2>2, <2>3
<1>6. ASSUME NEW h \in Handlers PROVE ~(RecordGone(h) \/ HandlerFails(h))
  BY <1>0 DEF Quiet, RecordGone, HandlerFails
<1>7. ~RemoveRecord /\ \A a \in Agents : ~Restart(a)
  BY <1>0 DEF RemoveRecord, Restart
<1>8. ASSUME NEW a \in Agents, ExpireIndex(a) PROVE Quiet'
  BY <1>8 DEF ExpireIndex, Quiet
<1>9. CASE ExpireRequest \/ UNCHANGED vars
  BY <1>9 DEF ExpireRequest, vars, Quiet
<1> HIDE DEF Handlers
<1> QED BY <1>4, <1>5, <1>6, <1>7, <1>8, <1>9 DEF Next

\* Starting an offer keeps what the issuer knows.
LEMMA StartOfferKnows ==
  ASSUME IInv, IssuerKnows, MsgsKnown, NEW h \in IssuerHandlers, StartOffer(h)
  PROVE  IssuerKnows' /\ MsgsKnown'
<1>m. MsgsKnown'
  BY DEF StartOffer, MsgsKnown
<1> USE DEF StartOffer, Update, CanUpdate, Add, Begin, Goto, End, At
<1>0. job[h] # None => job[h].copy \in Record /\ job[h].id \in IssuerRecs \cup {None}
  BY DEF IInv, IssuerJobOK, TypeOK, Job
<1>1. ASSUME NEW r \in IssuerRecs PROVE IssuerRecKnown(r)'
  BY <1>0 DEF IInv, TypeOK, IssuerKnows, IssuerRecKnown, IssuerJobKnown, ReqKnown, Record, NewRecord
<1>2. ASSUME NEW g \in IssuerHandlers PROVE IssuerJobKnown(g)'
  BY <1>0 DEF IInv, TypeOK, IssuerKnows, IssuerRecKnown, IssuerJobKnown, ReqKnown, Record, NewRecord,
     Stored, Found, RecsOf
<1>3. MadeForIt'
  BY DEF IssuerKnows, MadeForIt
<1> QED BY <1>m, <1>1, <1>2, <1>3 DEF IssuerKnows

\* A call to send the offer keeps what the issuer knows.
LEMMA SendBoundOfferKnows ==
  ASSUME IInv, IssuerKnows, MsgsKnown, NEW h \in IssuerHandlers, SendBoundOffer(h)
  PROVE  IssuerKnows' /\ MsgsKnown'
<1>m. MsgsKnown'
  BY DEF SendBoundOffer, MsgsKnown
<1> USE DEF SendBoundOffer, Update, CanUpdate, Add, Begin, Goto, End, At
<1>0. job[h] # None => job[h].copy \in Record /\ job[h].id \in IssuerRecs \cup {None}
  BY DEF IInv, IssuerJobOK, TypeOK, Job
<1>1. ASSUME NEW r \in IssuerRecs PROVE IssuerRecKnown(r)'
  BY <1>0 DEF IInv, TypeOK, IssuerKnows, IssuerRecKnown, IssuerJobKnown, ReqKnown, Record, NewRecord
<1>2. ASSUME NEW g \in IssuerHandlers PROVE IssuerJobKnown(g)'
  BY <1>0 DEF IInv, TypeOK, IssuerKnows, IssuerRecKnown, IssuerJobKnown, ReqKnown, Record, NewRecord,
     Stored, Found, RecsOf
<1>3. MadeForIt'
  BY DEF IssuerKnows, MadeForIt
<1> QED BY <1>m, <1>1, <1>2, <1>3 DEF IssuerKnows

\* A call to issue keeps what the issuer knows.
LEMMA SendIssueKnows ==
  ASSUME IInv, IssuerKnows, MsgsKnown, NEW h \in IssuerHandlers, SendIssue(h)
  PROVE  IssuerKnows' /\ MsgsKnown'
<1>m. MsgsKnown'
  BY DEF SendIssue, MsgsKnown
<1> USE DEF SendIssue, Update, CanUpdate, Add, Begin, Goto, End, At
<1>0. job[h] # None => job[h].copy \in Record /\ job[h].id \in IssuerRecs \cup {None}
  BY DEF IInv, IssuerJobOK, TypeOK, Job
<1>1. ASSUME NEW r \in IssuerRecs PROVE IssuerRecKnown(r)'
  BY <1>0 DEF IInv, TypeOK, IssuerKnows, IssuerRecKnown, IssuerJobKnown, ReqKnown, Record, NewRecord
<1>2. ASSUME NEW g \in IssuerHandlers PROVE IssuerJobKnown(g)'
  BY <1>0 DEF IInv, TypeOK, IssuerKnows, IssuerRecKnown, IssuerJobKnown, ReqKnown, Record, NewRecord,
     Stored, Found, RecsOf
<1>3. MadeForIt'
  BY DEF IssuerKnows, MadeForIt
<1> QED BY <1>m, <1>1, <1>2, <1>3 DEF IssuerKnows

\* A proposal received keeps what the issuer knows.
LEMMA ReceiveProposalKnows ==
  ASSUME IInv, IssuerKnows, MsgsKnown, NEW h \in IssuerHandlers, ReceiveProposal(h)
  PROVE  IssuerKnows' /\ MsgsKnown'
<1>m. MsgsKnown'
  <2>1. /\ net' \in [Message -> Nat]
        /\ \A n \in Message : net'[n] > 0 => net[n] > 0
    BY MsgFacts, ReceiveFacts DEF ReceiveProposal, IInv
  <2> QED BY <2>1, MsgFacts DEF ReceiveProposal, MsgsKnown
<1> USE DEF ReceiveProposal, Update, CanUpdate, Add, Begin, Goto, End, At
<1>0. job[h] # None => job[h].copy \in Record /\ job[h].id \in IssuerRecs \cup {None}
  BY DEF IInv, IssuerJobOK, TypeOK, Job
<1>1. ASSUME NEW r \in IssuerRecs PROVE IssuerRecKnown(r)'
  BY <1>0 DEF IInv, TypeOK, IssuerKnows, IssuerRecKnown, IssuerJobKnown, ReqKnown, Record, NewRecord
<1>2. ASSUME NEW g \in IssuerHandlers PROVE IssuerJobKnown(g)'
  BY <1>0 DEF IInv, TypeOK, IssuerKnows, IssuerRecKnown, IssuerJobKnown, ReqKnown, Record, NewRecord,
     Stored, Found, RecsOf
<1>3. MadeForIt'
  BY DEF IssuerKnows, MadeForIt
<1> QED BY <1>m, <1>1, <1>2, <1>3 DEF IssuerKnows

\* An ack received keeps what the issuer knows.
LEMMA ReceiveAckKnows ==
  ASSUME IInv, IssuerKnows, MsgsKnown, NEW h \in IssuerHandlers, ReceiveAck(h)
  PROVE  IssuerKnows' /\ MsgsKnown'
<1>m. MsgsKnown'
  <2>1. /\ net' \in [Message -> Nat]
        /\ \A n \in Message : net'[n] > 0 => net[n] > 0
    BY MsgFacts, ReceiveFacts DEF ReceiveAck, IInv
  <2> QED BY <2>1, MsgFacts DEF ReceiveAck, MsgsKnown
<1> USE DEF ReceiveAck, Update, CanUpdate, Add, Begin, Goto, End, At
<1>0. job[h] # None => job[h].copy \in Record /\ job[h].id \in IssuerRecs \cup {None}
  BY DEF IInv, IssuerJobOK, TypeOK, Job
<1>1. ASSUME NEW r \in IssuerRecs PROVE IssuerRecKnown(r)'
  BY <1>0 DEF IInv, TypeOK, IssuerKnows, IssuerRecKnown, IssuerJobKnown, ReqKnown, Record, NewRecord
<1>2. ASSUME NEW g \in IssuerHandlers PROVE IssuerJobKnown(g)'
  BY <1>0 DEF IInv, TypeOK, IssuerKnows, IssuerRecKnown, IssuerJobKnown, ReqKnown, Record, NewRecord,
     Stored, Found, RecsOf
<1>3. MadeForIt'
  BY DEF IssuerKnows, MadeForIt
<1> QED BY <1>m, <1>1, <1>2, <1>3 DEF IssuerKnows

\* A request received keeps what the issuer knows.
LEMMA ReceiveRequestKnows ==
  ASSUME IInv, IssuerKnows, MsgsKnown, NEW h \in IssuerHandlers, NEW q \in Requests, ReceiveRequest(h, q)
  PROVE  IssuerKnows' /\ MsgsKnown'
<1>m. MsgsKnown'
  <2>1. /\ net' \in [Message -> Nat]
        /\ \A n \in Message : net'[n] > 0 => net[n] > 0
    BY MsgFacts, ReceiveFacts DEF ReceiveRequest, IInv
  <2> QED BY <2>1, MsgFacts DEF ReceiveRequest, MsgsKnown
<1> USE DEF ReceiveRequest, Update, CanUpdate, Add, Begin, Goto, End, At
<1>0. job[h] # None => job[h].copy \in Record /\ job[h].id \in IssuerRecs \cup {None}
  BY DEF IInv, IssuerJobOK, TypeOK, Job
<1>1. ASSUME NEW r \in IssuerRecs PROVE IssuerRecKnown(r)'
  BY <1>0 DEF IInv, TypeOK, IssuerKnows, IssuerRecKnown, IssuerJobKnown, ReqKnown, Record, NewRecord
<1>2. ASSUME NEW g \in IssuerHandlers PROVE IssuerJobKnown(g)'
  <2>1. CASE UNCHANGED job
    BY <2>1 DEF IssuerKnows, IssuerJobKnown, ReqKnown
  <2>2. ASSUME NEW r \in IssuerRecs, Found("issuer", r),
               Begin(h, "saveRequest", r, [rec[r] EXCEPT !.request = q, !.state = "request_received"])
        PROVE  IssuerJobKnown(g)'
    <3> DEFINE copy == [rec[r] EXCEPT !.request = q, !.state = "request_received"]
    <3>1. rec[r] # None /\ rec[r] \in Record
      BY <2>2, FoundFacts DEF IInv, Agents, RecsOf
    <3>2. /\ copy \in Record /\ copy.cred = rec[r].cred
          /\ copy.request = q /\ copy.state = "request_received"
      BY <3>1 DEF Record, IssuerStates
    <3>3. q = reqCache /\ q # None
      BY MsgFacts DEF Receive, MsgsKnown
    <3>4. job' = [job EXCEPT ![h] = [step |-> "saveRequest", id |-> r, copy |-> copy]]
      BY <2>2 DEF Begin
    <3>5. UNCHANGED <<made, reqCache>>
      OBVIOUS
    <3> HIDE DEF copy, ReceiveRequest
    <3> QED BY <3>1, <3>2, <3>3, <3>4, <3>5 DEF IInv, TypeOK, IssuerKnows, IssuerRecKnown, IssuerJobKnown, ReqKnown
  <2> QED BY <2>1, <2>2
<1>3. MadeForIt'
  BY DEF IssuerKnows, MadeForIt
<1> QED BY <1>m, <1>1, <1>2, <1>3 DEF IssuerKnows

\* Saving the offer keeps what the issuer knows.
LEMMA SaveOfferKnows ==
  ASSUME IInv, IssuerKnows, MsgsKnown, NEW h \in IssuerHandlers, SaveOffer(h)
  PROVE  IssuerKnows' /\ MsgsKnown'
<1>m. MsgsKnown'
  <2>1. \A n \in Message : n # Msg("offer", None) => net'[n] = net[n]
    BY SendFacts DEF SaveOffer, IInv
  <2> QED BY <2>1, MsgFacts DEF SaveOffer, MsgsKnown, Msg
<1> USE DEF SaveOffer, Update, CanUpdate, Add, Begin, Goto, End, At
<1>0. job[h] # None => job[h].copy \in Record /\ job[h].id \in IssuerRecs \cup {None}
  BY DEF IInv, IssuerJobOK, TypeOK, Job
<1>1. ASSUME NEW r \in IssuerRecs PROVE IssuerRecKnown(r)'
  BY <1>0 DEF IInv, TypeOK, IssuerKnows, IssuerRecKnown, IssuerJobKnown, ReqKnown, Record, NewRecord
<1>2. ASSUME NEW g \in IssuerHandlers PROVE IssuerJobKnown(g)'
  BY <1>0 DEF IInv, TypeOK, IssuerKnows, IssuerRecKnown, IssuerJobKnown, ReqKnown, Record, NewRecord,
     Stored, Found, RecsOf
<1>3. MadeForIt'
  BY DEF IssuerKnows, MadeForIt
<1> QED BY <1>m, <1>1, <1>2, <1>3 DEF IssuerKnows

\* Saving the request keeps what the issuer knows.
LEMMA SaveRequestKnows ==
  ASSUME IInv, IssuerKnows, MsgsKnown, NEW h \in IssuerHandlers, SaveRequest(h)
  PROVE  IssuerKnows' /\ MsgsKnown'
<1>m. MsgsKnown'
  BY DEF SaveRequest, MsgsKnown
<1> USE DEF SaveRequest, Update, CanUpdate, Add, Begin, Goto, End, At
<1>0. job[h] # None => job[h].copy \in Record /\ job[h].id \in IssuerRecs \cup {None}
  BY DEF IInv, IssuerJobOK, TypeOK, Job
<1>1. ASSUME NEW r \in IssuerRecs PROVE IssuerRecKnown(r)'
  BY <1>0 DEF IInv, TypeOK, IssuerKnows, IssuerRecKnown, IssuerJobKnown, ReqKnown, Record, NewRecord
<1>2. ASSUME NEW g \in IssuerHandlers PROVE IssuerJobKnown(g)'
  BY <1>0 DEF IInv, TypeOK, IssuerKnows, IssuerRecKnown, IssuerJobKnown, ReqKnown, Record, NewRecord,
     Stored, Found, RecsOf
<1>3. MadeForIt'
  BY DEF IssuerKnows, MadeForIt
<1> QED BY <1>m, <1>1, <1>2, <1>3 DEF IssuerKnows

\* Saving the ack keeps what the issuer knows.
LEMMA SaveAckedKnows ==
  ASSUME IInv, IssuerKnows, MsgsKnown, NEW h \in IssuerHandlers, SaveAcked(h)
  PROVE  IssuerKnows' /\ MsgsKnown'
<1>m. MsgsKnown'
  BY DEF SaveAcked, MsgsKnown
<1> USE DEF SaveAcked, Update, CanUpdate, Add, Begin, Goto, End, At
<1>0. job[h] # None => job[h].copy \in Record /\ job[h].id \in IssuerRecs \cup {None}
  BY DEF IInv, IssuerJobOK, TypeOK, Job
<1>1. ASSUME NEW r \in IssuerRecs PROVE IssuerRecKnown(r)'
  BY <1>0 DEF IInv, TypeOK, IssuerKnows, IssuerRecKnown, IssuerJobKnown, ReqKnown, Record, NewRecord
<1>2. ASSUME NEW g \in IssuerHandlers PROVE IssuerJobKnown(g)'
  BY <1>0 DEF IInv, TypeOK, IssuerKnows, IssuerRecKnown, IssuerJobKnown, ReqKnown, Record, NewRecord,
     Stored, Found, RecsOf
<1>3. MadeForIt'
  BY DEF IssuerKnows, MadeForIt
<1> QED BY <1>m, <1>1, <1>2, <1>3 DEF IssuerKnows

\* Removing the acknowledged record keeps what the issuer knows.
LEMMA RemoveAckedKnows ==
  ASSUME IInv, IssuerKnows, MsgsKnown, NEW h \in IssuerHandlers, RemoveAcked(h)
  PROVE  IssuerKnows' /\ MsgsKnown'
<1>m. MsgsKnown'
  BY DEF RemoveAcked, MsgsKnown
<1> USE DEF RemoveAcked, Update, CanUpdate, Add, Begin, Goto, End, At
<1>0. job[h] # None => job[h].copy \in Record /\ job[h].id \in IssuerRecs \cup {None}
  BY DEF IInv, IssuerJobOK, TypeOK, Job
<1>1. ASSUME NEW r \in IssuerRecs PROVE IssuerRecKnown(r)'
  BY <1>0 DEF IInv, TypeOK, IssuerKnows, IssuerRecKnown, IssuerJobKnown, ReqKnown, Record, NewRecord
<1>2. ASSUME NEW g \in IssuerHandlers PROVE IssuerJobKnown(g)'
  BY <1>0 DEF IInv, TypeOK, IssuerKnows, IssuerRecKnown, IssuerJobKnown, ReqKnown, Record, NewRecord,
     Stored, Found, RecsOf
<1>3. MadeForIt'
  BY DEF IssuerKnows, MadeForIt
<1> QED BY <1>m, <1>1, <1>2, <1>3 DEF IssuerKnows

\* Saving what was issued keeps what the issuer knows.
LEMMA SaveIssuedKnows ==
  ASSUME IInv, IssuerKnows, MsgsKnown, NEW h \in IssuerHandlers, SaveIssued(h)
  PROVE  IssuerKnows' /\ MsgsKnown'
<1>m. MsgsKnown'
  <2>1. job[h].copy.cred \in Creds /\ made[job[h].copy.cred] # None
    BY DEF SaveIssued, At, IInv, IssuerJobOK, TypeOK, Job, Record, IssuerKnows, IssuerJobKnown, ReqKnown
  <2>2. PICK c \in Creds : c = job[h].copy.cred
    BY <2>1
  <2>3. \A n \in Message : n # Msg("issue", c) => net'[n] = net[n]
    BY <2>2, MsgFacts, SendFacts DEF SaveIssued, IInv, TypeOK
  <2>4. \A q \in Requests : Msg("request", q) # Msg("issue", c)
    BY DEF Msg
  <2>5. \A d \in Creds : d # c => Msg("issue", d) # Msg("issue", c)
    BY DEF Msg
  <2> QED BY <2>1, <2>2, <2>3, <2>4, <2>5, MsgFacts DEF SaveIssued, MsgsKnown
<1> USE DEF SaveIssued, Update, CanUpdate, Add, Begin, Goto, End, At
<1>0. job[h] # None => job[h].copy \in Record /\ job[h].id \in IssuerRecs \cup {None}
  BY DEF IInv, IssuerJobOK, TypeOK, Job
<1>1. ASSUME NEW r \in IssuerRecs PROVE IssuerRecKnown(r)'
  BY <1>0 DEF IInv, TypeOK, IssuerKnows, IssuerRecKnown, IssuerJobKnown, ReqKnown, Record, NewRecord
<1>2. ASSUME NEW g \in IssuerHandlers PROVE IssuerJobKnown(g)'
  BY <1>0 DEF IInv, TypeOK, IssuerKnows, IssuerRecKnown, IssuerJobKnown, ReqKnown, Record, NewRecord,
     Stored, Found, RecsOf
<1>3. MadeForIt'
  BY DEF IssuerKnows, MadeForIt
<1> QED BY <1>m, <1>1, <1>2, <1>3 DEF IssuerKnows

\* Creating the credential keeps what the issuer knows.
LEMMA CreateCredentialKnows ==
  ASSUME IInv, IssuerKnows, MsgsKnown, NEW h \in IssuerHandlers, CreateCredential(h)
  PROVE  IssuerKnows' /\ MsgsKnown'
<1>r. PICK r \in IssuerRecs : r = job[h].id
  BY DEF CreateCredential, At, IInv, IssuerJobOK
<1>0. /\ job[h] # None /\ job[h].step = "issue" /\ job[h].copy \in Record
      /\ job[h].copy.request = reqCache /\ reqCache # None
      /\ job[h].copy.cred # None => made[job[h].copy.cred] # None
      /\ job[h].copy.cred \in Creds \cup {None}
      /\ UNCHANGED <<rec, reqCache, net>>
  BY DEF CreateCredential, At, IInv, TypeOK, Job, Record, IssuerKnows, IssuerJobKnown, ReqKnown
<1>2. ASSUME job[h].copy.cred # None, Goto(h, "saveIssued", r, job[h].copy), UNCHANGED made
      PROVE  IssuerKnows' /\ MsgsKnown'
  <2>1. \A g \in IssuerHandlers : IssuerJobKnown(g)'
    BY <1>r, <1>0, <1>2 DEF Goto, IInv, TypeOK, IssuerKnows, IssuerJobKnown, ReqKnown
  <2>2. MadeForIt' /\ MsgsKnown' /\ \A s \in IssuerRecs : IssuerRecKnown(s)'
    BY <1>0, <1>2 DEF IssuerKnows, MadeForIt, MsgsKnown, IssuerRecKnown, ReqKnown
  <2> QED BY <2>1, <2>2 DEF IssuerKnows
<1>3. ASSUME job[h].copy.cred = None, NEW c \in Creds, made[c] = None,
             made' = [made EXCEPT ![c] = [ex |-> r, request |-> job[h].copy.request]],
             Goto(h, "saveIssued", r, [job[h].copy EXCEPT !.cred = c])
      PROVE  IssuerKnows' /\ MsgsKnown'
  <2> DEFINE copy == [job[h].copy EXCEPT !.cred = c]
             m == [ex |-> r, request |-> job[h].copy.request]
  <2>1. /\ copy \in Record /\ copy.cred = c /\ m.request = reqCache
        /\ copy.request = reqCache
    BY <1>0 DEF Record
  <2>2. /\ made'[c] = m /\ \A d \in Creds : d # c => made'[d] = made[d]
        /\ job' = [job EXCEPT ![h] = [step |-> "saveIssued", id |-> r, copy |-> copy]]
    BY <1>3 DEF Goto, IInv, TypeOK
  <2>3. m # None
    <3>1. m \in Made
      BY <1>r, <1>0 DEF Record, Made
    <3> QED BY <3>1
  <2> HIDE DEF copy, m
  <2>4. \A d \in Creds : made[d] # None => made'[d] # None
    BY <1>3, <2>2
  <2>5. \A g \in IssuerHandlers : IssuerJobKnown(g)'
    BY <1>r, <1>0, <2>1, <2>2, <2>3, <2>4 DEF IInv, TypeOK, Job, Record, IssuerKnows, IssuerJobKnown, ReqKnown
  <2>6. MadeForIt'
    BY <1>0, <2>1, <2>2 DEF IssuerKnows, MadeForIt
  <2>7. MsgsKnown' /\ \A s \in IssuerRecs : IssuerRecKnown(s)'
    BY <1>0, <2>4 DEF IInv, TypeOK, Record, IssuerKnows, MsgsKnown, IssuerRecKnown, ReqKnown
  <2> QED BY <2>5, <2>6, <2>7 DEF IssuerKnows
<1> QED BY <1>r, <1>0, <1>2, <1>3 DEF CreateCredential

\* A step of the issuer leaves the holder alone.
HolderAside ==
    /\ UNCHANGED reqCache
    /\ \A c \in Creds : made[c] # None => made'[c] # None
    /\ index'["holder"] = index["holder"]
    /\ \A r \in HolderRecs : rec'[r] = rec[r] /\ (r \in used' <=> r \in used)
    /\ \A h \in HolderHandlers : job'[h] = job[h]

\* Every step of the issuer leaves the holder alone.
LEMMA IssuerStep ==
  ASSUME IInv, NEW h \in IssuerHandlers,
         IssuerCalled(h) \/ IssuerReceives(h) \/ IssuerContinues(h)
  PROVE  HolderAside
<1> USE DEF Begin, Goto, End, At, Add, Update, CanUpdate, HolderAside
<1>0. job[h] # None => job[h].id \in IssuerRecs \cup {None}
  BY DEF IInv, IssuerJobOK
<1>1. StartOffer(h) => HolderAside
  BY <1>0 DEF StartOffer, IInv, TypeOK, Agents
<1>2. SendBoundOffer(h) => HolderAside
  BY <1>0 DEF SendBoundOffer, IInv, TypeOK, Agents
<1>3. SendIssue(h) => HolderAside
  BY <1>0 DEF SendIssue, IInv, TypeOK, Agents
<1>4. ReceiveProposal(h) => HolderAside
  BY <1>0 DEF ReceiveProposal, IInv, TypeOK, Agents
<1>5. ReceiveAck(h) => HolderAside
  BY <1>0 DEF ReceiveAck, IInv, TypeOK, Agents
<1>6. SaveOffer(h) => HolderAside
  BY <1>0 DEF SaveOffer, IInv, TypeOK, Agents
<1>7. SaveRequest(h) => HolderAside
  BY <1>0 DEF SaveRequest, IInv, TypeOK, Agents
<1>8. SaveIssued(h) => HolderAside
  BY <1>0 DEF SaveIssued, IInv, TypeOK, Agents
<1>9. SaveAcked(h) => HolderAside
  BY <1>0 DEF SaveAcked, IInv, TypeOK, Agents
<1>10. RemoveAcked(h) => HolderAside
  BY <1>0 DEF RemoveAcked, IInv, TypeOK, Agents
<1>11. ASSUME NEW q \in Requests, ReceiveRequest(h, q) PROVE HolderAside
  BY <1>0, <1>11 DEF ReceiveRequest, IInv, TypeOK, Agents
<1>12. CreateCredential(h) => HolderAside
  BY <1>0 DEF CreateCredential, IInv, TypeOK, Agents
<1> HIDE DEF HolderAside
<1> QED BY <1>1, <1>2, <1>3, <1>4, <1>5, <1>6, <1>7, <1>8, <1>9, <1>10, <1>11, <1>12
        DEF IssuerCalled, IssuerReceives, IssuerContinues

\* What the holder knows is kept by a step of the issuer.
LEMMA HolderKnowsKept == ASSUME IInv, HolderKnows, HolderAside PROVE HolderKnows'
<1>1. \A r : Asking(r) => Asking(r)'
  BY DEF HolderAside, Asking, At
<1>2. ASSUME NEW r \in HolderRecs PROVE HolderRecKnown(r)'
  BY <1>1 DEF HolderAside, HolderKnows, HolderRecKnown, RawMade
<1>3. ASSUME NEW h \in HolderHandlers PROVE HolderJobKnown(h)'
  <2>1. job[h] # None => job[h].id \in HolderRecs \cup {None}
    BY DEF IInv, HolderJobOK
  <2> QED BY <2>1 DEF HolderAside, HolderKnows, HolderJobKnown, RawMade
<1>4. First'
  BY DEF HolderAside, HolderKnows, First
<1> QED BY <1>2, <1>3, <1>4 DEF HolderKnows

\* What the issuer knows is kept by a step of the holder.
LEMMA IssuerKnowsKept ==
  ASSUME IInv, IssuerKnows, IssuerAside, reqCache' = reqCache \/ reqCache = None
  PROVE  IssuerKnows'
<1>1. MadeForIt'
  BY DEF IssuerAside, IssuerKnows, MadeForIt
<1>2. ASSUME NEW r \in IssuerRecs PROVE IssuerRecKnown(r)'
  BY DEF IssuerAside, IssuerKnows, IssuerRecKnown, ReqKnown
<1>3. ASSUME NEW h \in IssuerHandlers PROVE IssuerJobKnown(h)'
  BY DEF IssuerAside, IssuerKnows, IssuerJobKnown, ReqKnown
<1> QED BY <1>1, <1>2, <1>3 DEF IssuerKnows

\* What is under way is kept by a step that sends the cached request or no request.
LEMMA MsgsKnownKept ==
  ASSUME IInv, MsgsKnown, UNCHANGED made, reqCache' = reqCache \/ reqCache = None,
         \A m \in Message : net'[m] > 0 => \/ net[m] > 0
                                           \/ m.type \in {"proposal", "offer", "ack"}
                                           \/ m = Msg("request", reqCache')
  PROVE  MsgsKnown'
<1>1. ASSUME NEW q \in Requests, net'[Msg("request", q)] > 0 PROVE q = reqCache'
  BY <1>1, MsgFacts DEF MsgsKnown, Msg
<1>2. ASSUME NEW c \in Creds, net'[Msg("issue", c)] > 0 PROVE made'[c] # None
  BY <1>2, MsgFacts DEF MsgsKnown, Msg
<1> QED BY <1>1, <1>2 DEF MsgsKnown

\* What a step of the holder knows when it begins.
LEMMA HolderAlone ==
  ASSUME OneHolder, HolderKnows, NEW h \in HolderHandlers
  PROVE  /\ \A g \in HolderHandlers : g = h
         /\ ~At(h, "request") => \A r \in HolderRecs : rec[r] # None => rec[r].request = reqCache
  BY DEF OneHolder, HolderKnows, HolderRecKnown, Asking

\* Sending a proposal keeps what the holder knows.
LEMMA SendProposalKnows ==
  ASSUME OneHolder, IInv, StoreInv, NEW h \in HolderHandlers, SendProposal(h)
  PROVE  HolderKnows'
<1> USE DEF SendProposal, Update, CanUpdate, Add, Begin, Goto, End, At, StoreInv
<1>0. /\ job[h] # None => job[h].copy \in Record /\ job[h].id \in HolderRecs \cup {None}
      /\ \A g \in HolderHandlers : g = h
      /\ UNCHANGED made
  BY HolderAlone DEF IInv, HolderJobOK, TypeOK, Job
<1>4. /\ used = {} /\ reqCache = None
      /\ \A r \in HolderRecs : rec[r] = None
      /\ \A g \in HolderHandlers : job[g] = None /\ job'[g] = None
      /\ index["holder"] = None
  BY <1>0 DEF Quiet, HolderKnows, First
<1>5. PICK r \in HolderRecs : used' = {r} /\ rec' = [rec EXCEPT ![r] = NewRecord("proposal_sent", FALSE)]
  BY <1>4
<1>6. rec'[r] # None /\ rec'[r].request = None /\ rec'[r].state = "proposal_sent"
  <2>1. NewRecord("proposal_sent", FALSE) \in Record
    BY DEF Record, NewRecord, HolderStates
  <2>2. rec'[r] = NewRecord("proposal_sent", FALSE)
    BY <1>5 DEF IInv, TypeOK
  <2>3. rec'[r] # None
    BY <2>1, <2>2
  <2> QED BY <2>2, <2>3 DEF NewRecord
<1>1. ASSUME NEW s \in HolderRecs PROVE HolderRecKnown(s)'
  BY <1>4, <1>5, <1>6 DEF IInv, TypeOK, HolderRecKnown, RawMade
<1>2. HolderJobKnown(h)'
  BY <1>4 DEF HolderJobKnown
<1>3. First'
  BY <1>4, <1>5, <1>6 DEF First
<1> QED BY <1>0, <1>1, <1>2, <1>3 DEF HolderKnows

\* A call to ask keeps what the holder knows.
LEMMA SendRequestKnows ==
  ASSUME OneHolder, IInv, StoreInv, NEW h \in HolderHandlers, SendRequest(h)
  PROVE  HolderKnows'
<1> USE DEF SendRequest, Update, CanUpdate, Add, Begin, Goto, End, At, StoreInv
<1>0. /\ job[h] # None => job[h].copy \in Record /\ job[h].id \in HolderRecs \cup {None}
      /\ \A g \in HolderHandlers : g = h
      /\ UNCHANGED made
  BY HolderAlone DEF IInv, HolderJobOK, TypeOK, Job
<1>1. ASSUME NEW r \in HolderRecs PROVE HolderRecKnown(r)'
  BY <1>0, HolderAlone DEF IInv, TypeOK, HolderKnows, HolderRecKnown, HolderJobKnown, RawMade,
     Asking, Record, NewRecord
<1>2. HolderJobKnown(h)'
  BY <1>0, HolderAlone DEF IInv, TypeOK, HolderJobOK, HolderKnows, HolderRecKnown, HolderJobKnown, RawMade,
     Asking, Record, NewRecord, Stored, RecsOf, IssuerKnows, MadeForIt
<1>3. First'
  <2>1. PICK r \in HolderRecs : /\ r \in used
                                /\ job' = [job EXCEPT ![h] = [step |-> "request", id |-> r, copy |-> rec[r]]]
    BY DEF HolderKnows, HolderRecKnown, Stored, RecsOf
  <2>2. r # None
    OBVIOUS
  <2> QED BY <1>0, <2>1, <2>2 DEF IInv, TypeOK, HolderKnows, First
<1> QED BY <1>0, <1>1, <1>2, <1>3 DEF HolderKnows

\* A call to store keeps what the holder knows.
LEMMA SendStoreKnows ==
  ASSUME OneHolder, IInv, StoreInv, NEW h \in HolderHandlers, SendStore(h)
  PROVE  HolderKnows'
<1> USE DEF SendStore, Update, CanUpdate, Add, Begin, Goto, End, At, StoreInv
<1>0. /\ job[h] # None => job[h].copy \in Record /\ job[h].id \in HolderRecs \cup {None}
      /\ \A g \in HolderHandlers : g = h
      /\ UNCHANGED made
  BY HolderAlone DEF IInv, HolderJobOK, TypeOK, Job
<1>1. ASSUME NEW r \in HolderRecs PROVE HolderRecKnown(r)'
  BY <1>0, HolderAlone DEF IInv, TypeOK, HolderKnows, HolderRecKnown, HolderJobKnown, RawMade,
     Asking, Record, NewRecord
<1>2. HolderJobKnown(h)'
  BY <1>0, HolderAlone DEF IInv, TypeOK, HolderJobOK, HolderKnows, HolderRecKnown, HolderJobKnown, RawMade,
     Asking, Record, NewRecord, Stored, RecsOf, IssuerKnows, MadeForIt
<1>3. First'
  <2>1. PICK r \in HolderRecs : /\ r \in used
                                /\ job' = [job EXCEPT ![h] = [step |-> "store", id |-> r, copy |-> rec[r]]]
    BY DEF HolderKnows, HolderRecKnown, Stored, RecsOf
  <2>2. r # None
    OBVIOUS
  <2> QED BY <1>0, <2>1, <2>2 DEF IInv, TypeOK, HolderKnows, First
<1> QED BY <1>0, <1>1, <1>2, <1>3 DEF HolderKnows

\* An offer received keeps what the holder knows.
LEMMA ReceiveOfferKnows ==
  ASSUME OneHolder, IInv, StoreInv, NEW h \in HolderHandlers, ReceiveOffer(h)
  PROVE  HolderKnows'
<1> USE DEF ReceiveOffer, Update, CanUpdate, Add, Begin, Goto, End, At, StoreInv
<1>0. /\ job[h] # None => job[h].copy \in Record /\ job[h].id \in HolderRecs \cup {None}
      /\ \A g \in HolderHandlers : g = h
      /\ UNCHANGED made
  BY HolderAlone DEF IInv, HolderJobOK, TypeOK, Job
<1>1. ASSUME NEW r \in HolderRecs PROVE HolderRecKnown(r)'
  BY <1>0, HolderAlone DEF IInv, TypeOK, HolderKnows, HolderRecKnown, HolderJobKnown, RawMade,
     Asking, Record, NewRecord
<1>2. HolderJobKnown(h)' /\ First'
  <2>1. CASE UNCHANGED <<index, job>>
    BY <2>1 DEF HolderKnows, HolderJobKnown, RawMade, First
  <2>2. ASSUME NEW r \in HolderRecs, Found("holder", r), index' = [index EXCEPT !["holder"] = r],
               Begin(h, "saveOffer", r, [rec[r] EXCEPT !.state = "offer_received"])
        PROVE  HolderJobKnown(h)' /\ First'
    <3> DEFINE copy == [rec[r] EXCEPT !.state = "offer_received"]
    <3>1. rec[r] # None /\ rec[r] \in Record
      BY <2>2, FoundFacts DEF IInv, Agents, RecsOf
    <3>2. /\ copy \in Record /\ copy.request = rec[r].request
          /\ copy.state = "offer_received" /\ copy.raw = rec[r].raw
      BY <3>1 DEF Record, HolderStates
    <3>3. r \in used /\ rec[r].request = reqCache /\ r # None
      BY <3>1, HolderAlone DEF HolderKnows, HolderRecKnown
    <3>4. job' = [job EXCEPT ![h] = [step |-> "saveOffer", id |-> r, copy |-> copy]]
      BY <2>2
    <3>5. UNCHANGED <<made, reqCache, rec, used>>
      OBVIOUS
    <3> HIDE DEF copy, ReceiveOffer
    <3>6. HolderJobKnown(h)'
      BY <3>2, <3>3, <3>4, <3>5 DEF IInv, TypeOK, HolderJobKnown, RawMade
    <3>7. First'
      BY <1>0, <2>2, <3>3, <3>4, <3>5 DEF IInv, TypeOK, Agents, HolderKnows, First
    <3> QED BY <3>6, <3>7
  <2>3. ASSUME NotFound("holder"), UNCHANGED index,
               Begin(h, "saveOffer", None, NewRecord("offer_received", FALSE))
        PROVE  HolderJobKnown(h)' /\ First'
    <3>1. HolderJobKnown(h)'
      BY <2>3 DEF IInv, TypeOK, HolderJobKnown, RawMade, NewRecord
    <3>2. reqCache = None => used \cap HolderRecs = {}
      BY <2>3 DEF NotFound, Stored, RecsOf, HolderKnows, First
    <3>3. First'
      BY <1>0, <2>3, <3>2 DEF HolderKnows, First
    <3> QED BY <3>1, <3>3
  <2> QED BY <2>1, <2>2, <2>3
<1>3. First'
  BY <1>2
<1> QED BY <1>0, <1>1, <1>2, <1>3 DEF HolderKnows

\* Saving the offer received keeps what the holder knows.
LEMMA SaveOfferReceivedKnows ==
  ASSUME OneHolder, IInv, StoreInv, NEW h \in HolderHandlers, SaveOfferReceived(h)
  PROVE  HolderKnows'
<1> USE DEF SaveOfferReceived, Update, CanUpdate, Add, Begin, Goto, End, At, StoreInv
<1>0. /\ job[h] # None => job[h].copy \in Record /\ job[h].id \in HolderRecs \cup {None}
      /\ \A g \in HolderHandlers : g = h
      /\ UNCHANGED made
  BY HolderAlone DEF IInv, HolderJobOK, TypeOK, Job
<1>4. /\ job[h] # None /\ job[h].step = "saveOffer"
      /\ job[h].copy.state = "offer_received" /\ job[h].copy \in Record
      /\ AutoRequest = TRUE /\ UNCHANGED <<index, reqCache>>
      /\ job[h].id = None => job[h].copy.request = None
      /\ job[h].id # None => job[h].copy.request = reqCache /\ job[h].id \in used
      /\ job[h].id = None /\ reqCache = None => used \cap HolderRecs = {}
  BY <1>0 DEF OneHolder, HolderKnows, HolderJobKnown, First
<1>5. PICK r \in HolderRecs :
        /\ \/ job[h].id = None /\ Add(r, job[h].copy)
           \/ r = job[h].id /\ CanUpdate(h) /\ Update(h, job[h].copy)
        /\ job' = [job EXCEPT ![h] = [step |-> "request", id |-> r, copy |-> job[h].copy]]
  BY <1>4
<1>6. /\ rec'[r] = job[h].copy /\ r \in used' /\ used \subseteq used' /\ r # None
      /\ \A s \in HolderRecs : s # r => rec'[s] = rec[s] /\ (s \in used' => s \in used)
      /\ r \in used => job[h].id = r
      /\ job'[h] = [step |-> "request", id |-> r, copy |-> job[h].copy] /\ job'[h] # None
  BY <1>4, <1>5 DEF IInv, TypeOK, Job, HolderSteps
<1> HIDE DEF SaveOfferReceived
<1>1. ASSUME NEW s \in HolderRecs PROVE HolderRecKnown(s)'
  <2>1. CASE s = r
    BY <1>4, <1>6, <2>1 DEF HolderRecKnown, RawMade, Asking
  <2>2. CASE s # r
    <3>1. rec[s] # None => rec[s].request = reqCache
      BY <1>4, HolderAlone DEF HolderKnows, HolderRecKnown, Asking
    <3> QED BY <1>0, <1>4, <1>6, <2>2, <3>1 DEF HolderKnows, HolderRecKnown, RawMade
  <2> QED BY <2>1, <2>2
<1>2. HolderJobKnown(h)'
  BY <1>4, <1>6 DEF HolderJobKnown, RawMade
<1>3. First'
  BY <1>0, <1>4, <1>5, <1>6 DEF HolderKnows, First
<1> QED BY <1>0, <1>1, <1>2, <1>3 DEF HolderKnows

\* Making the request keeps what the holder knows.
LEMMA CreateRequestKnows ==
  ASSUME OneHolder, IInv, StoreInv, NEW h \in HolderHandlers, CreateRequest(h)
  PROVE  HolderKnows'
<1> USE DEF CreateRequest, Update, CanUpdate, Add, Begin, Goto, End, At, StoreInv
<1>0. /\ job[h] # None => job[h].copy \in Record /\ job[h].id \in HolderRecs \cup {None}
      /\ \A g \in HolderHandlers : g = h
      /\ UNCHANGED made
  BY HolderAlone DEF IInv, HolderJobOK, TypeOK, Job
<1>4. /\ job[h] # None /\ job[h].step = "request" /\ job[h].copy \in Record
      /\ job[h].id \in used /\ job[h].id \in HolderRecs
      /\ job[h].copy.state = "offer_received"
      /\ job[h].copy.request \in {None, reqCache}
  BY <1>0 DEF HolderKnows, HolderJobKnown, IInv, HolderJobOK
<1>5. PICK q \in RequestFor(job[h].copy) :
        /\ reqCache' = IF job[h].copy.request = None THEN q ELSE reqCache
        /\ IF CanUpdate(h)
           THEN Update(h, [job[h].copy EXCEPT !.request = q, !.state = "request_sent"])
           ELSE UNCHANGED <<rec, used>>
  OBVIOUS
<1>6. /\ reqCache' = q /\ q # None
      /\ reqCache = None \/ reqCache = q
  BY <1>4, <1>5 DEF RequestFor, IInv, TypeOK, Record
<1>7. PICK r \in HolderRecs : r = job[h].id
  BY <1>4
<1>8. /\ used' = used
      /\ \A s \in HolderRecs : s # r => rec'[s] = rec[s]
      /\ rec'[r] # None => rec'[r].request = q /\ rec'[r].state = "request_sent"
  <2> DEFINE copy == [job[h].copy EXCEPT !.request = q, !.state = "request_sent"]
  <2>1. copy.request = q /\ copy.state = "request_sent"
    BY <1>4 DEF Record
  <2>2. \/ rec[r] # None /\ rec' = [rec EXCEPT ![r] = copy] /\ UNCHANGED used
        \/ rec[r] = None /\ UNCHANGED <<rec, used>>
    BY <1>5, <1>7
  <2> HIDE DEF copy, CreateRequest
  <2> QED BY <2>1, <2>2 DEF IInv, TypeOK
<1>9. job'[h] = None
  BY DEF IInv, TypeOK
<1> HIDE DEF CreateRequest
<1>1. ASSUME NEW s \in HolderRecs PROVE HolderRecKnown(s)'
  <2>1. CASE s = r
    BY <1>4, <1>7, <1>8, <1>6, <2>1 DEF HolderRecKnown, RawMade
  <2>2. CASE s # r
    <3>1. ~Asking(s)
      BY <1>0, <1>7, <2>2 DEF Asking
    <3>2. reqCache = None => rec[s] = None
      BY <1>4, <1>7, <2>2 DEF HolderKnows, HolderRecKnown, First
    <3> QED BY <1>0, <1>6, <1>8, <2>2, <3>1, <3>2 DEF HolderKnows, HolderRecKnown, RawMade
  <2> QED BY <2>1, <2>2
<1>2. HolderJobKnown(h)'
  BY <1>9 DEF HolderJobKnown
<1>3. First'
  BY <1>6 DEF First
<1> QED BY <1>0, <1>1, <1>2, <1>3 DEF HolderKnows

\* A credential received keeps what the holder knows.
LEMMA ReceiveCredentialKnows ==
  ASSUME OneHolder, IInv, StoreInv, NEW h \in HolderHandlers, NEW c \in Creds, ReceiveCredential(h, c)
  PROVE  HolderKnows'
<1> USE DEF ReceiveCredential, Update, CanUpdate, Add, Begin, Goto, End, At, StoreInv
<1>0. /\ job[h] # None => job[h].copy \in Record /\ job[h].id \in HolderRecs \cup {None}
      /\ \A g \in HolderHandlers : g = h
      /\ UNCHANGED made
  BY HolderAlone DEF IInv, HolderJobOK, TypeOK, Job
<1>4. job[h] = None /\ UNCHANGED <<rec, used, made, reqCache>>
  OBVIOUS
<1>5. reqCache # None /\ made[c] # None
  BY MsgFacts DEF Receive, MsgsKnown, IssuerKnows, MadeForIt
<1>1. ASSUME NEW s \in HolderRecs PROVE HolderRecKnown(s)'
  <2>1. ~Asking(s)
    BY <1>0, <1>4 DEF Asking
  <2> QED BY <1>4, <2>1 DEF HolderKnows, HolderRecKnown, RawMade
<1>2. HolderJobKnown(h)'
  <2>1. CASE UNCHANGED job
    BY <1>4, <2>1 DEF HolderJobKnown
  <2>2. ASSUME NEW r \in HolderRecs, Found("holder", r),
               Begin(h, "saveCredential", r,
                     [rec[r] EXCEPT !.raw = c, !.state = "credential_received"])
        PROVE  HolderJobKnown(h)'
    <3> DEFINE copy == [rec[r] EXCEPT !.raw = c, !.state = "credential_received"]
    <3>1. rec[r] # None /\ rec[r] \in Record
      BY <2>2, FoundFacts DEF IInv, Agents, RecsOf
    <3>2. /\ copy.request = rec[r].request /\ copy.raw = c
          /\ copy.state = "credential_received"
      BY <3>1 DEF Record
    <3>3. r \in used /\ rec[r].request = reqCache /\ r # None
      BY <1>4, <3>1, HolderAlone DEF HolderKnows, HolderRecKnown
    <3>4. job' = [job EXCEPT ![h] = [step |-> "saveCredential", id |-> r, copy |-> copy]]
      BY <2>2
    <3> HIDE DEF copy, ReceiveCredential
    <3> QED BY <1>4, <1>5, <3>2, <3>3, <3>4 DEF IInv, TypeOK, HolderJobKnown, RawMade
  <2> QED BY <2>1, <2>2
<1>3. First'
  BY <1>4, <1>5 DEF First
<1> QED BY <1>0, <1>1, <1>2, <1>3 DEF HolderKnows

\* Saving the credential received keeps what the holder knows.
LEMMA SaveCredentialKnows ==
  ASSUME OneHolder, IInv, StoreInv, NEW h \in HolderHandlers, SaveCredential(h)
  PROVE  HolderKnows'
<1> USE DEF SaveCredential, Update, CanUpdate, Add, Begin, Goto, End, At, StoreInv
<1>0. /\ job[h] # None => job[h].copy \in Record /\ job[h].id \in HolderRecs \cup {None}
      /\ \A g \in HolderHandlers : g = h
      /\ UNCHANGED made
  BY HolderAlone DEF IInv, HolderJobOK, TypeOK, Job
<1>1. ASSUME NEW r \in HolderRecs PROVE HolderRecKnown(r)'
  BY <1>0, HolderAlone DEF IInv, TypeOK, HolderKnows, HolderRecKnown, HolderJobKnown, RawMade,
     Asking, Record, NewRecord
<1>2. HolderJobKnown(h)'
  BY <1>0, HolderAlone DEF IInv, TypeOK, HolderJobOK, HolderKnows, HolderRecKnown, HolderJobKnown, RawMade,
     Asking, Record, NewRecord, Stored, RecsOf, IssuerKnows, MadeForIt
<1>3. First'
  BY <1>0 DEF IInv, TypeOK, HolderKnows, HolderJobKnown, First
<1> QED BY <1>0, <1>1, <1>2, <1>3 DEF HolderKnows

\* Storing in the wallet keeps what the holder knows.
LEMMA StoreCredentialKnows ==
  ASSUME OneHolder, IInv, StoreInv, NEW h \in HolderHandlers, StoreCredential(h)
  PROVE  HolderKnows'
<1> USE DEF StoreCredential, Update, CanUpdate, Add, Begin, Goto, End, At, StoreInv
<1>0. /\ job[h] # None => job[h].copy \in Record /\ job[h].id \in HolderRecs \cup {None}
      /\ \A g \in HolderHandlers : g = h
      /\ UNCHANGED made
  BY HolderAlone DEF IInv, HolderJobOK, TypeOK, Job
<1>1. ASSUME NEW r \in HolderRecs PROVE HolderRecKnown(r)'
  BY <1>0, HolderAlone DEF IInv, TypeOK, HolderKnows, HolderRecKnown, HolderJobKnown, RawMade,
     Asking, Record, NewRecord
<1>2. HolderJobKnown(h)'
  <2> DEFINE copy == [job[h].copy EXCEPT !.cred = job[h].copy.raw, !.state = "credential_acked"]
  <2>1. job[h].copy.request = copy.request /\ copy.state = "credential_acked"
    BY <1>0 DEF Record
  <2>2. /\ job[h] # None /\ job[h].step = "store"
        /\ job[h].id \in used /\ job[h].id # None
        /\ job[h].copy.request = reqCache /\ reqCache # None
        /\ UNCHANGED <<used, reqCache>>
    BY DEF HolderKnows, HolderJobKnown, IInv, HolderJobOK
  <2>3. \/ job' = [job EXCEPT ![h] = None]
        \/ job' = [job EXCEPT ![h] = [step |-> "saveStored", id |-> job[h].id, copy |-> copy]]
    OBVIOUS
  <2> HIDE DEF copy, StoreCredential
  <2>4. \/ job'[h] = None
        \/ job'[h] = [step |-> "saveStored", id |-> job[h].id, copy |-> copy]
    BY <2>3 DEF IInv, TypeOK
  <2>5. CASE job'[h] = None
    BY <2>5 DEF HolderJobKnown
  <2>6. CASE job'[h] = [step |-> "saveStored", id |-> job[h].id, copy |-> copy]
    <3>1. job'[h].step = "saveStored" /\ job'[h].id = job[h].id
      BY <2>6
    <3>2. job'[h].copy = copy
      BY <2>6
    <3>3. copy.request = reqCache
      BY <2>1, <2>2
    <3>4. copy.state = "credential_acked"
      BY <2>1
    <3> QED BY <2>2, <3>1, <3>2, <3>3, <3>4 DEF HolderJobKnown, RawMade
  <2> QED BY <2>4, <2>5, <2>6
<1>3. First'
  BY <1>0 DEF IInv, TypeOK, HolderKnows, HolderJobKnown, First
<1> QED BY <1>0, <1>1, <1>2, <1>3 DEF HolderKnows

\* Saving what was stored keeps what the holder knows.
LEMMA SaveStoredKnows ==
  ASSUME OneHolder, IInv, StoreInv, NEW h \in HolderHandlers, SaveStored(h)
  PROVE  HolderKnows'
<1> USE DEF SaveStored, Update, CanUpdate, Add, Begin, Goto, End, At, StoreInv
<1>0. /\ job[h] # None => job[h].copy \in Record /\ job[h].id \in HolderRecs \cup {None}
      /\ \A g \in HolderHandlers : g = h
      /\ UNCHANGED made
  BY HolderAlone DEF IInv, HolderJobOK, TypeOK, Job
<1>1. ASSUME NEW r \in HolderRecs PROVE HolderRecKnown(r)'
  BY <1>0, HolderAlone DEF IInv, TypeOK, HolderKnows, HolderRecKnown, HolderJobKnown, RawMade,
     Asking, Record, NewRecord
<1>2. HolderJobKnown(h)'
  BY <1>0, HolderAlone DEF IInv, TypeOK, HolderJobOK, HolderKnows, HolderRecKnown, HolderJobKnown, RawMade,
     Asking, Record, NewRecord, Stored, RecsOf, IssuerKnows, MadeForIt
<1>3. First'
  BY <1>0 DEF IInv, TypeOK, HolderKnows, HolderJobKnown, First
<1> QED BY <1>0, <1>1, <1>2, <1>3 DEF HolderKnows

\* Ending with the ack keeps what the holder knows.
LEMMA FinishStoreKnows ==
  ASSUME OneHolder, IInv, StoreInv, NEW h \in HolderHandlers, FinishStore(h)
  PROVE  HolderKnows'
<1> USE DEF FinishStore, Update, CanUpdate, Add, Begin, Goto, End, At, StoreInv
<1>0. /\ job[h] # None => job[h].copy \in Record /\ job[h].id \in HolderRecs \cup {None}
      /\ \A g \in HolderHandlers : g = h
      /\ UNCHANGED made
  BY HolderAlone DEF IInv, HolderJobOK, TypeOK, Job
<1>1. ASSUME NEW r \in HolderRecs PROVE HolderRecKnown(r)'
  BY <1>0, HolderAlone DEF IInv, TypeOK, HolderKnows, HolderRecKnown, HolderJobKnown, RawMade,
     Asking, Record, NewRecord
<1>2. HolderJobKnown(h)'
  BY <1>0, HolderAlone DEF IInv, TypeOK, HolderJobOK, HolderKnows, HolderRecKnown, HolderJobKnown, RawMade,
     Asking, Record, NewRecord, Stored, RecsOf, IssuerKnows, MadeForIt
<1>3. First'
  BY <1>0 DEF IInv, TypeOK, HolderKnows, HolderJobKnown, First
<1> QED BY <1>0, <1>1, <1>2, <1>3 DEF HolderKnows

\* The messages a step of the holder leaves behind.
LEMMA HolderMessages ==
  ASSUME OneHolder, IInv, StoreInv, NEW h \in HolderHandlers,
         HolderCalled(h) \/ HolderReceives(h) \/ HolderContinues(h)
  PROVE  MsgsKnown' /\ (reqCache' = reqCache \/ reqCache = None)
<1> USE DEF StoreInv
<1>1. ASSUME UNCHANGED <<made, reqCache>>, \A m \in Message : net'[m] > 0 => net[m] > 0
      PROVE  MsgsKnown'
  BY <1>1, MsgsKnownKept
<1>2. ASSUME NEW m \in Message, Receive(m) PROVE \A n \in Message : net'[n] > 0 => net[n] > 0
  BY <1>2, ReceiveFacts DEF IInv
<1>3. ASSUME NEW m \in Message, Send(m), m.type \in {"proposal", "ack"}, UNCHANGED <<made, reqCache>>
      PROVE  MsgsKnown'
  <2>1. \A n \in Message : n # m => net'[n] = net[n]
    BY <1>3, SendFacts DEF IInv
  <2> QED BY <1>3, <2>1, MsgsKnownKept
<1>4. CASE CreateRequest(h)
  <2>1. job[h] # None /\ job[h].copy \in Record /\ job[h].copy.request \in {None, reqCache}
    BY <1>4 DEF CreateRequest, At, HolderKnows, HolderJobKnown, IInv, TypeOK, Job
  <2>2. PICK q \in RequestFor(job[h].copy) :
          /\ reqCache' = IF job[h].copy.request = None THEN q ELSE reqCache
          /\ Send(Msg("request", q)) \/ UNCHANGED net
    BY <1>4 DEF CreateRequest
  <2>3. q \in Requests /\ reqCache' = q /\ (reqCache = None \/ reqCache = q)
    BY <2>1, <2>2 DEF RequestFor, IInv, TypeOK, Record
  <2>4. \A n \in Message : n # Msg("request", q) => net'[n] = net[n]
    BY <2>2, <2>3, SendFacts, MsgFacts DEF IInv
  <2>5. UNCHANGED made
    BY <1>4 DEF CreateRequest
  <2> QED BY <2>3, <2>4, <2>5, MsgsKnownKept
<1>5. CASE HolderCalled(h) \/ HolderReceives(h)
  <2>1. SendProposal(h) => Send(Msg("proposal", None)) /\ UNCHANGED <<made, reqCache>>
    BY DEF SendProposal
  <2>2. SendRequest(h) \/ SendStore(h) => UNCHANGED <<net, made, reqCache>>
    BY DEF SendRequest, SendStore
  <2>3. ReceiveOffer(h) => Receive(Msg("offer", None)) /\ UNCHANGED <<made, reqCache>>
    BY DEF ReceiveOffer
  <2>4. \A c \in Creds : ReceiveCredential(h, c) => Receive(Msg("issue", c)) /\ UNCHANGED <<made, reqCache>>
    BY DEF ReceiveCredential
  <2>5. Msg("proposal", None).type = "proposal"
    BY DEF Msg
  <2> QED BY <1>1, <1>2, <1>3, <1>5, <2>1, <2>2, <2>3, <2>4, <2>5, MsgFacts DEF HolderCalled, HolderReceives
<1>6. CASE SaveOfferReceived(h) \/ SaveCredential(h) \/ StoreCredential(h) \/ SaveStored(h)
  <2>1. UNCHANGED <<net, made, reqCache>>
    BY <1>6 DEF SaveOfferReceived, SaveCredential, StoreCredential, SaveStored
  <2> QED BY <1>1, <2>1
<1>7. CASE FinishStore(h)
  <2>1. Msg("ack", None).type = "ack"
    BY DEF Msg
  <2> QED BY <1>3, <1>7, <2>1, MsgFacts DEF FinishStore
<1> QED BY <1>4, <1>5, <1>6, <1>7 DEF HolderContinues

\* The steps of no handler's: a record found gone, an expired index.
LEMMA OtherStore ==
  ASSUME OneHolder, IInv, StoreInv,
         \/ \E h \in Handlers : RecordGone(h) \/ HandlerFails(h)
         \/ \E a \in Agents : Restart(a) \/ ExpireIndex(a)
         \/ RemoveRecord
         \/ UNCHANGED vars
  PROVE  IssuerKnows' /\ MsgsKnown' /\ HolderKnows'
<1> USE DEF StoreInv
<1>1. ~Fault
  BY DEF Fault, OneHolder, IInv, TypeOK
<1>2. ASSUME NEW h \in Handlers, RecordGone(h) PROVE IssuerKnows' /\ MsgsKnown' /\ HolderKnows'
  <2>1. /\ job' = [job EXCEPT ![h] = None] /\ job[h] # None /\ job[h].step # "request"
        /\ UNCHANGED <<rec, used, index, net, reqCache, made>>
    BY <1>2 DEF RecordGone, UpdateRefused, End
  <2>2. \A g \in Handlers : job'[g] = None \/ job'[g] = job[g]
    BY <2>1 DEF IInv, TypeOK
  <2>3. \A r : Asking(r) => Asking(r)'
    BY <2>1 DEF Asking, At, IInv, TypeOK
  <2>4. IssuerKnows' /\ MsgsKnown'
    BY <2>1, <2>2 DEF IssuerKnows, IssuerRecKnown, IssuerJobKnown, ReqKnown, MadeForIt, MsgsKnown
  <2>5. ASSUME NEW r \in HolderRecs PROVE HolderRecKnown(r)'
    BY <2>1, <2>3 DEF HolderKnows, HolderRecKnown, RawMade
  <2>6. ASSUME NEW g \in HolderHandlers PROVE HolderJobKnown(g)'
    BY <2>1, <2>2 DEF HolderKnows, HolderJobKnown, RawMade
  <2>7. First'
    BY <2>1, <2>2 DEF HolderKnows, First
  <2> QED BY <2>4, <2>5, <2>6, <2>7 DEF HolderKnows
<1>3. CASE (\E a \in Agents : ExpireIndex(a)) \/ UNCHANGED vars
  <2>1. /\ UNCHANGED <<rec, used, job, net, reqCache, made>>
        /\ index'["holder"] \in {None, index["holder"]}
    BY <1>3 DEF ExpireIndex, vars, IInv, TypeOK, Agents
  <2>2. \A r : Asking(r) => Asking(r)'
    BY <2>1 DEF Asking, At
  <2>3. IssuerKnows' /\ MsgsKnown'
    BY <2>1 DEF IssuerKnows, IssuerRecKnown, IssuerJobKnown, ReqKnown, MadeForIt, MsgsKnown
  <2>4. ASSUME NEW r \in HolderRecs PROVE HolderRecKnown(r)'
    BY <2>1, <2>2 DEF HolderKnows, HolderRecKnown, RawMade
  <2>5. ASSUME NEW g \in HolderHandlers PROVE HolderJobKnown(g)'
    BY <2>1 DEF HolderKnows, HolderJobKnown, RawMade
  <2>6. First'
    BY <2>1 DEF HolderKnows, First
  <2> QED BY <2>3, <2>4, <2>5, <2>6 DEF HolderKnows
<1> QED BY <1>1, <1>2, <1>3 DEF HandlerFails, Restart, RemoveRecord

\* Every step but the expiry of the request keeps the invariant of ReceivedCanBeStored.
LEMMA NextStore == ASSUME OneHolder, IInv, StoreInv, [Next]_vars, ~ExpireRequest PROVE StoreInv'
<1>0. Quiet'
  BY QuietKept DEF StoreInv
<1>1. ASSUME NEW h \in IssuerHandlers, IssuerCalled(h) \/ IssuerReceives(h) \/ IssuerContinues(h)
      PROVE  IssuerKnows' /\ MsgsKnown' /\ HolderKnows'
  <2>1. IssuerKnows' /\ MsgsKnown'
    BY <1>1, StartOfferKnows, SendBoundOfferKnows, SendIssueKnows, ReceiveProposalKnows,
       ReceiveRequestKnows, ReceiveAckKnows, SaveOfferKnows, SaveRequestKnows,
       CreateCredentialKnows, SaveIssuedKnows, SaveAckedKnows, RemoveAckedKnows
       DEF StoreInv, IssuerCalled, IssuerReceives, IssuerContinues
  <2>2. HolderKnows'
    BY <1>1, IssuerStep, HolderKnowsKept DEF StoreInv
  <2> QED BY <2>1, <2>2
<1>2. ASSUME NEW h \in HolderHandlers, HolderCalled(h) \/ HolderReceives(h) \/ HolderContinues(h)
      PROVE  IssuerKnows' /\ MsgsKnown' /\ HolderKnows'
  <2>1. HolderKnows'
    BY <1>2, SendProposalKnows, SendRequestKnows, SendStoreKnows, ReceiveOfferKnows,
       ReceiveCredentialKnows, SaveOfferReceivedKnows, CreateRequestKnows, SaveCredentialKnows,
       StoreCredentialKnows, SaveStoredKnows, FinishStoreKnows
       DEF HolderCalled, HolderReceives, HolderContinues
  <2>2. MsgsKnown' /\ (reqCache' = reqCache \/ reqCache = None)
    BY <1>2, HolderMessages
  <2>3. IssuerKnows'
    BY <1>2, <2>2, HolderStep, IssuerKnowsKept DEF StoreInv
  <2> QED BY <2>1, <2>2, <2>3
<1> HIDE DEF Handlers
<1>3. IssuerKnows' /\ MsgsKnown' /\ HolderKnows'
  BY <1>1, <1>2, OtherStore DEF Next
<1> QED BY <1>0, <1>3 DEF StoreInv

\* A holder that runs one handler at a time and asks at once can store every
\* credential it has received, whatever the issuer runs and whatever comes twice,
\* as long as its cached request has not expired.
THEOREM ReceivedIsStorable == ASSUME OneHolder PROVE Spec => []ReceivedCanBeStored
<1> DEFINE J == lapsed = FALSE => StoreInv
<1>1. Init => J
  BY InitStore
<1>2. IInv /\ J /\ [Next]_vars => J'
  <2> SUFFICES ASSUME IInv, J, [Next]_vars, lapsed' = FALSE PROVE StoreInv'
    OBVIOUS
  <2>1. lapsed = FALSE
    BY LapsedStays DEF IInv, TypeOK
  <2>2. ~ExpireRequest
    BY DEF ExpireRequest
  <2> QED BY <2>1, <2>2, NextStore
<1>3. IInv /\ J => ReceivedCanBeStored
  BY DEF IInv, TypeOK, RecordsOK, StoreInv, HolderKnows, HolderRecKnown, RawMade, IssuerKnows, MadeForIt,
     ReceivedCanBeStored, Storable
<1> QED BY <1>1, <1>2, <1>3, Invariance, PTL DEF Spec

=============================================================================
