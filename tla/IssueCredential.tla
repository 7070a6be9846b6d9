---------------------------- MODULE IssueCredential ----------------------------
(***************************************************************************)
(* One exchange of the issue-credential 1.0 protocol between an issuer and *)
(* a holder agent: CredentialManager, its message handlers and its admin   *)
(* routes (protocols/issue_credential/v1_0) over the exchange records of   *)
(* messaging/models/base_record.py.                                        *)
(*                                                                         *)
(* Each agent runs its handlers as asyncio tasks that give way at every    *)
(* await of storage, ledger or wallet.  A handler works on a COPY of the   *)
(* record it retrieved and later writes the whole copy back: nothing locks *)
(* the record in between.  A handler's step here is the code between two   *)
(* such awaits.                                                            *)
(*                                                                         *)
(* Messages travel at least once and in any order (the sender's transport  *)
(* retries a POST whose answer it did not see); a message that is never    *)
(* delivered is lost.                                                      *)
(***************************************************************************)
EXTENDS Naturals, FiniteSets

CONSTANTS
    IssuerHandlers, HolderHandlers,  \* tasks each agent can run at a time
    IssuerRecs, HolderRecs,          \* record ids each agent can allocate
    Requests,                        \* indy credential requests
    Creds,                           \* credentials the issuer can create
    None,
    AutoOffer, AutoRequest, AutoIssue, AutoStore,   \* --auto-... settings
    IssuerRemoves, HolderRemoves,    \* auto_remove of each side's record
    MaxFault,                        \* bound: handlers failing, agents restarting,
                                     \* records removed by an operator
    MaxDup,                          \* bound: messages delivered once more
    Lasting                          \* bound: the exchange may outlast the cached request

Handlers == IssuerHandlers \cup HolderHandlers
RecIds   == IssuerRecs \cup HolderRecs

ASSUME ExchangeAssumption ==
    /\ IssuerHandlers \cap HolderHandlers = {}
    /\ IssuerRecs \cap HolderRecs = {}
    /\ None \notin RecIds \cup Requests \cup Creds
    /\ MaxDup \in Nat /\ MaxFault \in Nat
    /\ {AutoOffer, AutoRequest, AutoIssue, AutoStore, IssuerRemoves, HolderRemoves, Lasting}
          \subseteq BOOLEAN

IssuerStates == {"proposal_received", "offer_sent", "request_received",
                 "credential_issued", "credential_acked"}
HolderStates == {"proposal_sent", "offer_received", "request_sent",
                 "credential_received", "credential_acked"}

\* A V10CredentialExchange, reduced to what the handlers test and set.
Record == [state   : IssuerStates \cup HolderStates,
           request : Requests \cup {None},   \* credential_request and its metadata
           raw     : Creds \cup {None},      \* raw_credential (holder)
           cred    : Creds \cup {None},      \* credential
           autoIssue : BOOLEAN]

NewRecord(state, autoIssue) ==
    [state |-> state, request |-> None, raw |-> None, cred |-> None,
     autoIssue |-> autoIssue]

\* Where a handler is: the await it is in, and what it does next.
IssuerSteps == {"offer", "saveRequest", "issue", "saveIssued", "saveAcked", "removeAcked"}
HolderSteps == {"saveOffer", "request", "saveCredential", "store", "saveStored", "finish"}

\* id None: the copy is a new record, not stored yet.
Job  == [step : IssuerSteps \cup HolderSteps, id : RecIds \cup {None}, copy : Record]

\* What is known of a credential made: the exchange and the request it is for.
Made == [ex : IssuerRecs, request : Requests \cup {None}]

ASSUME NoneAssumption == None \notin Record /\ None \notin Job /\ None \notin Made

Message == [type : {"proposal", "offer", "ack"}, body : {None}]
           \cup [type : {"request"}, body : Requests]
           \cup [type : {"issue"}, body : Creds]

VARIABLES
    rec,        \* stored records: None when not stored
    used,       \* record ids given out so far
    index,      \* cached id of the thread's record, per agent
    job,        \* what each handler is doing: None when idle
    net,        \* messages under way: how many copies of each
    dups,       \* messages delivered once more so far
    faults,     \* failures, restarts and removals so far
    offered,    \* the exchange was started
    requests,   \* requests the holder has created
    reqCache,   \* the one cached for the offer's nonce
    lapsed,     \* a cached request was gone while the exchange went on
    made,       \* per credential: the exchange and the request it was made for
    wallet      \* per credential: how often the holder's wallet stored it

vars == <<rec, used, index, job, net, dups, faults, offered, requests, reqCache, lapsed, made, wallet>>

Agents == {"issuer", "holder"}

TypeOK ==
    /\ rec \in [RecIds -> Record \cup {None}]
    /\ used \subseteq RecIds
    /\ index \in [Agents -> RecIds \cup {None}]
    /\ job \in [Handlers -> Job \cup {None}]
    /\ net \in [Message -> Nat]
    /\ dups \in 0..MaxDup
    /\ faults \in 0..MaxFault
    /\ offered \in BOOLEAN
    /\ requests \subseteq Requests
    /\ reqCache \in Requests \cup {None}
    /\ lapsed \in BOOLEAN
    /\ made \in [Creds -> Made \cup {None}]
    /\ wallet \in [Creds -> Nat]

Init ==
    /\ rec = [r \in RecIds |-> None]
    /\ used = {}
    /\ index = [a \in Agents |-> None]
    /\ job = [h \in Handlers |-> None]
    /\ net = [m \in Message |-> 0]
    /\ dups = 0
    /\ faults = 0
    /\ offered = FALSE
    /\ requests = {}
    /\ reqCache = None
    /\ lapsed = FALSE
    /\ made = [c \in Creds |-> None]
    /\ wallet = [c \in Creds |-> 0]

-----------------------------------------------------------------------------
\* Records, messages and handlers.

RecsOf(a)     == IF a = "issuer" THEN IssuerRecs ELSE HolderRecs
HandlersOf(a) == IF a = "issuer" THEN IssuerHandlers ELSE HolderHandlers
Stored(a)     == {r \in RecsOf(a) : rec[r] # None}

\* retrieve_by_connection_and_thread: the cached id decides when there is one;
\* otherwise a search, which refuses to choose between several records.
Found(a, r) == IF index[a] # None THEN r = index[a] /\ rec[r] # None
                                  ELSE Stored(a) = {r}
NotFound(a) == IF index[a] # None THEN rec[index[a]] = None ELSE Stored(a) = {}

Msg(type, body) == [type |-> type, body |-> body]

Send(m) == net' = [net EXCEPT ![m] = @ + 1]

\* Take a message off the network, or leave it there to come once more.
Receive(m) ==
    /\ net[m] > 0
    /\ \/ net' = [net EXCEPT ![m] = @ - 1] /\ UNCHANGED dups
       \/ dups < MaxDup /\ dups' = dups + 1 /\ UNCHANGED net

Begin(h, step, id, copy) ==
    /\ job[h] = None
    /\ job' = [job EXCEPT ![h] = [step |-> step, id |-> id, copy |-> copy]]

At(h, step) == job[h] # None /\ job[h].step = step

Goto(h, step, id, copy) ==
    job' = [job EXCEPT ![h] = [step |-> step, id |-> id, copy |-> copy]]

End(h) == job' = [job EXCEPT ![h] = None]

\* BaseRecord.save of a new record, under an id never used before.
Add(r, copy) ==
    /\ r \notin used
    /\ used' = used \cup {r}
    /\ rec' = [rec EXCEPT ![r] = copy]

\* Mutant: a record that is gone is stored again.
CanUpdateAny(h) == job[h].id # None

\* BaseRecord.save of a record retrieved earlier writes the whole copy over
\* what is stored by now; storage refuses when the record is gone.
CanUpdate(h) == job[h].id # None /\ rec[job[h].id] # None
Update(h, copy) ==
    /\ rec' = [rec EXCEPT ![job[h].id] = copy]
    /\ UNCHANGED used

\* StorageNotFoundError leaves the handler.
UpdateRefused(h) ==
    /\ job[h].id # None /\ rec[job[h].id] = None
    /\ End(h)
    /\ UNCHANGED <<rec, used, index, net, dups, faults, offered, requests, reqCache, lapsed, made, wallet>>

-----------------------------------------------------------------------------
\* The issuer.

\* POST /issue-credential/send (auto_issue) and /send-offer (the agent's
\* setting): create_offer of a record that is stored once the offer is made.
StartOffer(h) ==
    /\ ~offered
    /\ offered' = TRUE
    /\ \E auto \in {TRUE, AutoIssue} : Begin(h, "offer", None, NewRecord("offer_sent", auto))
    /\ UNCHANGED <<rec, used, index, net, dups, requests, reqCache, lapsed, faults, made, wallet>>

\* CredentialProposalHandler: every proposal gets a record of its own.
ReceiveProposal(h) ==
    /\ Receive(Msg("proposal", None))
    /\ \E r \in IssuerRecs :
          LET copy == NewRecord("proposal_received", AutoIssue) IN
          /\ Add(r, copy)
          /\ IF AutoOffer THEN Begin(h, "offer", r, copy) ELSE job[h] = None /\ UNCHANGED job
    /\ UNCHANGED <<index, faults, offered, requests, reqCache, lapsed, made, wallet>>

\* POST /records/{id}/send-offer
SendBoundOffer(h) ==
    /\ \E r \in Stored("issuer") :
          rec[r].state = "proposal_received" /\ Begin(h, "offer", r, rec[r])
    /\ UNCHANGED <<rec, used, index, net, dups, faults, offered, requests, reqCache, lapsed, made, wallet>>

\* The end of create_offer, and the reply.
SaveOffer(h) ==
    /\ At(h, "offer")
    /\ LET copy == [job[h].copy EXCEPT !.state = "offer_sent"] IN
          \/ job[h].id = None /\ \E r \in IssuerRecs : Add(r, copy)
          \/ CanUpdate(h) /\ Update(h, copy)
    /\ Send(Msg("offer", None))
    /\ End(h)
    /\ UNCHANGED <<index, dups, faults, offered, requests, reqCache, lapsed, made, wallet>>

\* CredentialRequestHandler retrieves the record, whatever state it is in.
\* Without one, or with several, the handler raises and the message is gone.
ReceiveRequest(h, q) ==
    /\ Receive(Msg("request", q))
    /\ job[h] = None
    /\ \/ \E r \in IssuerRecs :
             /\ Found("issuer", r)
             /\ index' = [index EXCEPT !["issuer"] = r]
             /\ Begin(h, "saveRequest", r,
                      [rec[r] EXCEPT !.request = q, !.state = "request_received"])
       \/ /\ \A r \in IssuerRecs : ~Found("issuer", r)
          /\ UNCHANGED <<index, job>>
    /\ UNCHANGED <<rec, used, faults, offered, requests, reqCache, lapsed, made, wallet>>

SaveRequest(h) ==
    /\ At(h, "saveRequest")
    /\ CanUpdate(h)
    /\ Update(h, job[h].copy)
    /\ IF job[h].copy.autoIssue THEN Goto(h, "issue", job[h].id, job[h].copy) ELSE End(h)
    /\ UNCHANGED <<index, net, dups, faults, offered, requests, reqCache, lapsed, made, wallet>>

\* POST /records/{id}/issue
SendIssue(h) ==
    /\ \E r \in Stored("issuer") :
          rec[r].state = "request_received" /\ Begin(h, "issue", r, rec[r])
    /\ UNCHANGED <<rec, used, index, net, dups, faults, offered, requests, reqCache, lapsed, made, wallet>>

\* Mutant: issue_credential does not look for an earlier credential.
CreateCredentialAlways(h) ==
    /\ At(h, "issue")
    /\ \E c \in Creds :
          /\ made[c] = None
          /\ made' = [made EXCEPT ![c] = [ex |-> job[h].id, request |-> job[h].copy.request]]
          /\ Goto(h, "saveIssued", job[h].id, [job[h].copy EXCEPT !.cred = c])
    /\ UNCHANGED <<rec, used, index, net, dups, faults, offered, requests, reqCache, lapsed, wallet>>

\* issue_credential creates a credential unless the COPY already has one.
CreateCredential(h) ==
    /\ At(h, "issue")
    /\ \/ /\ job[h].copy.cred = None
          /\ \E c \in Creds :
                /\ made[c] = None
                /\ made' = [made EXCEPT ![c] = [ex |-> job[h].id,
                                                request |-> job[h].copy.request]]
                /\ Goto(h, "saveIssued", job[h].id, [job[h].copy EXCEPT !.cred = c])
       \/ /\ job[h].copy.cred # None
          /\ Goto(h, "saveIssued", job[h].id, job[h].copy)
          /\ UNCHANGED made
    /\ UNCHANGED <<rec, used, index, net, dups, faults, offered, requests, reqCache, lapsed, wallet>>

SaveIssued(h) ==
    /\ At(h, "saveIssued")
    /\ CanUpdate(h)
    /\ Update(h, [job[h].copy EXCEPT !.state = "credential_issued"])
    /\ Send(Msg("issue", job[h].copy.cred))
    /\ End(h)
    /\ UNCHANGED <<index, dups, faults, offered, requests, reqCache, lapsed, made, wallet>>

\* CredentialAckHandler
ReceiveAck(h) ==
    /\ Receive(Msg("ack", None))
    /\ job[h] = None
    /\ \/ \E r \in IssuerRecs :
             /\ Found("issuer", r)
             /\ index' = [index EXCEPT !["issuer"] = r]
             /\ Begin(h, "saveAcked", r, [rec[r] EXCEPT !.state = "credential_acked"])
       \/ /\ \A r \in IssuerRecs : ~Found("issuer", r)
          /\ UNCHANGED <<index, job>>
    /\ UNCHANGED <<rec, used, faults, offered, requests, reqCache, lapsed, made, wallet>>

SaveAcked(h) ==
    /\ At(h, "saveAcked")
    /\ CanUpdate(h)
    /\ Update(h, job[h].copy)
    /\ IF IssuerRemoves THEN Goto(h, "removeAcked", job[h].id, job[h].copy) ELSE End(h)
    /\ UNCHANGED <<index, net, dups, faults, offered, requests, reqCache, lapsed, made, wallet>>

RemoveAcked(h) ==
    /\ At(h, "removeAcked")
    /\ CanUpdate(h)
    /\ rec' = [rec EXCEPT ![job[h].id] = None]
    /\ End(h)
    /\ UNCHANGED <<used, index, net, dups, faults, offered, requests, reqCache, lapsed, made, wallet>>

-----------------------------------------------------------------------------
\* The holder.

\* POST /issue-credential/send-proposal
SendProposal(h) ==
    /\ ~offered
    /\ offered' = TRUE
    /\ job[h] = None
    /\ \E r \in HolderRecs : Add(r, NewRecord("proposal_sent", FALSE))
    /\ Send(Msg("proposal", None))
    /\ UNCHANGED <<index, job, dups, requests, reqCache, lapsed, faults, made, wallet>>

\* Mutant: only offers of a known thread are taken.
ReceiveOfferKnown(h) ==
    /\ Receive(Msg("offer", None))
    /\ job[h] = None
    /\ \/ \E r \in HolderRecs :
             /\ Found("holder", r)
             /\ index' = [index EXCEPT !["holder"] = r]
             /\ Begin(h, "saveOffer", r, [rec[r] EXCEPT !.state = "offer_received"])
       \/ /\ \A r \in HolderRecs : ~Found("holder", r)
          /\ UNCHANGED <<index, job>>
    /\ UNCHANGED <<rec, used, faults, offered, requests, reqCache, lapsed, made, wallet>>

\* CredentialOfferHandler retrieves the thread's record or starts a new one.
ReceiveOffer(h) ==
    /\ Receive(Msg("offer", None))
    /\ job[h] = None
    /\ \/ \E r \in HolderRecs :
             /\ Found("holder", r)
             /\ index' = [index EXCEPT !["holder"] = r]
             /\ Begin(h, "saveOffer", r, [rec[r] EXCEPT !.state = "offer_received"])
       \/ /\ NotFound("holder")
          /\ Begin(h, "saveOffer", None, NewRecord("offer_received", FALSE))
          /\ UNCHANGED index
       \/ /\ \A r \in HolderRecs : ~Found("holder", r)
          /\ ~NotFound("holder")
          /\ UNCHANGED <<index, job>>
    /\ UNCHANGED <<rec, used, faults, offered, requests, reqCache, lapsed, made, wallet>>

SaveOfferReceived(h) ==
    /\ At(h, "saveOffer")
    /\ \E r \in HolderRecs :
          /\ \/ job[h].id = None /\ Add(r, job[h].copy)
             \/ r = job[h].id /\ CanUpdate(h) /\ Update(h, job[h].copy)
          /\ IF AutoRequest THEN Goto(h, "request", r, job[h].copy) ELSE End(h)
    /\ UNCHANGED <<index, net, dups, faults, offered, requests, reqCache, lapsed, made, wallet>>

\* POST /records/{id}/send-request
SendRequest(h) ==
    /\ \E r \in Stored("holder") :
          rec[r].state = "offer_received" /\ Begin(h, "request", r, rec[r])
    /\ UNCHANGED <<rec, used, index, net, dups, faults, offered, requests, reqCache, lapsed, made, wallet>>

\* Mutant: every call makes a request of its own.
RequestForAnew(copy) == Requests \ requests

\* create_request: the request of the copy, or the one cached for the offer's
\* nonce, or a new one (under the cache's key lock, see CacheKeyLock).
RequestFor(copy) ==
    IF copy.request # None THEN {copy.request}
    ELSE IF reqCache # None THEN {reqCache} ELSE Requests \ requests

CreateRequest(h) ==
    /\ At(h, "request")
    /\ \E q \in RequestFor(job[h].copy) :
          /\ requests' = requests \cup {q}
          /\ reqCache' = IF job[h].copy.request = None THEN q ELSE reqCache
          /\ IF CanUpdate(h)
             THEN /\ Update(h, [job[h].copy EXCEPT !.request = q, !.state = "request_sent"])
                  /\ Send(Msg("request", q))
             ELSE UNCHANGED <<rec, used, net>>
    /\ End(h)
    /\ UNCHANGED <<index, dups, offered, faults, lapsed, made, wallet>>

\* CredentialIssueHandler
ReceiveCredential(h, c) ==
    /\ Receive(Msg("issue", c))
    /\ job[h] = None
    /\ \/ \E r \in HolderRecs :
             /\ Found("holder", r)
             /\ index' = [index EXCEPT !["holder"] = r]
             /\ Begin(h, "saveCredential", r,
                      [rec[r] EXCEPT !.raw = c, !.state = "credential_received"])
       \/ /\ \A r \in HolderRecs : ~Found("holder", r)
          /\ UNCHANGED <<index, job>>
    /\ UNCHANGED <<rec, used, faults, offered, requests, reqCache, lapsed, made, wallet>>

\* Mutant: the holder acknowledges what it received before storing it.
SaveCredentialAcks(h) ==
    /\ At(h, "saveCredential")
    /\ CanUpdate(h)
    /\ Update(h, job[h].copy)
    /\ Goto(h, "saveStored", job[h].id,
            [job[h].copy EXCEPT !.cred = job[h].copy.raw, !.state = "credential_acked"])
    /\ UNCHANGED <<index, net, dups, faults, offered, requests, reqCache, lapsed, made, wallet>>

SaveCredential(h) ==
    /\ At(h, "saveCredential")
    /\ CanUpdate(h)
    /\ Update(h, job[h].copy)
    /\ IF AutoStore THEN Goto(h, "store", job[h].id, job[h].copy) ELSE End(h)
    /\ UNCHANGED <<index, net, dups, faults, offered, requests, reqCache, lapsed, made, wallet>>

\* POST /records/{id}/store
SendStore(h) ==
    /\ \E r \in Stored("holder") :
          rec[r].state = "credential_received" /\ Begin(h, "store", r, rec[r])
    /\ UNCHANGED <<rec, used, index, net, dups, faults, offered, requests, reqCache, lapsed, made, wallet>>

\* The wallet takes a credential only with the metadata of the request it was
\* made for; otherwise IndyHolderError leaves the handler.
Storable(copy) == made[copy.raw] # None /\ made[copy.raw].request = copy.request

StoreCredential(h) ==
    /\ At(h, "store")
    /\ LET copy == job[h].copy IN
          IF Storable(copy)
          THEN /\ wallet' = [wallet EXCEPT ![copy.raw] = @ + 1]
               /\ Goto(h, "saveStored", job[h].id,
                       [copy EXCEPT !.cred = copy.raw, !.state = "credential_acked"])
          ELSE End(h) /\ UNCHANGED wallet
    /\ UNCHANGED <<rec, used, index, net, dups, faults, offered, requests, reqCache, lapsed, made>>

SaveStored(h) ==
    /\ At(h, "saveStored")
    /\ CanUpdate(h)
    /\ Update(h, job[h].copy)
    /\ Goto(h, "finish", job[h].id, job[h].copy)
    /\ UNCHANGED <<index, net, dups, faults, offered, requests, reqCache, lapsed, made, wallet>>

\* The rest of store_credential and the ack; a record that is gone by now
\* fails the delete, and the ack is not sent.
FinishStore(h) ==
    /\ At(h, "finish")
    /\ IF HolderRemoves
       THEN CanUpdate(h) /\ rec' = [rec EXCEPT ![job[h].id] = None]
       ELSE UNCHANGED rec
    /\ Send(Msg("ack", None))
    /\ End(h)
    /\ UNCHANGED <<used, index, dups, faults, offered, requests, reqCache, lapsed, made, wallet>>

-----------------------------------------------------------------------------
\* A step that finds its record deleted (every save and delete but the two
\* that also work without one).
RecordGone(h) ==
    /\ job[h] # None
    /\ job[h].step \in {"offer", "saveRequest", "saveIssued", "saveAcked", "removeAcked",
                        "saveOffer", "saveCredential", "saveStored"}
                       \cup (IF HolderRemoves THEN {"finish"} ELSE {})
    /\ UpdateRefused(h)

\* One more disturbance.
Fault == faults < MaxFault /\ faults' = faults + 1

\* An exception at any await: ledger, storage, cancellation.
HandlerFails(h) ==
    /\ Fault
    /\ job[h] # None
    /\ End(h)
    /\ UNCHANGED <<rec, used, index, net, dups, offered, requests, reqCache, lapsed, made, wallet>>

\* The agent's process ends and starts again: records and wallet stay.
Restart(a) ==
    /\ Fault
    /\ job' = [h \in Handlers |-> IF h \in HandlersOf(a) THEN None ELSE job[h]]
    /\ index' = [index EXCEPT ![a] = None]
    /\ IF a = "holder" THEN reqCache' = None /\ lapsed' = (lapsed \/ reqCache # None)
                       ELSE UNCHANGED <<reqCache, lapsed>>
    /\ UNCHANGED <<rec, used, net, dups, offered, requests, made, wallet>>

\* DELETE /records/{id}
RemoveRecord ==
    /\ Fault
    /\ \E r \in RecIds : rec[r] # None /\ rec' = [rec EXCEPT ![r] = None]
    /\ UNCHANGED <<used, index, job, net, dups, offered, requests, reqCache, lapsed, made, wallet>>

\* The cached record id lives for DEFAULT_CACHE_TTL (60 s).
ExpireIndex(a) ==
    /\ index[a] # None
    /\ index' = [index EXCEPT ![a] = None]
    /\ UNCHANGED <<rec, used, job, net, dups, faults, offered, requests, reqCache, lapsed, made, wallet>>

\* A request is cached for 3600 s.
ExpireRequest ==
    /\ Lasting /\ reqCache # None
    /\ reqCache' = None
    /\ lapsed' = TRUE
    /\ UNCHANGED <<rec, used, index, job, net, dups, faults, offered, requests, made, wallet>>

-----------------------------------------------------------------------------
IssuerContinues(h) ==
    \/ SaveOffer(h) \/ SaveRequest(h) \/ CreateCredential(h) \/ SaveIssued(h)
    \/ SaveAcked(h) \/ RemoveAcked(h)

HolderContinues(h) ==
    \/ SaveOfferReceived(h) \/ CreateRequest(h) \/ SaveCredential(h)
    \/ StoreCredential(h) \/ SaveStored(h) \/ FinishStore(h)

IssuerReceives(h) ==
    ReceiveProposal(h) \/ (\E q \in Requests : ReceiveRequest(h, q)) \/ ReceiveAck(h)
HolderReceives(h) == ReceiveOffer(h) \/ (\E c \in Creds : ReceiveCredential(h, c))

\* Calls of the agents' controllers.
IssuerCalled(h) == StartOffer(h) \/ SendBoundOffer(h) \/ SendIssue(h)
HolderCalled(h) == SendProposal(h) \/ SendRequest(h) \/ SendStore(h)

Next ==
    \/ \E h \in IssuerHandlers : IssuerCalled(h) \/ IssuerReceives(h) \/ IssuerContinues(h)
    \/ \E h \in HolderHandlers : HolderCalled(h) \/ HolderReceives(h) \/ HolderContinues(h)
    \/ \E h \in Handlers : RecordGone(h) \/ HandlerFails(h)
    \/ \E a \in Agents : Restart(a) \/ ExpireIndex(a)
    \/ RemoveRecord \/ ExpireRequest

Spec == Init /\ [][Next]_vars

\* The event loop runs every handler on, and the transport delivers what was
\* sent; nothing is asked of the controllers or of the caches.
Fairness ==
    /\ \A h \in IssuerHandlers :
          WF_vars(IssuerReceives(h)) /\ WF_vars(IssuerContinues(h) \/ RecordGone(h))
    /\ \A h \in HolderHandlers :
          WF_vars(HolderReceives(h)) /\ WF_vars(HolderContinues(h) \/ RecordGone(h))

FairSpec == Spec /\ Fairness

-----------------------------------------------------------------------------
\* Properties.

InWallet(c) == c \in Creds /\ wallet[c] > 0

\* Neither side's record says credential_acked unless the holder's wallet
\* holds a credential that was issued: the ack is sent after the wallet call,
\* across stale copies, repeated messages, failures and restarts.
AckMeansStored ==
    /\ \A r \in IssuerRecs : rec[r] # None /\ rec[r].state = "credential_acked" =>
          \E c \in Creds : InWallet(c)
    /\ \A r \in HolderRecs : rec[r] # None /\ rec[r].state = "credential_acked" =>
          InWallet(rec[r].cred)

\* A record that was removed stays removed: a handler still holding a copy of
\* it never writes it back.
RemovedStaysRemoved ==
    [][\A r \in used : rec[r] = None => rec'[r] = None]_vars

\* One credential per exchange: issue_credential abstains when it is called
\* again for an exchange that has one (a repeated request, a second call).
IssuedOnce ==
    \A c, d \in Creds : made[c] # None /\ made[d] # None /\ made[c].ex = made[d].ex => c = d

\* What the holder has received it can store, though offers, requests and
\* credentials come again and records were removed meanwhile: its record has the
\* request the credential was made for.  That is as long as the request made
\* first is cached: a second one makes every credential of the first useless.
ReceivedCanBeStored ==
    ~lapsed => \A r \in HolderRecs : rec[r] # None /\ rec[r].state = "credential_received" =>
        Storable(rec[r])

\* With every step automatic, an exchange the issuer starts ends with the
\* credential in the holder's wallet, even when a message comes twice.
OfferReachesWallet ==
    (\E h \in IssuerHandlers : At(h, "offer") /\ job[h].id = None)
        ~> (\E c \in Creds : InWallet(c))

\* The exchange keeps the promise of CredentialIssuance.
Issuance == INSTANCE CredentialIssuance WITH
    issued    <- {c \in Creds : made[c] # None},
    stored    <- {c \in Creds : InWallet(c)},
    confirmed <- \E r \in IssuerRecs : rec[r] # None /\ rec[r].state = "credential_acked"

IssuanceSpec == Issuance!Spec

=============================================================================
