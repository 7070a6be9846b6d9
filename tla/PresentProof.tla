----------------------------- MODULE PresentProof -----------------------------
(***************************************************************************)
(* The presentation of proofs, present_proof 1.0: a verifier and a prover  *)
(* that are connected, and the threads of messages between them.           *)
(*                                                                         *)
(* A handler reads a record, works on its copy and saves all of it; an     *)
(* await lies between every two steps.  A message is sent in the step that *)
(* saved the record: what comes later may as well be its delay.            *)
(*                                                                         *)
(* A request is a number, its nonce; 0 is none.  A proof is made for one   *)
(* request; it is valid or not, and shows the values proposed or others.   *)
(***************************************************************************)
EXTENDS Naturals, Sequences, FiniteSets

CONSTANTS
    Tasks,          \* what an agent can do at a time
    Settings,       \* ways to set up the agents, and how much may go wrong
    MaxThreads      \* bound: exchanges that are started

SettingOK(s) ==
    /\ {s.auto, s.serial} \subseteq BOOLEAN
    /\ s.faults \in Nat /\ s.dups \in Nat

ASSUME PresentProofAssumption ==
    /\ MaxThreads \in Nat
    /\ \A s \in Settings : SettingOK(s)

VARIABLES
    setting,        \* one of Settings; never changed
    vrecs, precs,   \* the records of the verifier and of the prover
    vhand, phand,   \* their handlers
    threads,        \* exchanges started
    nonces,         \* requests made
    msgs,           \* messages on their way
    faults, dups    \* what has gone wrong

verifier == <<vrecs, vhand>>
prover == <<precs, phand>>
vars == <<setting, verifier, prover, threads, nonces, msgs, faults, dups>>

auto   == setting.auto      \* agents answer and verify without being asked
serial == setting.serial    \* no agent does two things at a time

\* Bound: a step that says Fault is taken no more often than the setting allows.
Fault == faults < setting.faults /\ faults' = faults + 1

Proofs == [request : 1..nonces, valid : BOOLEAN, fits : BOOLEAN]
NoProof == [request |-> 0, valid |-> FALSE, fits |-> FALSE]

Message(kind, th, request, proof) ==
    [kind |-> kind, thread |-> th, request |-> request, proof |-> proof]
NoMessage == Message("none", 0, 0, NoProof)

\* V10PresentationExchange; "removed" is a record that is no longer there.
Exchange(th, state, proposal, request) ==
    [thread |-> th, state |-> state, proposal |-> proposal, request |-> request,
     proof |-> NoProof, verified |-> "none"]
NoExchange == Exchange(0, "removed", FALSE, 0)

Idle == [pc |-> "idle", rec |-> 0, copy |-> NoExchange, msg |-> NoMessage]

VerifierStates == {"proposal_received", "request_sent", "presentation_received", "verified", "removed"}
ProverStates == {"proposal_sent", "request_received", "presentation_sent", "presentation_acked", "removed"}

IsExchange(e, states) ==
    /\ e.thread \in 1..threads /\ e.state \in states /\ e.proposal \in BOOLEAN
    /\ e.request \in 0..nonces /\ e.proof \in Proofs \cup {NoProof}
    /\ e.verified \in {"none", "true", "false"}

TypeOK ==
    /\ setting \in Settings
    /\ \A r \in DOMAIN vrecs : IsExchange(vrecs[r], VerifierStates)
    /\ \A r \in DOMAIN precs : IsExchange(precs[r], ProverStates)
    /\ \A t \in Tasks : /\ vhand[t].pc \in {"idle", "bind", "store", "verify"}
                        /\ phand[t].pc \in {"idle", "store", "present"}
    /\ threads \in 0..MaxThreads /\ nonces \in Nat
    /\ \A m \in msgs : m.kind \in {"proposal", "request", "presentation", "ack"}
    /\ faults \in 0..setting.faults /\ dups \in 0..setting.dups

Init ==
    /\ setting \in Settings
    /\ vrecs = <<>> /\ precs = <<>>
    /\ vhand = [t \in Tasks |-> Idle] /\ phand = [t \in Tasks |-> Idle]
    /\ threads = 0 /\ nonces = 0 /\ msgs = {} /\ faults = 0 /\ dups = 0

Free(hand, t) == hand[t].pc = "idle" /\ (serial => \A u \in Tasks : hand[u].pc = "idle")

\* m is delivered, once or again later.  That an exchange can be begun or asked
\* for twice counts as a fault; that it is answered twice does not.
Delivered(m) ==
    /\ m \in msgs
    /\ \/ msgs' = msgs \ {m} /\ UNCHANGED <<faults, dups>>
       \/ /\ UNCHANGED msgs
          /\ \/ m.kind \in {"proposal", "request"} /\ Fault /\ UNCHANGED dups
             \/ /\ m.kind \in {"presentation", "ack"} /\ dups < setting.dups
                /\ dups' = dups + 1 /\ UNCHANGED faults

\* retrieve_by_tag_filter: the records of a thread.  More than one is an error.
OfThread(recs, th) ==
    {r \in DOMAIN recs : recs[r].thread = th /\ recs[r].state # "removed"}

Handler(pc, r, copy, m) == [pc |-> pc, rec |-> r, copy |-> copy, msg |-> m]

-----------------------------------------------------------------------------
\* The verifier

\* A request free of any proposal: the record, then the message.
SendFreeRequest ==
    /\ threads < MaxThreads
    /\ threads' = threads + 1 /\ nonces' = nonces + 1
    /\ vrecs' = Append(vrecs, Exchange(threads', "request_sent", FALSE, nonces'))
    /\ msgs' = msgs \cup {Message("request", threads', nonces', NoProof)}
    /\ UNCHANGED <<setting, vhand, prover, faults, dups>>

\* receive_proposal: a new record for every proposal.
ReceiveProposal(t, m) ==
    /\ m.kind = "proposal" /\ Free(vhand, t) /\ Delivered(m)
    /\ LET new == Exchange(m.thread, "proposal_received", TRUE, 0)
       IN  /\ vrecs' = Append(vrecs, new)
           /\ vhand' = IF auto
                       THEN [vhand EXCEPT ![t] = Handler("bind", Len(vrecs) + 1, new, m)]
                       ELSE vhand
    /\ UNCHANGED <<setting, prover, threads, nonces>>

\* Mutant: a request is sent whatever the record's state.
SendBoundRequestAgain(t, r) ==
    /\ ~auto /\ Free(vhand, t) /\ vrecs[r].state \in {"proposal_received", "request_sent"}
    /\ nonces < 2 * MaxThreads
    /\ vhand' = [vhand EXCEPT ![t] = Handler("bind", r, vrecs[r], NoMessage)]
    /\ UNCHANGED <<setting, vrecs, prover, threads, nonces, msgs, faults, dups>>

\* The admin has a proposal answered, if the agent leaves that to it.
SendBoundRequest(t, r) ==
    /\ ~auto /\ Free(vhand, t) /\ vrecs[r].state = "proposal_received"
    /\ vhand' = [vhand EXCEPT ![t] = Handler("bind", r, vrecs[r], NoMessage)]
    /\ UNCHANGED <<setting, vrecs, prover, threads, nonces, msgs, faults, dups>>

\* A record that has been removed cannot be saved: the handler ends.
Gone(recs, h) == h.rec # 0 /\ recs[h.rec].state = "removed"

\* create_bound_request: a request with a nonce of its own is saved and sent.
CreateBoundRequest(t) ==
    /\ vhand[t].pc = "bind"
    /\ LET h == vhand[t]
       IN  \/ Gone(vrecs, h) /\ UNCHANGED <<vrecs, nonces, msgs>>
           \/ /\ ~Gone(vrecs, h)
              /\ nonces' = nonces + 1
              /\ vrecs' = [vrecs EXCEPT ![h.rec] =
                    [h.copy EXCEPT !.state = "request_sent", !.request = nonces']]
              /\ msgs' = msgs \cup {Message("request", h.copy.thread, nonces', NoProof)}
    /\ vhand' = [vhand EXCEPT ![t] = Idle]
    /\ UNCHANGED <<setting, prover, threads, faults, dups>>

\* The check for bait and switch: a proof shows the values that were proposed.  It
\* needs the request they were asked for in.
Acceptable(e, proof) == e.proposal => e.request # 0 /\ proof.fits

\* receive_presentation reads the record, whatever its state.
ReceivePresentation(t, m) ==
    /\ m.kind = "presentation" /\ Free(vhand, t) /\ Delivered(m)
    /\ LET found == OfThread(vrecs, m.thread)
           usable == {r \in found : found = {r} /\ Acceptable(vrecs[r], m.proof)}
       IN  \/ usable = {} /\ UNCHANGED vhand
           \/ \E r \in usable :
                 vhand' = [vhand EXCEPT ![t] = Handler("store", r, vrecs[r], m)]
    /\ UNCHANGED <<setting, vrecs, prover, threads, nonces>>

StorePresentation(t) ==
    /\ vhand[t].pc = "store"
    /\ LET h == vhand[t]
           copy == [h.copy EXCEPT !.state = "presentation_received", !.proof = h.msg.proof]
       IN  IF Gone(vrecs, h)
           THEN vhand' = [vhand EXCEPT ![t] = Idle] /\ UNCHANGED vrecs
           ELSE /\ vrecs' = [vrecs EXCEPT ![h.rec] = copy]
                /\ vhand' = [vhand EXCEPT ![t] =
                      IF auto THEN Handler("verify", h.rec, copy, h.msg) ELSE Idle]
    /\ UNCHANGED <<setting, prover, threads, nonces, msgs, faults, dups>>

\* The admin has a presentation verified that is still not.
VerifyPresentation(t, r) ==
    /\ Free(vhand, t) /\ vrecs[r].state = "presentation_received"
    /\ vhand' = [vhand EXCEPT ![t] = Handler("verify", r, vrecs[r], NoMessage)]
    /\ UNCHANGED <<setting, vrecs, prover, threads, nonces, msgs, faults, dups>>

Verdict(request, proof) == IF proof.valid /\ proof.request = request THEN "true" ELSE "false"

\* Mutant: the result is saved in the record as it has become meanwhile.
VerifyFresh(t) ==
    /\ vhand[t].pc = "verify"
    /\ LET h == vhand[t]
       IN  IF Gone(vrecs, h) THEN UNCHANGED <<vrecs, msgs>>
           ELSE /\ vrecs' = [vrecs EXCEPT ![h.rec] =
                      [@ EXCEPT !.state = "verified",
                                !.verified = Verdict(h.copy.request, h.copy.proof)]]
                /\ msgs' = msgs \cup {Message("ack", h.copy.thread, 0, NoProof)}
    /\ vhand' = [vhand EXCEPT ![t] = Idle]
    /\ UNCHANGED <<setting, prover, threads, nonces, faults, dups>>

\* Mutant: only a valid proof is acknowledged.
VerifyAcksValid(t) ==
    /\ vhand[t].pc = "verify"
    /\ LET h == vhand[t]
           verdict == Verdict(h.copy.request, h.copy.proof)
       IN  IF Gone(vrecs, h) THEN UNCHANGED <<vrecs, msgs>>
           ELSE /\ vrecs' = [vrecs EXCEPT ![h.rec] =
                      [h.copy EXCEPT !.state = "verified", !.verified = verdict]]
                /\ msgs' = msgs \cup {m \in {Message("ack", h.copy.thread, 0, NoProof)} : verdict = "true"}
    /\ vhand' = [vhand EXCEPT ![t] = Idle]
    /\ UNCHANGED <<setting, prover, threads, nonces, faults, dups>>

\* verify_presentation: the copy is verified and saved; an ack is sent, whatever
\* the result.
Verify(t) ==
    /\ vhand[t].pc = "verify"
    /\ LET h == vhand[t]
       IN  IF Gone(vrecs, h) THEN UNCHANGED <<vrecs, msgs>>
           ELSE /\ vrecs' = [vrecs EXCEPT ![h.rec] =
                      [h.copy EXCEPT !.state = "verified",
                                     !.verified = Verdict(h.copy.request, h.copy.proof)]]
                /\ msgs' = msgs \cup {Message("ack", h.copy.thread, 0, NoProof)}
    /\ vhand' = [vhand EXCEPT ![t] = Idle]
    /\ UNCHANGED <<setting, prover, threads, nonces, faults, dups>>

-----------------------------------------------------------------------------
\* The prover

\* A proposal: the record, then the message.
SendProposal ==
    /\ threads < MaxThreads
    /\ threads' = threads + 1
    /\ precs' = Append(precs, Exchange(threads', "proposal_sent", TRUE, 0))
    /\ msgs' = msgs \cup {Message("proposal", threads', 0, NoProof)}
    /\ UNCHANGED <<setting, verifier, phand, nonces, faults, dups>>

\* The handler of a request takes the record of its thread, whatever its state, or
\* makes one, which is not stored yet.
ReceiveRequest(t, m) ==
    /\ m.kind = "request" /\ Free(phand, t) /\ Delivered(m)
    /\ LET found == OfThread(precs, m.thread)
           new == Exchange(m.thread, "request_received", FALSE, 0)
       IN  \/ Cardinality(found) > 1 /\ UNCHANGED phand
           \/ found = {} /\ phand' = [phand EXCEPT ![t] = Handler("store", 0, new, m)]
           \/ \E r \in found :
                 /\ found = {r}
                 /\ phand' = [phand EXCEPT ![t] = Handler("store", r, precs[r], m)]
    /\ UNCHANGED <<setting, verifier, precs, threads, nonces>>

\* receive_request; then the proof is made at once if the record says so.
StoreRequest(t) ==
    /\ phand[t].pc = "store"
    /\ LET h == phand[t]
           copy == [h.copy EXCEPT !.state = "request_received", !.request = h.msg.request]
           r == IF h.rec = 0 THEN Len(precs) + 1 ELSE h.rec
       IN  IF Gone(precs, h)
           THEN phand' = [phand EXCEPT ![t] = Idle] /\ UNCHANGED precs
           ELSE /\ precs' = IF h.rec = 0 THEN Append(precs, copy)
                                         ELSE [precs EXCEPT ![r] = copy]
                /\ phand' = [phand EXCEPT ![t] =
                      IF auto THEN Handler("present", r, copy, h.msg) ELSE Idle]
    /\ UNCHANGED <<setting, verifier, threads, nonces, msgs, faults, dups>>

\* The admin has a request answered.
SendPresentation(t, r) ==
    /\ Free(phand, t) /\ precs[r].state = "request_received"
    /\ phand' = [phand EXCEPT ![t] = Handler("present", r, precs[r], NoMessage)]
    /\ UNCHANGED <<setting, verifier, precs, threads, nonces, msgs, faults, dups>>

\* create_presentation: a proof for the request in the copy, with the values it
\* proposed; or, which counts as a fault, with others.
CreatePresentation(t) ==
    /\ phand[t].pc = "present"
    /\ LET h == phand[t]
       IN  \/ Gone(precs, h) /\ UNCHANGED <<precs, msgs, faults>>
           \/ /\ ~Gone(precs, h)
              /\ \E valid \in BOOLEAN, fits \in BOOLEAN :
                    LET proof == [request |-> h.copy.request, valid |-> valid, fits |-> fits]
                    IN  /\ precs' = [precs EXCEPT ![h.rec] =
                              [h.copy EXCEPT !.state = "presentation_sent", !.proof = proof]]
                        /\ msgs' = msgs \cup {Message("presentation", h.copy.thread, 0, proof)}
                        /\ IF fits THEN UNCHANGED faults ELSE Fault
    /\ phand' = [phand EXCEPT ![t] = Idle]
    /\ UNCHANGED <<setting, verifier, threads, nonces, dups>>

\* receive_presentation_ack reads and saves the record of the thread.
ReceiveAck(m) ==
    /\ m.kind = "ack" /\ Delivered(m)
    /\ LET found == OfThread(precs, m.thread)
       IN  precs' = [r \in DOMAIN precs |->
              IF found = {r} THEN [precs[r] EXCEPT !.state = "presentation_acked"] ELSE precs[r]]
    /\ UNCHANGED <<setting, verifier, phand, threads, nonces>>

-----------------------------------------------------------------------------
\* What goes wrong

Lose(m) ==
    /\ m \in msgs /\ Fault
    /\ msgs' = msgs \ {m}
    /\ UNCHANGED <<setting, verifier, prover, threads, nonces, dups>>

\* The ledger, the wallet or the holder fails a handler, which ends; the admin's
\* calls then send a problem report, which changes nothing at the other agent.
VerifierFails(t) ==
    /\ vhand[t].pc \in {"bind", "verify"} /\ Fault
    /\ vhand' = [vhand EXCEPT ![t] = Idle]
    /\ UNCHANGED <<setting, vrecs, prover, threads, nonces, msgs, dups>>

ProverFails(t) ==
    /\ phand[t].pc = "present" /\ Fault
    /\ phand' = [phand EXCEPT ![t] = Idle]
    /\ UNCHANGED <<setting, verifier, precs, threads, nonces, msgs, dups>>

\* An admin removes a record.
RemoveFrom(recs, r) == [recs EXCEPT ![r] = [@ EXCEPT !.state = "removed"]]

RemoveVerifiers(r) ==
    /\ vrecs[r].state # "removed" /\ Fault
    /\ vrecs' = RemoveFrom(vrecs, r)
    /\ UNCHANGED <<setting, vhand, prover, threads, nonces, msgs, dups>>

RemoveProvers(r) ==
    /\ precs[r].state # "removed" /\ Fault
    /\ precs' = RemoveFrom(precs, r)
    /\ UNCHANGED <<setting, verifier, phand, threads, nonces, msgs, dups>>

\* An agent is started again: its records remain.
RestartVerifier ==
    /\ Fault
    /\ vhand' = [t \in Tasks |-> Idle]
    /\ UNCHANGED <<setting, vrecs, prover, threads, nonces, msgs, dups>>

RestartProver ==
    /\ Fault
    /\ phand' = [t \in Tasks |-> Idle]
    /\ UNCHANGED <<setting, verifier, precs, threads, nonces, msgs, dups>>

-----------------------------------------------------------------------------
VerifierRuns(t) == CreateBoundRequest(t) \/ StorePresentation(t) \/ Verify(t)
ProverRuns(t) == StoreRequest(t) \/ CreatePresentation(t)

Next ==
    \/ SendFreeRequest \/ SendProposal
    \/ \E t \in Tasks, m \in msgs :
          ReceiveProposal(t, m) \/ ReceivePresentation(t, m) \/ ReceiveRequest(t, m)
    \/ \E m \in msgs : ReceiveAck(m) \/ Lose(m)
    \/ \E t \in Tasks :
          \/ CreateBoundRequest(t) \/ StorePresentation(t) \/ Verify(t)
          \/ StoreRequest(t) \/ CreatePresentation(t)
          \/ VerifierFails(t) \/ ProverFails(t)
          \/ \E r \in DOMAIN vrecs : SendBoundRequest(t, r) \/ VerifyPresentation(t, r)
          \/ \E r \in DOMAIN precs : SendPresentation(t, r)
    \/ \E r \in DOMAIN vrecs : RemoveVerifiers(r)
    \/ \E r \in DOMAIN precs : RemoveProvers(r)
    \/ RestartVerifier \/ RestartProver

Spec == Init /\ [][Next]_vars

\* Messages that are not lost arrive, handlers end, and admins answer and verify
\* what waits for them.
Fairness ==
    /\ WF_vars(\E t \in Tasks, m \in msgs : ReceiveProposal(t, m))
    /\ WF_vars(\E t \in Tasks, m \in msgs : ReceivePresentation(t, m))
    /\ WF_vars(\E t \in Tasks, m \in msgs : ReceiveRequest(t, m))
    /\ WF_vars(\E m \in msgs : ReceiveAck(m))
    /\ \A t \in Tasks : WF_vars(VerifierRuns(t)) /\ WF_vars(ProverRuns(t))
    /\ WF_vars(\E t \in Tasks, r \in DOMAIN vrecs : SendBoundRequest(t, r))
    /\ WF_vars(\E t \in Tasks, r \in DOMAIN vrecs : VerifyPresentation(t, r))
    /\ WF_vars(\E t \in Tasks, r \in DOMAIN precs : SendPresentation(t, r))

FairSpec == Spec /\ Fairness

-----------------------------------------------------------------------------
\* Properties.

\* What a verified record says is the result for the request and the proof in it,
\* and the proof shows the values proposed, whatever handlers of the record overlap.
VerifiedIsOfStored ==
    \A r \in DOMAIN vrecs :
        vrecs[r].state = "verified" =>
            /\ vrecs[r].verified = Verdict(vrecs[r].request, vrecs[r].proof)
            /\ vrecs[r].proposal => vrecs[r].proof.fits

\* A valid proof is never found invalid, if the verifier does one thing at a time
\* or asks without its admin, and has one record of the thread: then that record
\* keeps the request the proof answers, whatever fails, is lost or comes again.
ValidIsAccepted ==
    auto \/ serial =>
        \A r \in DOMAIN vrecs :
            /\ vrecs[r].state = "verified" /\ vrecs[r].proof.valid
            /\ \A q \in DOMAIN vrecs : vrecs[q].thread = vrecs[r].thread => q = r
            => vrecs[r].verified = "true"

\* Every exchange ends, with the verifier's record verified and the prover's
\* acknowledged, even if presentations and acks come twice and overlap.
Done(th) ==
    /\ \E r \in DOMAIN vrecs : vrecs[r].thread = th /\ vrecs[r].state = "verified"
    /\ \E r \in DOMAIN precs : precs[r].thread = th /\ precs[r].state = "presentation_acked"

Completes ==
    \A th \in 1..MaxThreads :
        (auto \/ serial) /\ threads >= th ~> Done(th) \/ faults > 0
=============================================================================
