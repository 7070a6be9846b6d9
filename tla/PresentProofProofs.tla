--------------------------- MODULE PresentProofProofs ---------------------------
(***************************************************************************)
(* Proofs about PresentProof: with any number of exchanges, of handlers at *)
(* once and of faults.                                                     *)
(***************************************************************************)
EXTENDS PresentProof, SequenceTheorems, TLAPS

USE PresentProofAssumption

-----------------------------------------------------------------------------
\* Types, for so many threads and requests as there are.

States == VerifierStates \cup ProverStates

ProofsOf(n) == [request : 1..n, valid : BOOLEAN, fits : BOOLEAN]

ExchangesOf(th, n) ==
    [thread : 1..th, state : States, proposal : BOOLEAN,
     request : 0..n, proof : ProofsOf(n) \cup {NoProof}, verified : {"none", "true", "false"}]

MessagesOf(th, n) ==
    [kind : {"proposal", "ack"}, thread : 1..th, request : {0}, proof : {NoProof}]
    \cup [kind : {"request"}, thread : 1..th, request : 1..n, proof : {NoProof}]
    \cup [kind : {"presentation"}, thread : 1..th, request : {0}, proof : ProofsOf(n)]

HandlersOf(th, n) ==
    [pc : {"bind", "store", "verify", "present"}, rec : Nat, copy : ExchangesOf(th, n),
     msg : MessagesOf(th, n) \cup {NoMessage}]

\* What a handler that is not idle has: a record, and a copy and a message of the
\* record's thread.
OnRecord(h, recs) ==
    /\ h.rec \in DOMAIN recs
    /\ h.copy.thread = recs[h.rec].thread

VerifierHand(h, recs, th, n) ==
    /\ h.pc \in {"idle", "bind", "store", "verify"}
    /\ h.pc # "idle" => h \in HandlersOf(th, n) /\ OnRecord(h, recs)
    /\ h.pc = "store" => h.msg.kind = "presentation" /\ h.msg.thread = h.copy.thread

ProverHand(h, recs, th, n) ==
    /\ h.pc \in {"idle", "store", "present"}
    /\ h.pc # "idle" => h \in HandlersOf(th, n)
    /\ h.pc # "idle" /\ h.rec # 0 => OnRecord(h, recs)
    /\ h.pc = "store" => h.msg.kind = "request" /\ h.msg.thread = h.copy.thread
    /\ h.pc = "present" => h.rec # 0 /\ h.copy.request # 0

Types ==
    /\ setting \in Settings
    /\ threads \in 0..MaxThreads /\ nonces \in Nat
    /\ faults \in 0..setting.faults /\ dups \in 0..setting.dups
    /\ msgs \subseteq MessagesOf(threads, nonces)
    /\ vrecs \in Seq(ExchangesOf(threads, nonces))
    /\ precs \in Seq(ExchangesOf(threads, nonces))
    /\ \A r \in DOMAIN vrecs : vrecs[r].state \in VerifierStates
    /\ \A r \in DOMAIN precs :
          /\ precs[r].state \in ProverStates
          /\ precs[r].state = "request_received" => precs[r].request # 0
    /\ DOMAIN vhand = Tasks /\ DOMAIN phand = Tasks
    /\ \A t \in Tasks : /\ VerifierHand(vhand[t], vrecs, threads, nonces)
                        /\ ProverHand(phand[t], precs, threads, nonces)

LEMMA Growing ==
  ASSUME NEW th \in Nat, NEW n \in Nat, NEW th2 \in Nat, NEW n2 \in Nat, th <= th2, n <= n2
  PROVE  /\ ProofsOf(n) \subseteq ProofsOf(n2)
         /\ ExchangesOf(th, n) \subseteq ExchangesOf(th2, n2)
         /\ MessagesOf(th, n) \subseteq MessagesOf(th2, n2)
         /\ HandlersOf(th, n) \subseteq HandlersOf(th2, n2)
         /\ Seq(ExchangesOf(th, n)) \subseteq Seq(ExchangesOf(th2, n2))
<1>1. 1..th \subseteq 1..th2 /\ 1..n \subseteq 1..n2 /\ 0..n \subseteq 0..n2
  OBVIOUS
<1>2. ProofsOf(n) \subseteq ProofsOf(n2)
  BY <1>1 DEF ProofsOf
<1>3. ExchangesOf(th, n) \subseteq ExchangesOf(th2, n2)
  BY <1>1, <1>2 DEF ExchangesOf
<1>4. MessagesOf(th, n) \subseteq MessagesOf(th2, n2)
  BY <1>1, <1>2 DEF MessagesOf
<1>5. HandlersOf(th, n) \subseteq HandlersOf(th2, n2)
  BY <1>3, <1>4 DEF HandlersOf
<1> QED BY <1>2, <1>3, <1>4, <1>5

\* A record is written or a new one added.
LEMMA Writing ==
  ASSUME NEW S, NEW recs \in Seq(S), NEW r \in DOMAIN recs, NEW e \in S
  PROVE  /\ [recs EXCEPT ![r] = e] \in Seq(S)
         /\ DOMAIN [recs EXCEPT ![r] = e] = DOMAIN recs
         /\ \A q \in DOMAIN recs : [recs EXCEPT ![r] = e][q] = IF q = r THEN e ELSE recs[q]
  BY ExceptSeq, LenProperties

LEMMA Adding ==
  ASSUME NEW S, NEW recs \in Seq(S), NEW e \in S
  PROVE  /\ Append(recs, e) \in Seq(S)
         /\ DOMAIN Append(recs, e) = DOMAIN recs \cup {Len(recs) + 1}
         /\ Len(recs) + 1 \in Nat /\ Len(recs) + 1 \notin DOMAIN recs /\ Len(recs) + 1 # 0
         /\ \A q \in DOMAIN recs : Append(recs, e)[q] = recs[q]
         /\ Append(recs, e)[Len(recs) + 1] = e
  BY AppendProperties, LenProperties

LEMMA IdleHands ==
  ASSUME NEW recs, NEW th, NEW n
  PROVE  VerifierHand(Idle, recs, th, n) /\ ProverHand(Idle, recs, th, n)
  BY DEF VerifierHand, ProverHand, Idle

\* Handlers that a step leaves alone stay as good as they were.
LEMMA HandsKept ==
  ASSUME Types, threads' \in Nat, nonces' \in Nat, threads <= threads', nonces <= nonces',
         \A r \in DOMAIN vrecs : r \in DOMAIN vrecs' /\ vrecs'[r].thread = vrecs[r].thread,
         \A r \in DOMAIN precs : r \in DOMAIN precs' /\ precs'[r].thread = precs[r].thread,
         \A u \in Tasks : vhand'[u] = vhand[u] \/ VerifierHand(vhand'[u], vrecs', threads', nonces'),
         \A u \in Tasks : phand'[u] = phand[u] \/ ProverHand(phand'[u], precs', threads', nonces')
  PROVE  \A u \in Tasks : VerifierHand(vhand'[u], vrecs', threads', nonces') /\ ProverHand(phand'[u], precs', threads', nonces')
<1> SUFFICES ASSUME NEW u \in Tasks PROVE VerifierHand(vhand'[u], vrecs', threads', nonces') /\ ProverHand(phand'[u], precs', threads', nonces')
  OBVIOUS
<1>1. HandlersOf(threads, nonces) \subseteq HandlersOf(threads', nonces')
  <2>1. threads \in Nat /\ nonces \in Nat
    BY DEF Types
  <2> QED BY <2>1, Growing
<1>2. ASSUME vhand'[u] = vhand[u] PROVE VerifierHand(vhand'[u], vrecs', threads', nonces')
  BY <1>1, <1>2 DEF Types, VerifierHand, OnRecord
<1>3. ASSUME phand'[u] = phand[u] PROVE ProverHand(phand'[u], precs', threads', nonces')
  BY <1>1, <1>3 DEF Types, ProverHand, OnRecord
<1> QED BY <1>2, <1>3

LEMMA InitTypes == Init => Types
<1> SUFFICES ASSUME Init PROVE Types
  OBVIOUS
<1>1. setting.faults \in Nat /\ setting.dups \in Nat
  BY DEF Init, SettingOK
<1> QED BY <1>1, IdleHands DEF Init, Types

LEMMA DeliveredFacts ==
  ASSUME Types, NEW m, Delivered(m)
  PROVE  /\ m \in msgs /\ m \in MessagesOf(threads, nonces)
         /\ msgs' \subseteq msgs
         /\ setting' = setting => faults' \in 0..setting'.faults /\ dups' \in 0..setting'.dups
  BY DEF Delivered, Fault, Types, SettingOK

LEMMA FaultFacts ==
  ASSUME Types, Fault
  PROVE  setting' = setting => faults' \in 0..setting'.faults
  BY DEF Fault, Types, SettingOK

\* What a step does to the verifier's records, and to the prover's.
VrecsKept ==
    /\ vrecs' \in Seq(ExchangesOf(threads', nonces'))
    /\ \A r \in DOMAIN vrecs : r \in DOMAIN vrecs' /\ vrecs'[r].thread = vrecs[r].thread
    /\ \A r \in DOMAIN vrecs' : vrecs'[r].state \in VerifierStates

PrecsKept ==
    /\ precs' \in Seq(ExchangesOf(threads', nonces'))
    /\ \A r \in DOMAIN precs : r \in DOMAIN precs' /\ precs'[r].thread = precs[r].thread
    /\ \A r \in DOMAIN precs' :
          /\ precs'[r].state \in ProverStates
          /\ precs'[r].state = "request_received" => precs'[r].request # 0

LEMMA RecordsUnchanged ==
  ASSUME Types, threads' \in Nat, nonces' \in Nat, threads <= threads', nonces <= nonces'
  PROVE  /\ vrecs' = vrecs => VrecsKept
         /\ precs' = precs => PrecsKept
<1>1. threads \in Nat /\ nonces \in Nat
  BY DEF Types
<1>2. Seq(ExchangesOf(threads, nonces)) \subseteq Seq(ExchangesOf(threads', nonces'))
  BY <1>1, Growing
<1> QED BY <1>2 DEF Types, VrecsKept, PrecsKept

\* A record written: in its thread, by either agent.
LEMMA RecordWritten ==
  ASSUME Types, threads' \in Nat, nonces' \in Nat, threads <= threads', nonces <= nonces',
         NEW r, NEW e \in ExchangesOf(threads', nonces')
  PROVE  /\ /\ r \in DOMAIN vrecs /\ vrecs' = [vrecs EXCEPT ![r] = e]
            /\ e.thread = vrecs[r].thread /\ e.state \in VerifierStates
            => VrecsKept /\ DOMAIN vrecs' = DOMAIN vrecs
               /\ \A q \in DOMAIN vrecs : vrecs'[q] = IF q = r THEN e ELSE vrecs[q]
         /\ /\ r \in DOMAIN precs /\ precs' = [precs EXCEPT ![r] = e]
            /\ e.thread = precs[r].thread /\ e.state \in ProverStates
            /\ e.state = "request_received" => e.request # 0
            => PrecsKept /\ DOMAIN precs' = DOMAIN precs
               /\ \A q \in DOMAIN precs : precs'[q] = IF q = r THEN e ELSE precs[q]
<1> DEFINE S == ExchangesOf(threads', nonces')
<1>1. vrecs \in Seq(S) /\ precs \in Seq(S)
  <2>1. threads \in Nat /\ nonces \in Nat
    BY DEF Types
  <2> QED BY <2>1, Growing DEF Types
<1> HIDE DEF S
<1>2. ASSUME r \in DOMAIN vrecs, vrecs' = [vrecs EXCEPT ![r] = e]
      PROVE  /\ vrecs' \in Seq(S) /\ DOMAIN vrecs' = DOMAIN vrecs
             /\ \A q \in DOMAIN vrecs : vrecs'[q] = IF q = r THEN e ELSE vrecs[q]
  <2>1. e \in S
    BY DEF S
  <2> QED BY <1>1, <1>2, <2>1, Writing
<1>3. ASSUME r \in DOMAIN precs, precs' = [precs EXCEPT ![r] = e]
      PROVE  /\ precs' \in Seq(S) /\ DOMAIN precs' = DOMAIN precs
             /\ \A q \in DOMAIN precs : precs'[q] = IF q = r THEN e ELSE precs[q]
  <2>1. e \in S
    BY DEF S
  <2> QED BY <1>1, <1>3, <2>1, Writing
<1> QED BY <1>2, <1>3 DEF S, Types, VrecsKept, PrecsKept

\* A record added.
LEMMA RecordAdded ==
  ASSUME Types, threads' \in Nat, nonces' \in Nat, threads <= threads', nonces <= nonces',
         NEW e \in ExchangesOf(threads', nonces')
  PROVE  /\ Len(vrecs) + 1 \in Nat /\ Len(vrecs) + 1 \notin DOMAIN vrecs
         /\ Len(precs) + 1 \in Nat /\ Len(precs) + 1 \notin DOMAIN precs /\ Len(precs) + 1 # 0
         /\ /\ vrecs' = Append(vrecs, e) /\ e.state \in VerifierStates
            => VrecsKept /\ DOMAIN vrecs' = DOMAIN vrecs \cup {Len(vrecs) + 1}
               /\ vrecs'[Len(vrecs) + 1] = e /\ \A q \in DOMAIN vrecs : vrecs'[q] = vrecs[q]
         /\ /\ precs' = Append(precs, e) /\ e.state \in ProverStates
            /\ e.state = "request_received" => e.request # 0
            => PrecsKept /\ DOMAIN precs' = DOMAIN precs \cup {Len(precs) + 1}
               /\ precs'[Len(precs) + 1] = e /\ \A q \in DOMAIN precs : precs'[q] = precs[q]
<1> DEFINE S == ExchangesOf(threads', nonces')
<1>1. vrecs \in Seq(S) /\ precs \in Seq(S)
  <2>1. threads \in Nat /\ nonces \in Nat
    BY DEF Types
  <2> QED BY <2>1, Growing DEF Types
<1>2. e \in S
  OBVIOUS
<1> HIDE DEF S
<1>3. /\ Append(vrecs, e) \in Seq(S)
      /\ DOMAIN Append(vrecs, e) = DOMAIN vrecs \cup {Len(vrecs) + 1}
      /\ Len(vrecs) + 1 \in Nat /\ Len(vrecs) + 1 \notin DOMAIN vrecs
      /\ \A q \in DOMAIN vrecs : Append(vrecs, e)[q] = vrecs[q]
      /\ Append(vrecs, e)[Len(vrecs) + 1] = e
  BY <1>1, <1>2, Adding
<1>4. /\ Append(precs, e) \in Seq(S)
      /\ DOMAIN Append(precs, e) = DOMAIN precs \cup {Len(precs) + 1}
      /\ Len(precs) + 1 \in Nat /\ Len(precs) + 1 \notin DOMAIN precs /\ Len(precs) + 1 # 0
      /\ \A q \in DOMAIN precs : Append(precs, e)[q] = precs[q]
      /\ Append(precs, e)[Len(precs) + 1] = e
  BY <1>1, <1>2, Adding
<1>5. ASSUME vrecs' = Append(vrecs, e), e.state \in VerifierStates PROVE VrecsKept
  BY <1>3, <1>5 DEF S, Types, VrecsKept
<1>6. ASSUME precs' = Append(precs, e), e.state \in ProverStates, e.state = "request_received" => e.request # 0
      PROVE  PrecsKept
  BY <1>4, <1>6 DEF S, Types, PrecsKept
<1> QED BY <1>3, <1>4, <1>5, <1>6

\* What is left to show of a step.
LEMMA TypesKept ==
  ASSUME Types, UNCHANGED setting,
         threads' \in 0..MaxThreads, nonces' \in Nat, threads <= threads', nonces <= nonces',
         faults' \in 0..setting'.faults, dups' \in 0..setting'.dups,
         msgs' \subseteq MessagesOf(threads', nonces'),
         VrecsKept, PrecsKept,
         DOMAIN vhand' = Tasks, DOMAIN phand' = Tasks,
         \A u \in Tasks : vhand'[u] = vhand[u] \/ VerifierHand(vhand'[u], vrecs', threads', nonces'),
         \A u \in Tasks : phand'[u] = phand[u] \/ ProverHand(phand'[u], precs', threads', nonces')
  PROVE  Types'
<1>1. threads' \in Nat
  OBVIOUS
<1>2. \A u \in Tasks : VerifierHand(vhand'[u], vrecs', threads', nonces') /\ ProverHand(phand'[u], precs', threads', nonces')
  BY <1>1, HandsKept DEF VrecsKept, PrecsKept
<1> QED BY <1>2 DEF Types, VrecsKept, PrecsKept

-----------------------------------------------------------------------------
\* The steps of the verifier keep the types.

LEMMA SendFreeRequestTypes == ASSUME Types, SendFreeRequest PROVE Types'
<1> DEFINE e == Exchange(threads', "request_sent", FALSE, nonces')
           m == Message("request", threads', nonces', NoProof)
<1>1. /\ threads \in Nat /\ nonces \in Nat
      /\ threads' \in 0..MaxThreads /\ nonces' \in Nat /\ threads <= threads' /\ nonces <= nonces'
      /\ threads' \in 1..threads' /\ nonces' \in 1..nonces'
  BY DEF SendFreeRequest, Types
<1>2. e \in ExchangesOf(threads', nonces') /\ m \in MessagesOf(threads', nonces')
      /\ e.state \in VerifierStates
  BY <1>1 DEF Exchange, Message, ExchangesOf, MessagesOf, States, VerifierStates
<1>3. vrecs' = Append(vrecs, e) /\ msgs' = msgs \cup {m} /\ UNCHANGED <<setting, vhand, precs, phand, faults, dups>>
  BY DEF SendFreeRequest, prover
<1> HIDE DEF e, m
<1>4. VrecsKept /\ PrecsKept
  BY <1>1, <1>2, <1>3, RecordAdded, RecordsUnchanged
<1>5. msgs' \subseteq MessagesOf(threads', nonces')
  BY <1>1, <1>2, <1>3, Growing DEF Types
<1> QED BY <1>1, <1>3, <1>4, <1>5, TypesKept DEF Types

LEMMA ReceiveProposalTypes ==
  ASSUME Types, NEW t \in Tasks, NEW m, ReceiveProposal(t, m) PROVE Types'
<1> DEFINE e == Exchange(m.thread, "proposal_received", TRUE, 0)
           h == Handler("bind", Len(vrecs) + 1, e, m)
<1>1. /\ UNCHANGED <<setting, precs, phand, threads, nonces>>
      /\ vrecs' = Append(vrecs, e)
      /\ vhand' = vhand \/ vhand' = [vhand EXCEPT ![t] = h]
  BY DEF ReceiveProposal, prover
<1>2. /\ m \in MessagesOf(threads, nonces) /\ msgs' \subseteq msgs
      /\ faults' \in 0..setting'.faults /\ dups' \in 0..setting'.dups
  BY <1>1, DeliveredFacts DEF ReceiveProposal
<1>3. threads \in Nat /\ nonces \in Nat
  BY DEF Types
<1>4. e \in ExchangesOf(threads', nonces') /\ e.state \in VerifierStates
  BY <1>1, <1>2, <1>3 DEF Exchange, ExchangesOf, MessagesOf, States, VerifierStates
<1> HIDE DEF e
<1>5. /\ VrecsKept /\ PrecsKept
      /\ Len(vrecs) + 1 \in Nat /\ Len(vrecs) + 1 \in DOMAIN vrecs' /\ vrecs'[Len(vrecs) + 1] = e
  BY <1>1, <1>3, <1>4, RecordAdded, RecordsUnchanged
<1>6. VerifierHand(h, vrecs', threads', nonces')
  BY <1>1, <1>2, <1>3, <1>4, <1>5 DEF VerifierHand, OnRecord, Handler, HandlersOf
<1> HIDE DEF h
<1>7. DOMAIN vhand' = Tasks /\ \A u \in Tasks : vhand'[u] = vhand[u] \/ vhand'[u] = h
  BY <1>1 DEF Types
<1> QED BY <1>1, <1>2, <1>3, <1>5, <1>6, <1>7, TypesKept DEF Types

LEMMA SendBoundRequestTypes ==
  ASSUME Types, NEW t \in Tasks, NEW r \in DOMAIN vrecs, SendBoundRequest(t, r) PROVE Types'
<1> DEFINE h == Handler("bind", r, vrecs[r], NoMessage)
<1>1. /\ UNCHANGED <<setting, vrecs, precs, phand, threads, nonces, msgs, faults, dups>>
      /\ vhand' = [vhand EXCEPT ![t] = h]
  BY DEF SendBoundRequest, prover
<1>2. threads \in Nat /\ nonces \in Nat /\ VrecsKept /\ PrecsKept
  BY <1>1, RecordsUnchanged DEF Types
<1>3. vrecs[r] \in ExchangesOf(threads, nonces) /\ r \in Nat
  BY LenProperties DEF Types
<1>4. VerifierHand(h, vrecs', threads', nonces')
  BY <1>1, <1>3 DEF VerifierHand, OnRecord, Handler, HandlersOf
<1> HIDE DEF h
<1>5. DOMAIN vhand' = Tasks /\ \A u \in Tasks : vhand'[u] = vhand[u] \/ vhand'[u] = h
  BY <1>1 DEF Types
<1> QED BY <1>1, <1>2, <1>4, <1>5, TypesKept DEF Types

LEMMA CreateBoundRequestTypes ==
  ASSUME Types, NEW t \in Tasks, CreateBoundRequest(t) PROVE Types'
<1> DEFINE h == vhand[t]
           e == [h.copy EXCEPT !.state = "request_sent", !.request = nonces']
           m == Message("request", h.copy.thread, nonces', NoProof)
<1>1. /\ UNCHANGED <<setting, precs, phand, threads, faults, dups>>
      /\ vhand' = [vhand EXCEPT ![t] = Idle]
      /\ \/ UNCHANGED <<vrecs, nonces, msgs>>
         \/ /\ nonces' = nonces + 1 /\ vrecs' = [vrecs EXCEPT ![h.rec] = e]
            /\ msgs' = msgs \cup {m}
  BY DEF CreateBoundRequest, prover
<1>2. /\ DOMAIN vhand' = Tasks
      /\ \A u \in Tasks : vhand'[u] = vhand[u] \/ VerifierHand(vhand'[u], vrecs', threads', nonces')
  BY <1>1, IdleHands DEF Types
<1>3. /\ threads \in Nat /\ nonces \in Nat /\ nonces' \in Nat /\ nonces <= nonces'
      /\ PrecsKept
  BY <1>1, RecordsUnchanged DEF Types
<1>4. CASE UNCHANGED <<vrecs, nonces, msgs>>
  BY <1>1, <1>2, <1>3, <1>4, RecordsUnchanged, TypesKept DEF Types
<1>5. CASE nonces' = nonces + 1 /\ vrecs' = [vrecs EXCEPT ![h.rec] = e] /\ msgs' = msgs \cup {m}
  <2>1. h.copy \in ExchangesOf(threads, nonces) /\ OnRecord(h, vrecs)
    BY DEF CreateBoundRequest, Types, VerifierHand, HandlersOf
  <2>2. h.copy \in ExchangesOf(threads', nonces') /\ nonces' \in 1..nonces' /\ nonces' \in 0..nonces'
    BY <1>1, <1>3, <1>5, <2>1, Growing
  <2>3. m \in MessagesOf(threads', nonces')
    BY <2>2 DEF Message, MessagesOf, ExchangesOf
  <2>4. msgs' \subseteq MessagesOf(threads', nonces')
    BY <1>1, <1>3, <1>5, <2>3, Growing DEF Types
  <2> HIDE DEF h, m
  <2>5. /\ e \in ExchangesOf(threads', nonces') /\ e.thread = h.copy.thread /\ e.state \in VerifierStates
    BY <2>2 DEF ExchangesOf, States, VerifierStates
  <2> HIDE DEF e
  <2>6. h.rec \in DOMAIN vrecs /\ e.thread = vrecs[h.rec].thread
    BY <2>1, <2>5 DEF OnRecord
  <2>7. threads' \in Nat /\ threads <= threads'
    BY <1>1, <1>3
  <2>8. VrecsKept
    BY <1>3, <1>5, <2>5, <2>6, <2>7, RecordWritten
  <2> QED BY <1>1, <1>2, <1>3, <2>4, <2>8, TypesKept DEF Types
<1> QED BY <1>1, <1>4, <1>5

LEMMA ReceivePresentationTypes ==
  ASSUME Types, NEW t \in Tasks, NEW m, ReceivePresentation(t, m) PROVE Types'
<1>1. /\ UNCHANGED <<setting, vrecs, precs, phand, threads, nonces>>
      /\ m.kind = "presentation"
      /\ \/ UNCHANGED vhand
         \/ \E r \in OfThread(vrecs, m.thread) : vhand' = [vhand EXCEPT ![t] = Handler("store", r, vrecs[r], m)]
  BY DEF ReceivePresentation, prover
<1>2. /\ m \in MessagesOf(threads, nonces) /\ msgs' \subseteq msgs
      /\ faults' \in 0..setting'.faults /\ dups' \in 0..setting'.dups
  BY <1>1, DeliveredFacts DEF ReceivePresentation
<1>3. threads \in Nat /\ nonces \in Nat /\ VrecsKept /\ PrecsKept
  BY <1>1, RecordsUnchanged DEF Types
<1>4. /\ DOMAIN vhand' = Tasks
      /\ \A u \in Tasks : vhand'[u] = vhand[u] \/ VerifierHand(vhand'[u], vrecs', threads', nonces')
  <2>1. CASE UNCHANGED vhand
    BY <2>1 DEF Types
  <2>2. ASSUME NEW r \in OfThread(vrecs, m.thread), vhand' = [vhand EXCEPT ![t] = Handler("store", r, vrecs[r], m)]
        PROVE  <1>4!1 /\ <1>4!2
    <3> DEFINE h == Handler("store", r, vrecs[r], m)
    <3>1. r \in DOMAIN vrecs /\ vrecs[r] \in ExchangesOf(threads, nonces) /\ r \in Nat /\ vrecs[r].thread = m.thread
      BY LenProperties DEF Types, OfThread
    <3>2. VerifierHand(h, vrecs', threads', nonces')
      BY <1>1, <1>2, <3>1 DEF VerifierHand, OnRecord, Handler, HandlersOf
    <3> HIDE DEF h
    <3>3. \A u \in Tasks : vhand'[u] = vhand[u] \/ vhand'[u] = h
      BY <2>2 DEF Types, h
    <3> QED BY <2>2, <3>2, <3>3 DEF Types
  <2> QED BY <1>1, <2>1, <2>2
<1> QED BY <1>1, <1>2, <1>3, <1>4, TypesKept DEF Types

LEMMA StorePresentationTypes ==
  ASSUME Types, NEW t \in Tasks, StorePresentation(t) PROVE Types'
<1> DEFINE h == vhand[t]
           e == [h.copy EXCEPT !.state = "presentation_received", !.proof = h.msg.proof]
           g == Handler("verify", h.rec, e, h.msg)
<1>1. /\ UNCHANGED <<setting, precs, phand, threads, nonces, msgs, faults, dups>>
      /\ \/ vhand' = [vhand EXCEPT ![t] = Idle] /\ UNCHANGED vrecs
         \/ /\ vrecs' = [vrecs EXCEPT ![h.rec] = e]
            /\ vhand' = [vhand EXCEPT ![t] = Idle] \/ vhand' = [vhand EXCEPT ![t] = g]
  BY DEF StorePresentation, prover
<1>2. /\ h.copy \in ExchangesOf(threads, nonces) /\ h.rec \in Nat
      /\ h.msg \in MessagesOf(threads, nonces) /\ h.msg.proof \in ProofsOf(nonces)
      /\ h.rec \in DOMAIN vrecs /\ h.copy.thread = vrecs[h.rec].thread
  <2>1. /\ h \in HandlersOf(threads, nonces) /\ OnRecord(h, vrecs)
        /\ h.msg.kind = "presentation"
    BY DEF StorePresentation, Types, VerifierHand
  <2> HIDE DEF h
  <2>2. h.msg \in MessagesOf(threads, nonces)
    BY <2>1 DEF HandlersOf, NoMessage, Message
  <2> QED BY <2>1, <2>2 DEF HandlersOf, OnRecord, MessagesOf
<1>3. threads \in Nat /\ nonces \in Nat /\ PrecsKept /\ (vrecs' = vrecs => VrecsKept)
  BY <1>1, RecordsUnchanged DEF Types
<1>4. CASE vhand' = [vhand EXCEPT ![t] = Idle] /\ UNCHANGED vrecs
  <2>1. DOMAIN vhand' = Tasks /\ \A u \in Tasks : vhand'[u] = vhand[u] \/ VerifierHand(vhand'[u], vrecs', threads', nonces')
    BY <1>4, IdleHands DEF Types
  <2> QED BY <1>1, <1>3, <1>4, <2>1, TypesKept DEF Types
<1>5. CASE /\ vrecs' = [vrecs EXCEPT ![h.rec] = e]
           /\ vhand' = [vhand EXCEPT ![t] = Idle] \/ vhand' = [vhand EXCEPT ![t] = g]
  <2> HIDE DEF h
  <2>1. /\ e \in ExchangesOf(threads', nonces') /\ e.thread = h.copy.thread /\ e.state \in VerifierStates
    BY <1>1, <1>2 DEF ExchangesOf, States, VerifierStates
  <2> HIDE DEF e
  <2>2. threads' \in Nat /\ threads <= threads' /\ nonces' \in Nat /\ nonces <= nonces'
    BY <1>1, <1>3
  <2>3. e.thread = vrecs[h.rec].thread
    BY <1>2, <2>1
  <2>4. /\ VrecsKept /\ DOMAIN vrecs' = DOMAIN vrecs
        /\ \A q \in DOMAIN vrecs : vrecs'[q] = IF q = h.rec THEN e ELSE vrecs[q]
    BY <1>2, <1>5, <2>1, <2>2, <2>3, RecordWritten
  <2>5. VerifierHand(g, vrecs', threads', nonces')
    BY <1>1, <1>2, <2>1, <2>4 DEF VerifierHand, OnRecord, Handler, HandlersOf
  <2> HIDE DEF g
  <2>6. /\ DOMAIN vhand' = Tasks
        /\ \A u \in Tasks : vhand'[u] = vhand[u] \/ vhand'[u] = Idle \/ vhand'[u] = g
    BY <1>5 DEF Types
  <2> QED BY <1>1, <1>3, <2>2, <2>4, <2>5, <2>6, IdleHands, TypesKept DEF Types
<1> QED BY <1>1, <1>4, <1>5

LEMMA VerifyPresentationTypes ==
  ASSUME Types, NEW t \in Tasks, NEW r \in DOMAIN vrecs, VerifyPresentation(t, r) PROVE Types'
<1> DEFINE h == Handler("verify", r, vrecs[r], NoMessage)
<1>1. /\ UNCHANGED <<setting, vrecs, precs, phand, threads, nonces, msgs, faults, dups>>
      /\ vhand' = [vhand EXCEPT ![t] = h]
  BY DEF VerifyPresentation, prover
<1>2. threads \in Nat /\ nonces \in Nat /\ VrecsKept /\ PrecsKept
  BY <1>1, RecordsUnchanged DEF Types
<1>3. vrecs[r] \in ExchangesOf(threads, nonces) /\ r \in Nat
  BY LenProperties DEF Types
<1>4. VerifierHand(h, vrecs', threads', nonces')
  BY <1>1, <1>3 DEF VerifierHand, OnRecord, Handler, HandlersOf
<1> HIDE DEF h
<1>5. DOMAIN vhand' = Tasks /\ \A u \in Tasks : vhand'[u] = vhand[u] \/ vhand'[u] = h
  BY <1>1 DEF Types
<1> QED BY <1>1, <1>2, <1>4, <1>5, TypesKept DEF Types

LEMMA VerifyTypes ==
  ASSUME Types, NEW t \in Tasks, Verify(t) PROVE Types'
<1> DEFINE h == vhand[t]
           v == Verdict(h.copy.request, h.copy.proof)
           e == [h.copy EXCEPT !.state = "verified", !.verified = v]
           m == Message("ack", h.copy.thread, 0, NoProof)
<1>1. /\ UNCHANGED <<setting, precs, phand, threads, nonces, faults, dups>>
      /\ vhand' = [vhand EXCEPT ![t] = Idle]
      /\ \/ UNCHANGED <<vrecs, msgs>>
         \/ vrecs' = [vrecs EXCEPT ![h.rec] = e] /\ msgs' = msgs \cup {m}
  BY DEF Verify, prover
<1>2. /\ h.copy \in ExchangesOf(threads, nonces)
      /\ h.rec \in DOMAIN vrecs /\ h.copy.thread = vrecs[h.rec].thread
  BY DEF Verify, Types, VerifierHand, OnRecord, HandlersOf
<1>3. threads \in Nat /\ nonces \in Nat /\ PrecsKept /\ (vrecs' = vrecs => VrecsKept)
  BY <1>1, RecordsUnchanged DEF Types
<1>4. /\ DOMAIN vhand' = Tasks
      /\ \A u \in Tasks : vhand'[u] = vhand[u] \/ VerifierHand(vhand'[u], vrecs', threads', nonces')
  BY <1>1, IdleHands DEF Types
<1>5. CASE UNCHANGED <<vrecs, msgs>>
  BY <1>1, <1>3, <1>4, <1>5, TypesKept DEF Types
<1>6. CASE vrecs' = [vrecs EXCEPT ![h.rec] = e] /\ msgs' = msgs \cup {m}
  <2>1. v \in {"none", "true", "false"}
    BY DEF Verdict
  <2>2. m \in MessagesOf(threads, nonces)
    BY <1>2 DEF Message, MessagesOf, ExchangesOf
  <2> HIDE DEF h, v, m
  <2>3. e \in ExchangesOf(threads', nonces') /\ e.thread = h.copy.thread /\ e.state \in VerifierStates
    BY <1>1, <1>2, <2>1 DEF ExchangesOf, States, VerifierStates
  <2> HIDE DEF e
  <2>4. threads' \in Nat /\ threads <= threads' /\ nonces' \in Nat /\ nonces <= nonces'
    BY <1>1, <1>3
  <2>5. e.thread = vrecs[h.rec].thread
    BY <1>2, <2>3
  <2>6. VrecsKept
    BY <1>2, <1>6, <2>3, <2>4, <2>5, RecordWritten
  <2>7. msgs' \subseteq MessagesOf(threads', nonces')
    BY <1>1, <1>6, <2>2 DEF Types
  <2> QED BY <1>1, <1>3, <1>4, <2>4, <2>6, <2>7, TypesKept DEF Types
<1> QED BY <1>1, <1>5, <1>6

-----------------------------------------------------------------------------
\* The steps of the prover keep the types.

LEMMA SendProposalTypes == ASSUME Types, SendProposal PROVE Types'
<1> DEFINE e == Exchange(threads', "proposal_sent", TRUE, 0)
           m == Message("proposal", threads', 0, NoProof)
<1>1. /\ threads \in Nat /\ nonces \in Nat
      /\ threads' \in 0..MaxThreads /\ nonces' = nonces /\ threads <= threads' /\ nonces <= nonces'
      /\ threads' \in 1..threads'
  BY DEF SendProposal, Types
<1>2. e \in ExchangesOf(threads', nonces') /\ m \in MessagesOf(threads', nonces')
      /\ e.state \in ProverStates /\ e.state # "request_received"
  BY <1>1 DEF Exchange, Message, ExchangesOf, MessagesOf, States, ProverStates
<1>3. precs' = Append(precs, e) /\ msgs' = msgs \cup {m} /\ UNCHANGED <<setting, vrecs, vhand, phand, faults, dups>>
  BY DEF SendProposal, verifier
<1> HIDE DEF e, m
<1>4. VrecsKept /\ PrecsKept
  BY <1>1, <1>2, <1>3, RecordAdded, RecordsUnchanged
<1>5. msgs' \subseteq MessagesOf(threads', nonces')
  BY <1>1, <1>2, <1>3, Growing DEF Types
<1> QED BY <1>1, <1>3, <1>4, <1>5, TypesKept DEF Types

LEMMA ReceiveRequestTypes ==
  ASSUME Types, NEW t \in Tasks, NEW m, ReceiveRequest(t, m) PROVE Types'
<1> DEFINE e == Exchange(m.thread, "request_received", FALSE, 0)
           g == Handler("store", 0, e, m)
<1>1. /\ UNCHANGED <<setting, vrecs, vhand, precs, threads, nonces>>
      /\ m.kind = "request"
      /\ \/ UNCHANGED phand
         \/ phand' = [phand EXCEPT ![t] = g]
         \/ \E r \in OfThread(precs, m.thread) : phand' = [phand EXCEPT ![t] = Handler("store", r, precs[r], m)]
  BY DEF ReceiveRequest, verifier
<1>2. /\ m \in MessagesOf(threads, nonces) /\ msgs' \subseteq msgs
      /\ faults' \in 0..setting'.faults /\ dups' \in 0..setting'.dups
  BY <1>1, DeliveredFacts DEF ReceiveRequest
<1>3. threads \in Nat /\ nonces \in Nat /\ VrecsKept /\ PrecsKept
  BY <1>1, RecordsUnchanged DEF Types
<1>4. /\ DOMAIN phand' = Tasks
      /\ \A u \in Tasks : phand'[u] = phand[u] \/ ProverHand(phand'[u], precs', threads', nonces')
  <2>1. CASE UNCHANGED phand
    BY <2>1 DEF Types
  <2>2. CASE phand' = [phand EXCEPT ![t] = g]
    <3>1. e \in ExchangesOf(threads', nonces') /\ e.thread = m.thread
      BY <1>1, <1>2, <1>3 DEF Exchange, ExchangesOf, MessagesOf, States, ProverStates
    <3> HIDE DEF e
    <3>2. ProverHand(g, precs', threads', nonces')
      BY <1>1, <1>2, <3>1 DEF ProverHand, OnRecord, Handler, HandlersOf
    <3> HIDE DEF g
    <3>3. \A u \in Tasks : phand'[u] = phand[u] \/ phand'[u] = g
      BY <2>2 DEF Types
    <3> QED BY <2>2, <3>2, <3>3 DEF Types
  <2>3. ASSUME NEW r \in OfThread(precs, m.thread), phand' = [phand EXCEPT ![t] = Handler("store", r, precs[r], m)]
        PROVE  <1>4!1 /\ <1>4!2
    <3> DEFINE h == Handler("store", r, precs[r], m)
    <3>1. r \in DOMAIN precs /\ precs[r] \in ExchangesOf(threads, nonces) /\ r \in Nat /\ precs[r].thread = m.thread
      BY LenProperties DEF Types, OfThread
    <3>2. ProverHand(h, precs', threads', nonces')
      BY <1>1, <1>2, <3>1 DEF ProverHand, OnRecord, Handler, HandlersOf
    <3> HIDE DEF h
    <3>3. \A u \in Tasks : phand'[u] = phand[u] \/ phand'[u] = h
      BY <2>3 DEF Types, h
    <3> QED BY <2>3, <3>2, <3>3 DEF Types
  <2> QED BY <1>1, <2>1, <2>2, <2>3
<1> QED BY <1>1, <1>2, <1>3, <1>4, TypesKept DEF Types

LEMMA StoreRequestTypes ==
  ASSUME Types, NEW t \in Tasks, StoreRequest(t) PROVE Types'
<1> DEFINE h == phand[t]
           e == [h.copy EXCEPT !.state = "request_received", !.request = h.msg.request]
           r == IF h.rec = 0 THEN Len(precs) + 1 ELSE h.rec
           g == Handler("present", r, e, h.msg)
<1>1. /\ UNCHANGED <<setting, vrecs, vhand, threads, nonces, msgs, faults, dups>>
      /\ \/ phand' = [phand EXCEPT ![t] = Idle] /\ UNCHANGED precs
         \/ /\ precs' = IF h.rec = 0 THEN Append(precs, e) ELSE [precs EXCEPT ![r] = e]
            /\ phand' = [phand EXCEPT ![t] = Idle] \/ phand' = [phand EXCEPT ![t] = g]
  BY DEF StoreRequest, verifier
<1>2. /\ h.copy \in ExchangesOf(threads, nonces) /\ h.rec \in Nat
      /\ h.msg \in MessagesOf(threads, nonces) /\ h.msg.request \in 1..nonces
      /\ h.rec # 0 => h.rec \in DOMAIN precs /\ h.copy.thread = precs[h.rec].thread
  <2>1. /\ h \in HandlersOf(threads, nonces) /\ (h.rec # 0 => OnRecord(h, precs))
        /\ h.msg.kind = "request"
    BY DEF StoreRequest, Types, ProverHand
  <2> HIDE DEF h
  <2>2. h.msg \in MessagesOf(threads, nonces)
    BY <2>1 DEF HandlersOf, NoMessage, Message
  <2> QED BY <2>1, <2>2 DEF HandlersOf, OnRecord, MessagesOf
<1>3. threads \in Nat /\ nonces \in Nat /\ VrecsKept /\ (precs' = precs => PrecsKept)
  BY <1>1, RecordsUnchanged DEF Types
<1>4. CASE phand' = [phand EXCEPT ![t] = Idle] /\ UNCHANGED precs
  <2>1. DOMAIN phand' = Tasks /\ \A u \in Tasks : phand'[u] = phand[u] \/ ProverHand(phand'[u], precs', threads', nonces')
    BY <1>4, IdleHands DEF Types
  <2> QED BY <1>1, <1>3, <1>4, <2>1, TypesKept DEF Types
<1>5. CASE /\ precs' = IF h.rec = 0 THEN Append(precs, e) ELSE [precs EXCEPT ![r] = e]
           /\ phand' = [phand EXCEPT ![t] = Idle] \/ phand' = [phand EXCEPT ![t] = g]
  <2> HIDE DEF h
  <2>1. /\ e \in ExchangesOf(threads', nonces') /\ e.thread = h.copy.thread /\ e.state \in ProverStates
        /\ e.request # 0
    <3>1. /\ h.msg.request \in 0..nonces' /\ h.msg.request # 0
          /\ h.copy \in ExchangesOf(threads', nonces')
      BY <1>1, <1>2, <1>3
    <3>2. e \in ExchangesOf(threads', nonces') /\ e.thread = h.copy.thread /\ e.state = "request_received"
      BY <3>1 DEF ExchangesOf, States, ProverStates
    <3>3. e.request = h.msg.request
      BY <3>1 DEF ExchangesOf
    <3> QED BY <3>1, <3>2, <3>3 DEF ProverStates
  <2> HIDE DEF e
  <2>2. threads' \in Nat /\ threads <= threads' /\ nonces' \in Nat /\ nonces <= nonces'
    BY <1>1, <1>3
  <2>3. PrecsKept /\ r \in DOMAIN precs' /\ r \in Nat /\ r # 0 /\ precs'[r] = e
    <3>1. CASE h.rec = 0
      BY <1>5, <2>1, <2>2, <3>1, RecordAdded
    <3>2. CASE h.rec # 0
      <4>1. r = h.rec /\ r \in DOMAIN precs /\ e.thread = precs[r].thread
        BY <1>2, <2>1, <3>2
      <4> HIDE DEF r
      <4>2. precs' = [precs EXCEPT ![r] = e]
        BY <1>5, <3>2
      <4>3. PrecsKept /\ DOMAIN precs' = DOMAIN precs /\ precs'[r] = e
        BY <2>1, <2>2, <4>1, <4>2, RecordWritten
      <4> QED BY <1>2, <3>2, <4>1, <4>3
    <3> QED BY <3>1, <3>2
  <2> HIDE DEF r
  <2>4. ProverHand(g, precs', threads', nonces')
    BY <1>1, <1>2, <2>1, <2>3 DEF ProverHand, OnRecord, Handler, HandlersOf
  <2> HIDE DEF g
  <2>5. /\ DOMAIN phand' = Tasks
        /\ \A u \in Tasks : phand'[u] = phand[u] \/ phand'[u] = Idle \/ phand'[u] = g
    BY <1>5 DEF Types
  <2> QED BY <1>1, <1>3, <2>2, <2>3, <2>4, <2>5, IdleHands, TypesKept DEF Types
<1> QED BY <1>1, <1>4, <1>5

LEMMA SendPresentationTypes ==
  ASSUME Types, NEW t \in Tasks, NEW r \in DOMAIN precs, SendPresentation(t, r) PROVE Types'
<1> DEFINE h == Handler("present", r, precs[r], NoMessage)
<1>1. /\ UNCHANGED <<setting, vrecs, vhand, precs, threads, nonces, msgs, faults, dups>>
      /\ phand' = [phand EXCEPT ![t] = h] /\ precs[r].state = "request_received"
  BY DEF SendPresentation, verifier
<1>2. threads \in Nat /\ nonces \in Nat /\ VrecsKept /\ PrecsKept
  BY <1>1, RecordsUnchanged DEF Types
<1>3. precs[r] \in ExchangesOf(threads, nonces) /\ r \in Nat /\ r # 0 /\ precs[r].request # 0
  BY <1>1, LenProperties DEF Types
<1>4. ProverHand(h, precs', threads', nonces')
  BY <1>1, <1>3 DEF ProverHand, OnRecord, Handler, HandlersOf
<1> HIDE DEF h
<1>5. DOMAIN phand' = Tasks /\ \A u \in Tasks : phand'[u] = phand[u] \/ phand'[u] = h
  BY <1>1 DEF Types
<1> QED BY <1>1, <1>2, <1>4, <1>5, TypesKept DEF Types

LEMMA CreatePresentationTypes ==
  ASSUME Types, NEW t \in Tasks, CreatePresentation(t) PROVE Types'
<1> DEFINE h == phand[t]
<1>1. /\ UNCHANGED <<setting, vrecs, vhand, threads, nonces, dups>>
      /\ phand' = [phand EXCEPT ![t] = Idle]
  BY DEF CreatePresentation, verifier
<1>2. /\ h.copy \in ExchangesOf(threads, nonces) /\ h.copy.request # 0
      /\ h.rec \in DOMAIN precs /\ h.copy.thread = precs[h.rec].thread
  BY DEF CreatePresentation, Types, ProverHand, OnRecord, HandlersOf
<1>3. threads \in Nat /\ nonces \in Nat /\ VrecsKept /\ (precs' = precs => PrecsKept)
  BY <1>1, RecordsUnchanged DEF Types
<1>4. /\ DOMAIN phand' = Tasks
      /\ \A u \in Tasks : phand'[u] = phand[u] \/ ProverHand(phand'[u], precs', threads', nonces')
  BY <1>1, IdleHands DEF Types
<1>5. CASE UNCHANGED <<precs, msgs, faults>>
  BY <1>1, <1>3, <1>4, <1>5, TypesKept DEF Types
<1>6. ASSUME NEW valid \in BOOLEAN, NEW fits \in BOOLEAN, NEW proof,
             proof = [request |-> h.copy.request, valid |-> valid, fits |-> fits],
             precs' = [precs EXCEPT ![h.rec] = [h.copy EXCEPT !.state = "presentation_sent", !.proof = proof]],
             msgs' = msgs \cup {Message("presentation", h.copy.thread, 0, proof)},
             UNCHANGED faults \/ Fault
      PROVE  Types'
  <2> DEFINE e == [h.copy EXCEPT !.state = "presentation_sent", !.proof = proof]
             m == Message("presentation", h.copy.thread, 0, proof)
  <2>1. h.copy.request \in 1..nonces /\ h.copy.thread \in 1..threads
    BY <1>2, <1>3 DEF ExchangesOf
  <2>2. proof \in ProofsOf(nonces)
    BY <1>6, <2>1 DEF ProofsOf
  <2>3. m \in MessagesOf(threads, nonces)
    BY <2>1, <2>2 DEF Message, MessagesOf
  <2>4. vrecs' = vrecs /\ precs' = [precs EXCEPT ![h.rec] = e] /\ msgs' = msgs \cup {m}
    BY <1>1, <1>6
  <2> HIDE DEF h, m
  <2>5. e \in ExchangesOf(threads', nonces') /\ e.thread = h.copy.thread /\ e.state = "presentation_sent"
    BY <1>1, <1>2, <2>2 DEF ExchangesOf, States, ProverStates
  <2> HIDE DEF e
  <2>6. threads' \in Nat /\ threads <= threads' /\ nonces' \in Nat /\ nonces <= nonces'
    BY <1>1, <1>3
  <2>7. e.thread = precs[h.rec].thread /\ e.state \in ProverStates
    BY <1>2, <2>5 DEF ProverStates
  <2>8. PrecsKept
    BY <1>2, <2>4, <2>5, <2>6, <2>7, RecordWritten
  <2>9. msgs' \subseteq MessagesOf(threads', nonces') /\ faults' \in 0..setting'.faults
    BY <1>1, <1>6, <2>3, <2>4, FaultFacts DEF Types
  <2> QED BY <1>1, <1>3, <1>4, <2>6, <2>8, <2>9, TypesKept DEF Types
<1> QED BY <1>5, <1>6 DEF CreatePresentation

LEMMA ReceiveAckTypes ==
  ASSUME Types, NEW m, ReceiveAck(m) PROVE Types'
<1> DEFINE acked(r) == IF OfThread(precs, m.thread) = {r} THEN [precs[r] EXCEPT !.state = "presentation_acked"] ELSE precs[r]
<1>1. /\ UNCHANGED <<setting, vrecs, vhand, phand, threads, nonces>>
      /\ precs' = [r \in DOMAIN precs |-> acked(r)]
  BY DEF ReceiveAck, verifier
<1>2. /\ msgs' \subseteq msgs /\ faults' \in 0..setting'.faults /\ dups' \in 0..setting'.dups
  BY <1>1, DeliveredFacts DEF ReceiveAck
<1>3. threads \in Nat /\ nonces \in Nat /\ VrecsKept
  BY <1>1, RecordsUnchanged DEF Types
<1>4. DOMAIN precs = 1..Len(precs) /\ Len(precs) \in Nat
  BY LenProperties DEF Types
<1>5. \A r \in DOMAIN precs :
         /\ acked(r) \in ExchangesOf(threads, nonces) /\ acked(r).thread = precs[r].thread
         /\ acked(r).state \in ProverStates /\ (acked(r).state = "request_received" => acked(r).request # 0)
  <2> TAKE r \in DOMAIN precs
  <2>1. precs[r] \in ExchangesOf(threads, nonces) /\ precs[r].state \in ProverStates
        /\ (precs[r].state = "request_received" => precs[r].request # 0)
    BY <1>4 DEF Types
  <2>2. acked(r) = precs[r] \/ acked(r) = [precs[r] EXCEPT !.state = "presentation_acked"]
    OBVIOUS
  <2> HIDE DEF acked
  <2> QED BY <2>1, <2>2 DEF ExchangesOf, States, ProverStates
<1> HIDE DEF acked
<1>6. precs' \in Seq(ExchangesOf(threads, nonces)) /\ DOMAIN precs' = DOMAIN precs
      /\ \A r \in DOMAIN precs : precs'[r] = acked(r)
  <2>1. \A r \in 1..Len(precs) : acked(r) \in ExchangesOf(threads, nonces)
    BY <1>4, <1>5
  <2>2. precs' = [r \in 1..Len(precs) |-> acked(r)]
    BY <1>1, <1>4
  <2>3. precs' \in Seq(ExchangesOf(threads, nonces))
    BY <1>4, <2>1, <2>2, IsASeq
  <2> QED BY <1>1, <2>3
<1>7. PrecsKept
  BY <1>1, <1>5, <1>6 DEF PrecsKept
<1> QED BY <1>1, <1>2, <1>3, <1>7, TypesKept DEF Types

\* Steps that only end handlers and lose messages.
LEMMA EndedTypes ==
  ASSUME Types, UNCHANGED <<setting, vrecs, precs, threads, nonces, dups>>, Fault,
         msgs' \subseteq msgs,
         \/ UNCHANGED vhand \/ vhand' = [t \in Tasks |-> Idle]
         \/ \E t \in Tasks : vhand' = [vhand EXCEPT ![t] = Idle],
         \/ UNCHANGED phand \/ phand' = [t \in Tasks |-> Idle]
         \/ \E t \in Tasks : phand' = [phand EXCEPT ![t] = Idle]
  PROVE  Types'
<1>1. VrecsKept /\ PrecsKept /\ threads \in Nat /\ nonces \in Nat
  BY RecordsUnchanged DEF Types
<1>2. DOMAIN vhand' = Tasks /\ DOMAIN phand' = Tasks
      /\ \A u \in Tasks : /\ vhand'[u] = vhand[u] \/ vhand'[u] = Idle
                          /\ phand'[u] = phand[u] \/ phand'[u] = Idle
  BY DEF Types
<1>3. faults' \in 0..setting'.faults
  BY FaultFacts
<1> QED BY <1>1, <1>2, <1>3, IdleHands, TypesKept DEF Types

LEMMA RemoveVerifiersTypes ==
  ASSUME Types, NEW r \in DOMAIN vrecs, RemoveVerifiers(r) PROVE Types'
<1> DEFINE e == [vrecs[r] EXCEPT !.state = "removed"]
<1>1. /\ UNCHANGED <<setting, vhand, precs, phand, threads, nonces, msgs, dups>> /\ Fault
      /\ vrecs' = [vrecs EXCEPT ![r] = e]
  BY DEF RemoveVerifiers, RemoveFrom, prover
<1>2. threads \in Nat /\ nonces \in Nat /\ PrecsKept /\ vrecs[r] \in ExchangesOf(threads, nonces)
  BY <1>1, RecordsUnchanged, LenProperties DEF Types
<1>3. /\ e \in ExchangesOf(threads', nonces') /\ e.thread = vrecs[r].thread /\ e.state \in VerifierStates
  BY <1>1, <1>2 DEF ExchangesOf, States, VerifierStates
<1> HIDE DEF e
<1>4. threads' \in Nat /\ threads <= threads' /\ nonces' \in Nat /\ nonces <= nonces'
  BY <1>1, <1>2
<1>5. VrecsKept
  BY <1>1, <1>3, <1>4, RecordWritten
<1>6. faults' \in 0..setting'.faults
  BY <1>1, FaultFacts
<1> QED BY <1>1, <1>2, <1>4, <1>5, <1>6, TypesKept DEF Types

LEMMA RemoveProversTypes ==
  ASSUME Types, NEW r \in DOMAIN precs, RemoveProvers(r) PROVE Types'
<1> DEFINE e == [precs[r] EXCEPT !.state = "removed"]
<1>1. /\ UNCHANGED <<setting, vrecs, vhand, phand, threads, nonces, msgs, dups>> /\ Fault
      /\ precs' = [precs EXCEPT ![r] = e]
  BY DEF RemoveProvers, RemoveFrom, verifier
<1>2. threads \in Nat /\ nonces \in Nat /\ VrecsKept /\ precs[r] \in ExchangesOf(threads, nonces)
  BY <1>1, RecordsUnchanged, LenProperties DEF Types
<1>3. /\ e \in ExchangesOf(threads', nonces') /\ e.thread = precs[r].thread /\ e.state = "removed"
  BY <1>1, <1>2 DEF ExchangesOf, States, VerifierStates
<1> HIDE DEF e
<1>4. threads' \in Nat /\ threads <= threads' /\ nonces' \in Nat /\ nonces <= nonces'
  BY <1>1, <1>2
<1>5. PrecsKept
  BY <1>1, <1>3, <1>4, RecordWritten DEF ProverStates
<1>6. faults' \in 0..setting'.faults
  BY <1>1, FaultFacts
<1> QED BY <1>1, <1>2, <1>4, <1>5, <1>6, TypesKept DEF Types

LEMMA StutterTypes == ASSUME Types, UNCHANGED vars PROVE Types'
  BY DEF Types, vars, verifier, prover, VerifierHand, ProverHand, OnRecord

LEMMA NextTypes == ASSUME Types, [Next]_vars PROVE Types'
<1>1. CASE SendFreeRequest \/ SendProposal
  BY <1>1, SendFreeRequestTypes, SendProposalTypes
<1>2. ASSUME NEW t \in Tasks, NEW m \in msgs,
             ReceiveProposal(t, m) \/ ReceivePresentation(t, m) \/ ReceiveRequest(t, m)
      PROVE  Types'
  BY <1>2, ReceiveProposalTypes, ReceivePresentationTypes, ReceiveRequestTypes
<1>3. ASSUME NEW m \in msgs, ReceiveAck(m) PROVE Types'
  BY <1>3, ReceiveAckTypes
<1>4. ASSUME NEW m \in msgs, Lose(m) PROVE Types'
  BY <1>4, EndedTypes DEF Lose, verifier, prover
<1>5. ASSUME NEW t \in Tasks, CreateBoundRequest(t) \/ StorePresentation(t) \/ Verify(t) PROVE Types'
  BY <1>5, CreateBoundRequestTypes, StorePresentationTypes, VerifyTypes
<1>6. ASSUME NEW t \in Tasks, StoreRequest(t) \/ CreatePresentation(t) PROVE Types'
  BY <1>6, StoreRequestTypes, CreatePresentationTypes
<1>7. ASSUME NEW t \in Tasks, VerifierFails(t) PROVE Types'
  BY <1>7, EndedTypes DEF VerifierFails, prover
<1>8. ASSUME NEW t \in Tasks, ProverFails(t) PROVE Types'
  BY <1>8, EndedTypes DEF ProverFails, verifier
<1>9. ASSUME NEW t \in Tasks, NEW r \in DOMAIN vrecs, SendBoundRequest(t, r) \/ VerifyPresentation(t, r) PROVE Types'
  BY <1>9, SendBoundRequestTypes, VerifyPresentationTypes
<1>10. ASSUME NEW t \in Tasks, NEW r \in DOMAIN precs, SendPresentation(t, r) PROVE Types'
  BY <1>10, SendPresentationTypes
<1>11. ASSUME NEW r \in DOMAIN vrecs, RemoveVerifiers(r) PROVE Types'
  BY <1>11, RemoveVerifiersTypes
<1>12. ASSUME NEW r \in DOMAIN precs, RemoveProvers(r) PROVE Types'
  BY <1>12, RemoveProversTypes
<1>13. CASE RestartVerifier \/ RestartProver
  BY <1>13, EndedTypes DEF RestartVerifier, RestartProver, verifier, prover
<1>14. CASE UNCHANGED vars
  BY <1>14, StutterTypes
<1> QED BY <1>1, <1>2, <1>3, <1>4, <1>5, <1>6, <1>7, <1>8, <1>9, <1>10, <1>11, <1>12, <1>13, <1>14 DEF Next

LEMMA TypesSuffice == Types => TypeOK
<1> SUFFICES ASSUME Types PROVE TypeOK
  OBVIOUS
<1>1. \A r \in DOMAIN vrecs : IsExchange(vrecs[r], VerifierStates)
  <2> TAKE r \in DOMAIN vrecs
  <2>1. vrecs[r] \in ExchangesOf(threads, nonces) /\ vrecs[r].state \in VerifierStates
    BY LenProperties DEF Types
  <2> QED BY <2>1 DEF IsExchange, ExchangesOf, Proofs, ProofsOf
<1>2. \A r \in DOMAIN precs : IsExchange(precs[r], ProverStates)
  <2> TAKE r \in DOMAIN precs
  <2>1. precs[r] \in ExchangesOf(threads, nonces) /\ precs[r].state \in ProverStates
    BY LenProperties DEF Types
  <2> QED BY <2>1 DEF IsExchange, ExchangesOf, Proofs, ProofsOf
<1>3. \A m \in msgs : m.kind \in {"proposal", "request", "presentation", "ack"}
  BY DEF Types, MessagesOf
<1> QED BY <1>1, <1>2, <1>3 DEF Types, TypeOK, VerifierHand, ProverHand

\* The types of all there is: records, messages and the copies handlers carry name
\* threads that were begun and requests that were made, a message has what its kind
\* brings, and a handler that is not idle works on a record, with a copy and, when it
\* stores, a message of that record's thread.
WellTyped == TypeOK /\ Types

\* Records, messages and what handlers hold keep these types, over messages that come
\* twice or late, records that are removed while handlers have copies of them, and
\* restarts (present_proof/v1_0/manager.py).
THEOREM TypeCorrect == Spec => []WellTyped
<1>1. Spec => []Types
  BY InitTypes, NextTypes, PTL DEF Spec
<1>2. Types => WellTyped
  BY TypesSuffice DEF WellTyped
<1> QED BY <1>1, <1>2, PTL

-----------------------------------------------------------------------------
\* What a step does to the verifier's records and handlers, one by one.

LEMMA Appended ==
  ASSUME Types, NEW e, vrecs' = Append(vrecs, e)
  PROVE  /\ DOMAIN vrecs' = DOMAIN vrecs \cup {Len(vrecs) + 1}
         /\ Len(vrecs) + 1 \notin DOMAIN vrecs /\ vrecs'[Len(vrecs) + 1] = e
         /\ \A q \in DOMAIN vrecs : vrecs'[q] = vrecs[q]
<1> DEFINE S == ExchangesOf(threads, nonces) \cup {e}
<1>1. vrecs \in Seq(S) /\ e \in S
  BY DEF Types
<1> HIDE DEF S
<1> QED BY <1>1, Adding

LEMMA Overwritten ==
  ASSUME NEW r, NEW e, vrecs' = [vrecs EXCEPT ![r] = e]
  PROVE  /\ DOMAIN vrecs' = DOMAIN vrecs
         /\ \A q \in DOMAIN vrecs : vrecs'[q] = IF q = r THEN e ELSE vrecs[q]
  OBVIOUS

LEMMA HandSet ==
  ASSUME Types, NEW t \in Tasks, NEW h, vhand' = [vhand EXCEPT ![t] = h]
  PROVE  \A u \in Tasks : vhand'[u] = IF u = t THEN h ELSE vhand[u]
  BY DEF Types

-----------------------------------------------------------------------------
\* A record's result is for what is in it.

RecordFits(e) ==
    /\ e.state \in {"presentation_received", "verified"} => (e.proposal => e.proof.fits)
    /\ e.state = "verified" => e.verified = Verdict(e.request, e.proof)

HandFits(h) ==
    /\ h.pc = "store" => (h.copy.proposal => h.msg.proof.fits)
    /\ h.pc = "verify" => (h.copy.proposal => h.copy.proof.fits)

Fitting ==
    /\ \A r \in DOMAIN vrecs : RecordFits(vrecs[r])
    /\ \A t \in Tasks : HandFits(vhand[t])

LEMMA FittingKept ==
  ASSUME Fitting,
         \A r \in DOMAIN vrecs' : (r \in DOMAIN vrecs /\ vrecs'[r] = vrecs[r]) \/ RecordFits(vrecs'[r]),
         \A t \in Tasks : vhand'[t] = vhand[t] \/ HandFits(vhand'[t])
  PROVE  Fitting'
  BY DEF Fitting, RecordFits, HandFits, Verdict

LEMMA IdleFits == HandFits(Idle)
  BY DEF HandFits, Idle

LEMMA InitFitting == Init => Fitting
  BY IdleFits DEF Init, Fitting

LEMMA SendFreeRequestFitting == ASSUME Types, Fitting, SendFreeRequest PROVE Fitting'
<1> DEFINE e == Exchange(threads', "request_sent", FALSE, nonces')
<1>1. vrecs' = Append(vrecs, e) /\ UNCHANGED vhand
  BY DEF SendFreeRequest
<1>2. RecordFits(e)
  BY DEF RecordFits, Exchange
<1> HIDE DEF e
<1> QED BY <1>1, <1>2, Appended, FittingKept

LEMMA ReceiveProposalFitting ==
  ASSUME Types, Fitting, NEW t \in Tasks, NEW m, ReceiveProposal(t, m) PROVE Fitting'
<1> DEFINE e == Exchange(m.thread, "proposal_received", TRUE, 0)
           h == Handler("bind", Len(vrecs) + 1, e, m)
<1>1. vrecs' = Append(vrecs, e) /\ (UNCHANGED vhand \/ vhand' = [vhand EXCEPT ![t] = h])
  BY DEF ReceiveProposal
<1>2. RecordFits(e) /\ HandFits(h)
  BY DEF RecordFits, Exchange, HandFits, Handler
<1> HIDE DEF e, h
<1>3. \A u \in Tasks : vhand'[u] = vhand[u] \/ HandFits(vhand'[u])
  BY <1>1, <1>2, HandSet
<1> QED BY <1>1, <1>2, <1>3, Appended, FittingKept

LEMMA CreateBoundRequestFitting ==
  ASSUME Types, Fitting, NEW t \in Tasks, CreateBoundRequest(t) PROVE Fitting'
<1> DEFINE h == vhand[t]
           e == [h.copy EXCEPT !.state = "request_sent", !.request = nonces']
<1>1. vhand' = [vhand EXCEPT ![t] = Idle] /\ (UNCHANGED vrecs \/ vrecs' = [vrecs EXCEPT ![h.rec] = e])
  BY DEF CreateBoundRequest
<1>2. h.copy \in ExchangesOf(threads, nonces)
  BY DEF CreateBoundRequest, Types, VerifierHand, HandlersOf
<1> HIDE DEF h
<1>3. e.state = "request_sent"
  BY <1>2 DEF ExchangesOf
<1> HIDE DEF e
<1>4. RecordFits(e)
  BY <1>3 DEF RecordFits
<1>5. \A u \in Tasks : vhand'[u] = vhand[u] \/ HandFits(vhand'[u])
  BY <1>1, IdleFits, HandSet
<1> QED BY <1>1, <1>4, <1>5, Overwritten, FittingKept

LEMMA ReceivePresentationFitting ==
  ASSUME Types, Fitting, NEW t \in Tasks, NEW m, ReceivePresentation(t, m) PROVE Fitting'
<1>1. UNCHANGED vrecs
  BY DEF ReceivePresentation
<1>2. CASE UNCHANGED vhand
  BY <1>1, <1>2, FittingKept
<1>3. ASSUME NEW r, Acceptable(vrecs[r], m.proof), vhand' = [vhand EXCEPT ![t] = Handler("store", r, vrecs[r], m)]
      PROVE  Fitting'
  <2> DEFINE h == Handler("store", r, vrecs[r], m)
  <2>1. HandFits(h)
    BY <1>3 DEF HandFits, Handler, Acceptable
  <2>2. vhand' = [vhand EXCEPT ![t] = h]
    BY <1>3
  <2> HIDE DEF h
  <2> QED BY <1>1, <2>1, <2>2, HandSet, FittingKept
<1> QED BY <1>2, <1>3 DEF ReceivePresentation

LEMMA StorePresentationFitting ==
  ASSUME Types, Fitting, NEW t \in Tasks, StorePresentation(t) PROVE Fitting'
<1> DEFINE h == vhand[t]
           e == [h.copy EXCEPT !.state = "presentation_received", !.proof = h.msg.proof]
           g == Handler("verify", h.rec, e, h.msg)
<1>1. /\ UNCHANGED vrecs \/ vrecs' = [vrecs EXCEPT ![h.rec] = e]
      /\ vhand' = [vhand EXCEPT ![t] = Idle] \/ vhand' = [vhand EXCEPT ![t] = g]
  BY DEF StorePresentation
<1>2. h.copy \in ExchangesOf(threads, nonces) /\ (h.copy.proposal => h.msg.proof.fits)
  BY DEF StorePresentation, Types, VerifierHand, HandlersOf, Fitting, HandFits
<1> HIDE DEF h
<1>3. e.state = "presentation_received" /\ e.proof = h.msg.proof /\ e.proposal = h.copy.proposal
  BY <1>2 DEF ExchangesOf
<1> HIDE DEF e
<1>4. RecordFits(e) /\ HandFits(g)
  BY <1>2, <1>3 DEF RecordFits, HandFits, Handler
<1> HIDE DEF g
<1>5. \A u \in Tasks : vhand'[u] = vhand[u] \/ HandFits(vhand'[u])
  BY <1>1, <1>4, IdleFits, HandSet
<1> QED BY <1>1, <1>4, <1>5, Overwritten, FittingKept

LEMMA VerifyFitting ==
  ASSUME Types, Fitting, NEW t \in Tasks, Verify(t) PROVE Fitting'
<1> DEFINE h == vhand[t]
           e == [h.copy EXCEPT !.state = "verified", !.verified = Verdict(h.copy.request, h.copy.proof)]
<1>1. vhand' = [vhand EXCEPT ![t] = Idle] /\ (UNCHANGED vrecs \/ vrecs' = [vrecs EXCEPT ![h.rec] = e])
  BY DEF Verify
<1>2. h.copy \in ExchangesOf(threads, nonces) /\ (h.copy.proposal => h.copy.proof.fits)
  BY DEF Verify, Types, VerifierHand, HandlersOf, Fitting, HandFits
<1> HIDE DEF h
<1>3. /\ e.state = "verified" /\ e.verified = Verdict(h.copy.request, h.copy.proof)
      /\ e.proof = h.copy.proof /\ e.request = h.copy.request /\ e.proposal = h.copy.proposal
  BY <1>2 DEF ExchangesOf
<1> HIDE DEF e
<1>4. RecordFits(e)
  BY <1>2, <1>3 DEF RecordFits
<1>5. \A u \in Tasks : vhand'[u] = vhand[u] \/ HandFits(vhand'[u])
  BY <1>1, IdleFits, HandSet
<1> QED BY <1>1, <1>4, <1>5, Overwritten, FittingKept

LEMMA StartFitting ==
  ASSUME Types, Fitting, NEW t \in Tasks, NEW r \in DOMAIN vrecs, SendBoundRequest(t, r) \/ VerifyPresentation(t, r)
  PROVE  Fitting'
<1>1. UNCHANGED vrecs
  BY DEF SendBoundRequest, VerifyPresentation
<1>2. PICK h : vhand' = [vhand EXCEPT ![t] = h] /\ HandFits(h)
  <2>1. CASE SendBoundRequest(t, r)
    <3> DEFINE k == Handler("bind", r, vrecs[r], NoMessage)
    <3>1. vhand' = [vhand EXCEPT ![t] = k] /\ HandFits(k)
      BY <2>1 DEF SendBoundRequest, HandFits, Handler
    <3> HIDE DEF k
    <3> QED BY <3>1
  <2>2. CASE VerifyPresentation(t, r)
    <3> DEFINE k == Handler("verify", r, vrecs[r], NoMessage)
    <3>1. vhand' = [vhand EXCEPT ![t] = k] /\ HandFits(k)
      BY <2>2 DEF VerifyPresentation, HandFits, Handler, Fitting, RecordFits
    <3> HIDE DEF k
    <3> QED BY <3>1
  <2> QED BY <2>1, <2>2
<1> QED BY <1>1, <1>2, HandSet, FittingKept

LEMMA RemoveVerifiersFitting ==
  ASSUME Types, Fitting, NEW r \in DOMAIN vrecs, RemoveVerifiers(r) PROVE Fitting'
<1> DEFINE e == [vrecs[r] EXCEPT !.state = "removed"]
<1>1. vrecs' = [vrecs EXCEPT ![r] = e] /\ UNCHANGED vhand
  BY DEF RemoveVerifiers, RemoveFrom
<1>2. e.state = "removed"
  <2>1. vrecs[r] \in ExchangesOf(threads, nonces)
    BY LenProperties DEF Types
  <2> QED BY <2>1 DEF ExchangesOf
<1> HIDE DEF e
<1>3. RecordFits(e)
  BY <1>2 DEF RecordFits
<1> QED BY <1>1, <1>3, Overwritten, FittingKept

LEMMA OtherFitting ==
  ASSUME Types, Fitting, UNCHANGED vrecs,
         \A t \in Tasks : vhand'[t] = vhand[t] \/ vhand'[t] = Idle
  PROVE  Fitting'
  BY IdleFits, FittingKept

\* The steps that leave the verifier's records alone and at most end its handlers.
Aside ==
    /\ UNCHANGED vrecs
    /\ \A t \in Tasks : vhand'[t] = vhand[t] \/ vhand'[t] = Idle

LEMMA Asides ==
  ASSUME Types
  PROVE  /\ SendProposal => Aside
         /\ \A t \in Tasks, m \in msgs : ReceiveRequest(t, m) => Aside
         /\ \A m \in msgs : ReceiveAck(m) \/ Lose(m) => Aside
         /\ \A t \in Tasks : StoreRequest(t) \/ CreatePresentation(t) \/ VerifierFails(t) \/ ProverFails(t) => Aside
         /\ \A t \in Tasks, r \in DOMAIN precs : SendPresentation(t, r) => Aside
         /\ \A r \in DOMAIN precs : RemoveProvers(r) => Aside
         /\ RestartVerifier \/ RestartProver \/ UNCHANGED vars => Aside
<1>1. SendProposal => Aside
  BY DEF SendProposal, Aside, verifier
<1>2. \A t \in Tasks, m \in msgs : ReceiveRequest(t, m) => Aside
  BY DEF ReceiveRequest, Aside, verifier
<1>3. \A m \in msgs : ReceiveAck(m) \/ Lose(m) => Aside
  BY DEF ReceiveAck, Lose, Aside, verifier
<1>4. \A t \in Tasks : StoreRequest(t) \/ CreatePresentation(t) \/ ProverFails(t) => Aside
  BY DEF StoreRequest, CreatePresentation, ProverFails, Aside, verifier
<1>5. \A t \in Tasks : VerifierFails(t) => Aside
  BY HandSet DEF VerifierFails, Aside
<1>6. \A t \in Tasks, r \in DOMAIN precs : SendPresentation(t, r) => Aside
  BY DEF SendPresentation, Aside, verifier
<1>7. \A r \in DOMAIN precs : RemoveProvers(r) => Aside
  BY DEF RemoveProvers, Aside, verifier
<1>8. RestartVerifier \/ RestartProver \/ UNCHANGED vars => Aside
  BY DEF RestartVerifier, RestartProver, vars, Aside, verifier
<1> QED BY <1>1, <1>2, <1>3, <1>4, <1>5, <1>6, <1>7, <1>8

LEMMA NextFitting == ASSUME Types, Fitting, [Next]_vars PROVE Fitting'
<1>1. CASE SendFreeRequest
  BY <1>1, SendFreeRequestFitting
<1>2. ASSUME NEW t \in Tasks, NEW m \in msgs, ReceiveProposal(t, m) \/ ReceivePresentation(t, m) PROVE Fitting'
  BY <1>2, ReceiveProposalFitting, ReceivePresentationFitting
<1>3. ASSUME NEW t \in Tasks, CreateBoundRequest(t) \/ StorePresentation(t) \/ Verify(t) PROVE Fitting'
  BY <1>3, CreateBoundRequestFitting, StorePresentationFitting, VerifyFitting
<1>4. ASSUME NEW t \in Tasks, NEW r \in DOMAIN vrecs, SendBoundRequest(t, r) \/ VerifyPresentation(t, r) PROVE Fitting'
  BY <1>4, StartFitting
<1>5. ASSUME NEW r \in DOMAIN vrecs, RemoveVerifiers(r) PROVE Fitting'
  BY <1>5, RemoveVerifiersFitting
<1>6. CASE Aside
  BY <1>6, OtherFitting DEF Aside
<1> QED BY <1>1, <1>2, <1>3, <1>4, <1>5, <1>6, Asides DEF Next

\* What a verified record says is the result for the request and the proof in it, and
\* the proof shows the values proposed, however many handlers of it overlap.
THEOREM ResultIsOfStored == Spec => []VerifiedIsOfStored
<1>1. Spec => [](Types /\ Fitting)
  BY InitTypes, NextTypes, InitFitting, NextFitting, PTL DEF Spec
<1>2. Fitting => VerifiedIsOfStored
  BY DEF Fitting, RecordFits, VerifiedIsOfStored
<1> QED BY <1>1, <1>2, PTL

-----------------------------------------------------------------------------
\* A handler that binds a request has its record to itself, in a verifier that does
\* one thing at a time or asks without its admin.

Turns ==
    \A t \in Tasks, u \in Tasks :
        t # u =>
            /\ serial => vhand[t].pc = "idle" \/ vhand[u].pc = "idle"
            /\ (auto \/ serial) /\ vhand[t].pc = "bind" /\ vhand[u].pc = "bind" => vhand[t].rec # vhand[u].rec

LEMMA InitTurns == Init => Turns
  BY DEF Init, Turns, Idle

\* Handlers end or go on, but none begins.
LEMMA TurnsGoOn ==
  ASSUME Turns, UNCHANGED setting,
         \A u \in Tasks : \/ vhand'[u] = vhand[u] \/ vhand'[u].pc = "idle"
                          \/ vhand[u].pc # "idle" /\ vhand'[u].pc # "bind"
  PROVE  Turns'
  BY DEF Turns, auto, serial

\* One begins: to bind a request, only in its turn or for a new record.
LEMMA TurnsBegin ==
  ASSUME Types, Turns, UNCHANGED setting, NEW t \in Tasks, Free(vhand, t),
         \A u \in Tasks \ {t} : vhand'[u] = vhand[u],
         vhand'[t].pc = "bind" => ~auto \/ vhand'[t].rec \notin DOMAIN vrecs
  PROVE  Turns'
<1> SUFFICES ASSUME NEW a \in Tasks, NEW b \in Tasks, a # b
             PROVE  /\ serial => vhand'[a].pc = "idle" \/ vhand'[b].pc = "idle"
                    /\ (auto \/ serial) /\ vhand'[a].pc = "bind" /\ vhand'[b].pc = "bind" => vhand'[a].rec # vhand'[b].rec
  BY DEF Turns, auto, serial
<1>1. ASSUME serial, NEW u \in Tasks, u # t PROVE vhand'[u].pc = "idle"
  BY <1>1 DEF Free
<1>2. ASSUME NEW u \in Tasks, u # t, vhand'[u].pc = "bind" PROVE vhand'[u].rec \in DOMAIN vrecs
  BY <1>2 DEF Types, VerifierHand, OnRecord
<1>3. CASE serial
  BY <1>1, <1>3
<1>4. CASE ~serial
  BY <1>2, <1>4 DEF Turns
<1> QED BY <1>3, <1>4

LEMMA UnchangedSetting == ASSUME [Next]_vars PROVE UNCHANGED setting
  BY DEF Next, vars, SendFreeRequest, SendProposal, ReceiveProposal, ReceivePresentation, ReceiveRequest, ReceiveAck,
     Lose, CreateBoundRequest, StorePresentation, Verify, StoreRequest, CreatePresentation, VerifierFails, ProverFails,
     SendBoundRequest, VerifyPresentation, SendPresentation, RemoveVerifiers, RemoveProvers, RestartVerifier, RestartProver

LEMMA NextTurns == ASSUME Types, Turns, [Next]_vars PROVE Turns'
<1>0. UNCHANGED setting
  BY UnchangedSetting
<1>1. CASE SendFreeRequest
  BY <1>0, <1>1, TurnsGoOn DEF SendFreeRequest
<1>2. ASSUME NEW t \in Tasks, NEW m \in msgs, ReceiveProposal(t, m) PROVE Turns'
  <2> DEFINE h == Handler("bind", Len(vrecs) + 1, Exchange(m.thread, "proposal_received", TRUE, 0), m)
  <2>1. CASE UNCHANGED vhand
    BY <1>0, <2>1, TurnsGoOn
  <2>2. CASE vhand' = [vhand EXCEPT ![t] = h]
    <3>1. h.rec = Len(vrecs) + 1 /\ Free(vhand, t)
      BY <1>2 DEF ReceiveProposal, Handler
    <3>2. Len(vrecs) + 1 \notin DOMAIN vrecs
      BY LenProperties DEF Types
    <3> HIDE DEF h
    <3>3. \A u \in Tasks : vhand'[u] = IF u = t THEN h ELSE vhand[u]
      BY <2>2, HandSet
    <3> QED BY <1>0, <3>1, <3>2, <3>3, TurnsBegin
  <2> QED BY <1>2, <2>1, <2>2 DEF ReceiveProposal
<1>3. ASSUME NEW t \in Tasks, NEW m \in msgs, ReceivePresentation(t, m) PROVE Turns'
  <2>1. CASE UNCHANGED vhand
    BY <1>0, <2>1, TurnsGoOn
  <2>2. ASSUME NEW r, vhand' = [vhand EXCEPT ![t] = Handler("store", r, vrecs[r], m)] PROVE Turns'
    <3> DEFINE h == Handler("store", r, vrecs[r], m)
    <3>1. h.pc = "store" /\ Free(vhand, t)
      BY <1>3 DEF ReceivePresentation, Handler
    <3>2. vhand' = [vhand EXCEPT ![t] = h]
      BY <2>2
    <3> HIDE DEF h
    <3>3. \A u \in Tasks : vhand'[u] = IF u = t THEN h ELSE vhand[u]
      BY <3>2, HandSet
    <3> QED BY <1>0, <3>1, <3>3, TurnsBegin
  <2> QED BY <1>3, <2>1, <2>2 DEF ReceivePresentation
<1>4. ASSUME NEW t \in Tasks, CreateBoundRequest(t) \/ Verify(t) PROVE Turns'
  <2>1. vhand' = [vhand EXCEPT ![t] = Idle]
    BY <1>4 DEF CreateBoundRequest, Verify
  <2> QED BY <1>0, <2>1, HandSet, TurnsGoOn DEF Idle
<1>5. ASSUME NEW t \in Tasks, StorePresentation(t) PROVE Turns'
  <2>1. vhand[t].pc = "store"
    BY <1>5 DEF StorePresentation
  <2>2. PICK h : vhand' = [vhand EXCEPT ![t] = h] /\ h.pc # "bind"
    <3> DEFINE g == Handler("verify", vhand[t].rec, [vhand[t].copy EXCEPT !.state = "presentation_received", !.proof = vhand[t].msg.proof], vhand[t].msg)
    <3>1. vhand' = [vhand EXCEPT ![t] = Idle] \/ vhand' = [vhand EXCEPT ![t] = g]
      BY <1>5 DEF StorePresentation
    <3>2. Idle.pc # "bind" /\ g.pc # "bind"
      BY DEF Idle, Handler
    <3> HIDE DEF g
    <3> QED BY <3>1, <3>2
  <2>3. \A u \in Tasks : vhand'[u] = IF u = t THEN h ELSE vhand[u]
    BY <2>2, HandSet
  <2> QED BY <1>0, <2>1, <2>2, <2>3, TurnsGoOn
<1>6. ASSUME NEW t \in Tasks, NEW r \in DOMAIN vrecs, SendBoundRequest(t, r) PROVE Turns'
  <2> DEFINE h == Handler("bind", r, vrecs[r], NoMessage)
  <2>1. vhand' = [vhand EXCEPT ![t] = h] /\ Free(vhand, t) /\ ~auto
    BY <1>6 DEF SendBoundRequest
  <2> HIDE DEF h
  <2>2. \A u \in Tasks : vhand'[u] = IF u = t THEN h ELSE vhand[u]
    BY <2>1, HandSet
  <2> QED BY <1>0, <2>1, <2>2, TurnsBegin
<1>7. ASSUME NEW t \in Tasks, NEW r \in DOMAIN vrecs, VerifyPresentation(t, r) PROVE Turns'
  <2> DEFINE h == Handler("verify", r, vrecs[r], NoMessage)
  <2>1. vhand' = [vhand EXCEPT ![t] = h] /\ Free(vhand, t) /\ h.pc = "verify"
    BY <1>7 DEF VerifyPresentation, Handler
  <2> HIDE DEF h
  <2>2. \A u \in Tasks : vhand'[u] = IF u = t THEN h ELSE vhand[u]
    BY <2>1, HandSet
  <2> QED BY <1>0, <2>1, <2>2, TurnsBegin
<1>8. ASSUME NEW r \in DOMAIN vrecs, RemoveVerifiers(r) PROVE Turns'
  BY <1>0, <1>8, TurnsGoOn DEF RemoveVerifiers
<1>9. CASE Aside
  BY <1>0, <1>9, TurnsGoOn DEF Aside, Idle
<1> QED BY <1>1, <1>2, <1>3, <1>4, <1>5, <1>6, <1>7, <1>8, <1>9, Asides DEF Next

-----------------------------------------------------------------------------
\* What is asked for, made and checked in a thread is one request: the one of the
\* verifier's record, if that record is the thread's only one.

Sole(recs, r) == \A q \in DOMAIN recs : recs[q].thread = recs[r].thread => q = r

Asked(recs, th, n) ==
    /\ n # 0
    /\ \E r \in DOMAIN recs : recs[r].thread = th /\ (Sole(recs, r) => recs[r].request = n)

MessageAnswers(m, recs) ==
    /\ m.kind = "request" => Asked(recs, m.thread, m.request)
    /\ m.kind = "presentation" => Asked(recs, m.thread, m.proof.request)

RecordAnswers(e, recs) ==
    /\ e.state = "proposal_received" => e.request = 0
    /\ e.state \in {"presentation_received", "verified"} => Asked(recs, e.thread, e.proof.request)

ToldAnswers(e, recs) == e.state = "request_received" => Asked(recs, e.thread, e.request)

VerifierAnswers(h, recs) ==
    /\ h.pc = "bind" /\ Sole(recs, h.rec) => recs[h.rec].request = 0
    /\ h.pc \in {"store", "verify"} /\ Sole(recs, h.rec) => h.copy.request = recs[h.rec].request
    /\ h.pc = "store" => Asked(recs, h.msg.thread, h.msg.proof.request)
    /\ h.pc = "verify" => Asked(recs, h.copy.thread, h.copy.proof.request)

ProverAnswers(h, recs) ==
    /\ h.pc = "store" => Asked(recs, h.msg.thread, h.msg.request)
    /\ h.pc = "present" => Asked(recs, h.copy.thread, h.copy.request)

Answers ==
    /\ \A m \in msgs : MessageAnswers(m, vrecs)
    /\ \A r \in DOMAIN vrecs : RecordAnswers(vrecs[r], vrecs)
    /\ \A r \in DOMAIN precs : ToldAnswers(precs[r], vrecs)
    /\ \A t \in Tasks : VerifierAnswers(vhand[t], vrecs) /\ ProverAnswers(phand[t], vrecs)

\* The only record of a thread keeps its request.
Stable(recs, recs2) ==
    \A r \in DOMAIN recs :
        /\ r \in DOMAIN recs2 /\ recs2[r].thread = recs[r].thread
        /\ Sole(recs2, r) /\ recs[r].request # 0 => recs2[r].request = recs[r].request

LEMMA SoleKept ==
  ASSUME NEW recs, NEW recs2, NEW r \in DOMAIN recs, Sole(recs2, r),
         \A q \in DOMAIN recs : q \in DOMAIN recs2 /\ recs2[q].thread = recs[q].thread
  PROVE  Sole(recs, r)
  BY DEF Sole

LEMMA AskedSole ==
  ASSUME NEW recs, NEW r \in DOMAIN recs, NEW n, Sole(recs, r), Asked(recs, recs[r].thread, n)
  PROVE  recs[r].request = n /\ n # 0
  BY DEF Sole, Asked

LEMMA AskedKept ==
  ASSUME NEW recs, NEW recs2, Stable(recs, recs2), NEW th, NEW n, Asked(recs, th, n)
  PROVE  Asked(recs2, th, n)
<1>1. PICK r \in DOMAIN recs : recs[r].thread = th /\ (Sole(recs, r) => recs[r].request = n)
  BY DEF Asked
<1>2. r \in DOMAIN recs2 /\ recs2[r].thread = th
  BY <1>1 DEF Stable
<1>3. ASSUME Sole(recs2, r) PROVE recs2[r].request = n
  <2>1. Sole(recs, r)
    BY <1>3, SoleKept DEF Stable
  <2> QED BY <1>1, <1>3, <2>1 DEF Stable, Asked
<1> QED BY <1>2, <1>3 DEF Asked

LEMMA IdleAnswers == \A recs : VerifierAnswers(Idle, recs) /\ ProverAnswers(Idle, recs)
  BY DEF VerifierAnswers, ProverAnswers, Idle

\* What a step has to show of what it writes.
LEMMA AnswersKept ==
  ASSUME Types, Answers, Stable(vrecs, vrecs'),
         \A m \in msgs' : m \in msgs \/ MessageAnswers(m, vrecs'),
         \A r \in DOMAIN vrecs' : (r \in DOMAIN vrecs /\ vrecs'[r] = vrecs[r]) \/ RecordAnswers(vrecs'[r], vrecs'),
         \A r \in DOMAIN precs' : (r \in DOMAIN precs /\ precs'[r] = precs[r]) \/ ToldAnswers(precs'[r], vrecs'),
         \A t \in Tasks :
            \/ /\ vhand'[t] = vhand[t]
               /\ vhand[t].pc = "bind" /\ Sole(vrecs', vhand[t].rec) =>
                     vrecs'[vhand[t].rec].request = vrecs[vhand[t].rec].request
            \/ VerifierAnswers(vhand'[t], vrecs'),
         \A t \in Tasks : phand'[t] = phand[t] \/ ProverAnswers(phand'[t], vrecs')
  PROVE  Answers'
<1>1. \A th, n : Asked(vrecs, th, n) => Asked(vrecs', th, n)
  BY AskedKept
<1>2. \A m \in msgs' : MessageAnswers(m, vrecs')
  BY <1>1 DEF Answers, MessageAnswers
<1>3. \A r \in DOMAIN vrecs' : RecordAnswers(vrecs'[r], vrecs')
  BY <1>1 DEF Answers, RecordAnswers
<1>4. \A r \in DOMAIN precs' : ToldAnswers(precs'[r], vrecs')
  BY <1>1 DEF Answers, ToldAnswers
<1>5. \A t \in Tasks : ProverAnswers(phand'[t], vrecs')
  BY <1>1 DEF Answers, ProverAnswers
<1>6. \A t \in Tasks : VerifierAnswers(vhand'[t], vrecs')
  <2> SUFFICES ASSUME NEW t \in Tasks, vhand'[t] = vhand[t],
                      vhand[t].pc = "bind" /\ Sole(vrecs', vhand[t].rec) =>
                          vrecs'[vhand[t].rec].request = vrecs[vhand[t].rec].request
               PROVE  VerifierAnswers(vhand[t], vrecs')
    OBVIOUS
  <2> DEFINE h == vhand[t]
  <2>1. VerifierAnswers(h, vrecs)
    BY DEF Answers
  <2>2. h.pc # "idle" => h.rec \in DOMAIN vrecs /\ h.copy.thread = vrecs[h.rec].thread
    BY DEF Types, VerifierHand, OnRecord
  <2>3. h.pc = "store" => h.msg.thread = h.copy.thread
    BY DEF Types, VerifierHand
  <2>4. h.pc = "bind" /\ Sole(vrecs', h.rec) => vrecs'[h.rec].request = vrecs[h.rec].request
    OBVIOUS
  <2> HIDE DEF h
  <2>5. h.pc # "idle" /\ Sole(vrecs', h.rec) => Sole(vrecs, h.rec)
    BY <2>2, SoleKept DEF Stable
  <2>6. h.pc = "bind" /\ Sole(vrecs', h.rec) => vrecs'[h.rec].request = 0
    BY <2>1, <2>4, <2>5 DEF VerifierAnswers
  <2>7. ASSUME h.pc \in {"store", "verify"}, Sole(vrecs', h.rec) PROVE h.copy.request = vrecs'[h.rec].request
    <3>1. h.rec \in DOMAIN vrecs /\ Sole(vrecs, h.rec) /\ h.copy.request = vrecs[h.rec].request
      BY <2>1, <2>2, <2>5, <2>7 DEF VerifierAnswers
    <3>2. \E n : Asked(vrecs, vrecs[h.rec].thread, n)
      BY <2>1, <2>2, <2>3, <2>7 DEF VerifierAnswers
    <3>3. vrecs[h.rec].request # 0
      BY <3>1, <3>2, AskedSole
    <3> QED BY <2>7, <3>1, <3>3 DEF Stable
  <2>8. VerifierAnswers(h, vrecs')
    BY <1>1, <2>1, <2>6, <2>7 DEF VerifierAnswers
  <2> QED BY <2>8 DEF h
<1> QED BY <1>2, <1>3, <1>4, <1>5, <1>6 DEF Answers

LEMMA InitAnswers == Init => Answers
  BY IdleAnswers DEF Init, Answers

\* A record is added, or written over with the request it had.
LEMMA AppendStable ==
  ASSUME Types, NEW e, vrecs' = Append(vrecs, e)
  PROVE  Stable(vrecs, vrecs')
  BY Appended DEF Stable

LEMMA SameStable ==
  ASSUME UNCHANGED vrecs
  PROVE  Stable(vrecs, vrecs')
  BY DEF Stable

LEMMA WriteStable ==
  ASSUME NEW r \in DOMAIN vrecs, NEW e, vrecs' = [vrecs EXCEPT ![r] = e], e.thread = vrecs[r].thread,
         Sole(vrecs, r) => e.request = vrecs[r].request
  PROVE  /\ Stable(vrecs, vrecs')
         /\ \A q \in DOMAIN vrecs : Sole(vrecs', q) => vrecs'[q].request = vrecs[q].request
<1>1. \A q \in DOMAIN vrecs : q \in DOMAIN vrecs' /\ vrecs'[q].thread = vrecs[q].thread
  BY Overwritten
<1>2. \A q \in DOMAIN vrecs : Sole(vrecs', q) => vrecs'[q].request = vrecs[q].request
  BY <1>1, Overwritten, SoleKept
<1> QED BY <1>1, <1>2 DEF Stable

\* Steps that keep the verifier's records as they are.
LEMMA AnswersAside ==
  ASSUME Types, Answers, UNCHANGED vrecs,
         \A m \in msgs' : m \in msgs \/ MessageAnswers(m, vrecs),
         \A r \in DOMAIN precs' : (r \in DOMAIN precs /\ precs'[r] = precs[r]) \/ ToldAnswers(precs'[r], vrecs),
         \A t \in Tasks : vhand'[t] = vhand[t] \/ VerifierAnswers(vhand'[t], vrecs),
         \A t \in Tasks : phand'[t] = phand[t] \/ ProverAnswers(phand'[t], vrecs)
  PROVE  Answers'
<1>1. Stable(vrecs, vrecs')
  BY SameStable
<1> QED BY <1>1, AnswersKept

\* Those that also leave the prover's handlers and records alone.
LEMMA VerifierAside ==
  ASSUME Types, Answers, UNCHANGED <<vrecs, precs, phand>>,
         \A m \in msgs' : m \in msgs,
         \A t \in Tasks : vhand'[t] = vhand[t] \/ VerifierAnswers(vhand'[t], vrecs)
  PROVE  Answers'
  BY AnswersAside

LEMMA SendFreeRequestAnswers == ASSUME Types, Answers, SendFreeRequest PROVE Answers'
<1> DEFINE e == Exchange(threads', "request_sent", FALSE, nonces')
           m == Message("request", threads', nonces', NoProof)
<1>1. vrecs' = Append(vrecs, e) /\ msgs' = msgs \cup {m} /\ UNCHANGED <<vhand, precs, phand>>
  BY DEF SendFreeRequest, prover
<1>2. e.thread = threads' /\ e.request = nonces' /\ e.state = "request_sent" /\ nonces' # 0
  BY DEF SendFreeRequest, Exchange, Types
<1>3. m.kind = "request" /\ m.thread = threads' /\ m.request = nonces'
  BY DEF Message
<1> HIDE DEF e, m
<1>4. Stable(vrecs, vrecs')
  BY <1>1, AppendStable
<1>5. /\ Len(vrecs) + 1 \in DOMAIN vrecs' /\ vrecs'[Len(vrecs) + 1] = e
      /\ \A q \in DOMAIN vrecs' : (q \in DOMAIN vrecs /\ vrecs'[q] = vrecs[q]) \/ vrecs'[q] = e
      /\ \A q \in DOMAIN vrecs : vrecs'[q] = vrecs[q]
  BY <1>1, Appended
<1>6. MessageAnswers(m, vrecs')
  BY <1>2, <1>3, <1>5 DEF MessageAnswers, Asked
<1>7. RecordAnswers(e, vrecs')
  BY <1>2 DEF RecordAnswers
<1>8. \A t \in Tasks : vhand[t].pc = "bind" => vhand[t].rec \in DOMAIN vrecs
  BY DEF Types, VerifierHand, OnRecord
<1> QED BY <1>1, <1>4, <1>5, <1>6, <1>7, <1>8, AnswersKept

LEMMA ReceiveProposalAnswers ==
  ASSUME Types, Answers, NEW t \in Tasks, NEW m, ReceiveProposal(t, m) PROVE Answers'
<1> DEFINE e == Exchange(m.thread, "proposal_received", TRUE, 0)
           h == Handler("bind", Len(vrecs) + 1, e, m)
<1>1. /\ vrecs' = Append(vrecs, e) /\ msgs' \subseteq msgs /\ UNCHANGED <<precs, phand>>
      /\ UNCHANGED vhand \/ vhand' = [vhand EXCEPT ![t] = h]
  BY DeliveredFacts DEF ReceiveProposal, prover
<1>2. e.request = 0 /\ e.state = "proposal_received" /\ h.pc = "bind" /\ h.rec = Len(vrecs) + 1
  BY DEF Exchange, Handler
<1> HIDE DEF e, h
<1>3. Stable(vrecs, vrecs')
  BY <1>1, AppendStable
<1>4. /\ vrecs'[Len(vrecs) + 1] = e
      /\ \A q \in DOMAIN vrecs' : (q \in DOMAIN vrecs /\ vrecs'[q] = vrecs[q]) \/ vrecs'[q] = e
      /\ \A q \in DOMAIN vrecs : vrecs'[q] = vrecs[q]
  BY <1>1, Appended
<1>5. RecordAnswers(e, vrecs') /\ VerifierAnswers(h, vrecs')
  BY <1>2, <1>4 DEF RecordAnswers, VerifierAnswers
<1>6. \A u \in Tasks : vhand[u].pc = "bind" => vhand[u].rec \in DOMAIN vrecs
  BY DEF Types, VerifierHand, OnRecord
<1>7. \A u \in Tasks : vhand'[u] = vhand[u] \/ vhand'[u] = h
  BY <1>1, HandSet
<1> QED BY <1>1, <1>3, <1>4, <1>5, <1>6, <1>7, AnswersKept

LEMMA StartAnswers ==
  ASSUME Types, Answers, NEW t \in Tasks, NEW r \in DOMAIN vrecs, SendBoundRequest(t, r) \/ VerifyPresentation(t, r)
  PROVE  Answers'
<1>1. UNCHANGED <<vrecs, precs, phand, msgs>>
  BY DEF SendBoundRequest, VerifyPresentation, prover
<1>2. RecordAnswers(vrecs[r], vrecs)
  BY DEF Answers
<1>3. CASE SendBoundRequest(t, r)
  <2> DEFINE h == Handler("bind", r, vrecs[r], NoMessage)
  <2>1. vhand' = [vhand EXCEPT ![t] = h] /\ h.pc = "bind" /\ h.rec = r /\ vrecs[r].state = "proposal_received"
    BY <1>3 DEF SendBoundRequest, Handler
  <2> HIDE DEF h
  <2>2. VerifierAnswers(h, vrecs)
    BY <1>2, <2>1 DEF VerifierAnswers, RecordAnswers
  <2> QED BY <1>1, <2>1, <2>2, HandSet, VerifierAside
<1>4. CASE VerifyPresentation(t, r)
  <2> DEFINE h == Handler("verify", r, vrecs[r], NoMessage)
  <2>1. /\ vhand' = [vhand EXCEPT ![t] = h] /\ h.pc = "verify" /\ h.rec = r /\ h.copy = vrecs[r]
        /\ vrecs[r].state = "presentation_received"
    BY <1>4 DEF VerifyPresentation, Handler
  <2> HIDE DEF h
  <2>2. VerifierAnswers(h, vrecs)
    BY <1>2, <2>1 DEF VerifierAnswers, RecordAnswers
  <2> QED BY <1>1, <2>1, <2>2, HandSet, VerifierAside
<1> QED BY <1>3, <1>4

\* The request a handler binds is the first of its record.
LEMMA CreateBoundRequestAnswers ==
  ASSUME Types, Turns, auto \/ serial, Answers, NEW t \in Tasks, CreateBoundRequest(t) PROVE Answers'
<1> DEFINE h == vhand[t]
           e == [h.copy EXCEPT !.state = "request_sent", !.request = nonces']
           m == Message("request", h.copy.thread, nonces', NoProof)
<1>1. /\ UNCHANGED <<precs, phand>> /\ vhand' = [vhand EXCEPT ![t] = Idle]
      /\ \/ UNCHANGED <<vrecs, msgs>>
         \/ vrecs' = [vrecs EXCEPT ![h.rec] = e] /\ msgs' = msgs \cup {m} /\ nonces' = nonces + 1
  BY DEF CreateBoundRequest, prover
<1>2. \A u \in Tasks : vhand'[u] = IF u = t THEN Idle ELSE vhand[u]
  BY <1>1, HandSet
<1>3. CASE UNCHANGED <<vrecs, msgs>>
  BY <1>1, <1>2, <1>3, IdleAnswers, VerifierAside
<1>4. CASE vrecs' = [vrecs EXCEPT ![h.rec] = e] /\ msgs' = msgs \cup {m} /\ nonces' = nonces + 1
  <2>1. h.pc = "bind" /\ h.copy \in ExchangesOf(threads, nonces) /\ h.rec \in DOMAIN vrecs /\ h.copy.thread = vrecs[h.rec].thread
    BY DEF CreateBoundRequest, Types, VerifierHand, HandlersOf, OnRecord
  <2>2. Sole(vrecs, h.rec) => vrecs[h.rec].request = 0
    BY <2>1 DEF Answers, VerifierAnswers
  <2>3. \A u \in Tasks : u # t /\ vhand[u].pc = "bind" => vhand[u].rec # h.rec /\ vhand[u].rec \in DOMAIN vrecs
    BY <2>1 DEF Turns, Types, VerifierHand, OnRecord
  <2>4. m.kind = "request" /\ m.thread = h.copy.thread /\ m.request = nonces' /\ nonces' # 0
    BY <1>4 DEF Message, Types
  <2> HIDE DEF h, m
  <2>5. e.thread = vrecs[h.rec].thread /\ e.state = "request_sent" /\ e.request = nonces'
    BY <2>1 DEF ExchangesOf
  <2> HIDE DEF e
  <2>6. DOMAIN vrecs' = DOMAIN vrecs /\ \A q \in DOMAIN vrecs : vrecs'[q] = IF q = h.rec THEN e ELSE vrecs[q]
    BY <1>4, Overwritten
  <2>7. \A q \in DOMAIN vrecs : q \in DOMAIN vrecs' /\ vrecs'[q].thread = vrecs[q].thread
    BY <2>5, <2>6
  <2>8. Stable(vrecs, vrecs')
    BY <2>2, <2>6, <2>7, SoleKept DEF Stable
  <2>9. RecordAnswers(e, vrecs')
    BY <2>5 DEF RecordAnswers
  <2>10. MessageAnswers(m, vrecs')
    BY <2>1, <2>4, <2>5, <2>6 DEF MessageAnswers, Asked
  <2>11. \A u \in Tasks :
            \/ /\ vhand'[u] = vhand[u]
               /\ vhand[u].pc = "bind" /\ Sole(vrecs', vhand[u].rec) =>
                     vrecs'[vhand[u].rec].request = vrecs[vhand[u].rec].request
            \/ VerifierAnswers(vhand'[u], vrecs')
    BY <1>2, <2>3, <2>6, IdleAnswers
  <2> QED BY <1>1, <1>4, <2>6, <2>8, <2>9, <2>10, <2>11, AnswersKept
<1> QED BY <1>1, <1>3, <1>4

LEMMA ReceivePresentationAnswers ==
  ASSUME Types, Answers, NEW t \in Tasks, NEW m, ReceivePresentation(t, m) PROVE Answers'
<1>1. /\ UNCHANGED <<vrecs, precs, phand>> /\ msgs' \subseteq msgs /\ m \in msgs /\ m.kind = "presentation"
  BY DeliveredFacts DEF ReceivePresentation, prover
<1>2. CASE UNCHANGED vhand
  BY <1>1, <1>2, VerifierAside
<1>3. ASSUME NEW r, vhand' = [vhand EXCEPT ![t] = Handler("store", r, vrecs[r], m)] PROVE Answers'
  <2> DEFINE h == Handler("store", r, vrecs[r], m)
  <2>1. vhand' = [vhand EXCEPT ![t] = h] /\ h.pc = "store" /\ h.rec = r /\ h.copy = vrecs[r] /\ h.msg = m
    BY <1>3 DEF Handler
  <2> HIDE DEF h
  <2>2. VerifierAnswers(h, vrecs)
    BY <1>1, <2>1 DEF VerifierAnswers, Answers, MessageAnswers
  <2> QED BY <1>1, <2>1, <2>2, HandSet, VerifierAside
<1> QED BY <1>2, <1>3 DEF ReceivePresentation

LEMMA StorePresentationAnswers ==
  ASSUME Types, Answers, NEW t \in Tasks, StorePresentation(t) PROVE Answers'
<1> DEFINE h == vhand[t]
           e == [h.copy EXCEPT !.state = "presentation_received", !.proof = h.msg.proof]
           g == Handler("verify", h.rec, e, h.msg)
<1>1. /\ UNCHANGED <<precs, phand, msgs>>
      /\ \/ vhand' = [vhand EXCEPT ![t] = Idle] /\ UNCHANGED vrecs
         \/ /\ vrecs' = [vrecs EXCEPT ![h.rec] = e]
            /\ vhand' = [vhand EXCEPT ![t] = Idle] \/ vhand' = [vhand EXCEPT ![t] = g]
  BY DEF StorePresentation, prover
<1>2. CASE vhand' = [vhand EXCEPT ![t] = Idle] /\ UNCHANGED vrecs
  BY <1>1, <1>2, HandSet, IdleAnswers, VerifierAside
<1>3. CASE /\ vrecs' = [vrecs EXCEPT ![h.rec] = e]
           /\ vhand' = [vhand EXCEPT ![t] = Idle] \/ vhand' = [vhand EXCEPT ![t] = g]
  <2>1. /\ h.pc = "store" /\ h.copy \in ExchangesOf(threads, nonces) /\ h.rec \in DOMAIN vrecs
        /\ h.copy.thread = vrecs[h.rec].thread /\ h.msg.thread = h.copy.thread
    BY DEF StorePresentation, Types, VerifierHand, HandlersOf, OnRecord
  <2>2. VerifierAnswers(h, vrecs)
    BY DEF Answers
  <2>3. \A u \in Tasks : vhand[u].pc = "bind" => vhand[u].rec \in DOMAIN vrecs
    BY DEF Types, VerifierHand, OnRecord
  <2> HIDE DEF h
  <2>4. /\ e.thread = h.copy.thread /\ e.state = "presentation_received" /\ e.request = h.copy.request
        /\ e.proof = h.msg.proof
    BY <2>1 DEF ExchangesOf
  <2>5. g.pc = "verify" /\ g.rec = h.rec /\ g.copy = e
    BY DEF Handler
  <2> HIDE DEF e, g
  <2>6. Stable(vrecs, vrecs') /\ \A q \in DOMAIN vrecs : Sole(vrecs', q) => vrecs'[q].request = vrecs[q].request
    <3>1. e.thread = vrecs[h.rec].thread /\ (Sole(vrecs, h.rec) => e.request = vrecs[h.rec].request)
      BY <2>1, <2>2, <2>4 DEF VerifierAnswers
    <3> QED BY <1>3, <2>1, <3>1, WriteStable
  <2>7. DOMAIN vrecs' = DOMAIN vrecs /\ \A q \in DOMAIN vrecs : vrecs'[q] = IF q = h.rec THEN e ELSE vrecs[q]
    BY <1>3, Overwritten
  <2>8. Asked(vrecs', e.thread, e.proof.request)
    BY <2>1, <2>2, <2>4, <2>6, AskedKept DEF VerifierAnswers
  <2>9. RecordAnswers(e, vrecs') /\ VerifierAnswers(g, vrecs')
    BY <2>1, <2>4, <2>5, <2>7, <2>8 DEF RecordAnswers, VerifierAnswers
  <2>10. \A u \in Tasks : vhand'[u] = vhand[u] \/ vhand'[u] = Idle \/ vhand'[u] = g
    BY <1>3, HandSet
  <2>11. \A u \in Tasks :
            \/ /\ vhand'[u] = vhand[u]
               /\ vhand[u].pc = "bind" /\ Sole(vrecs', vhand[u].rec) =>
                     vrecs'[vhand[u].rec].request = vrecs[vhand[u].rec].request
            \/ VerifierAnswers(vhand'[u], vrecs')
    BY <2>3, <2>6, <2>9, <2>10, IdleAnswers
  <2> QED BY <1>1, <2>6, <2>7, <2>9, <2>11, AnswersKept
<1> QED BY <1>1, <1>2, <1>3

LEMMA VerifyAnswers ==
  ASSUME Types, Answers, NEW t \in Tasks, Verify(t) PROVE Answers'
<1> DEFINE h == vhand[t]
           v == Verdict(h.copy.request, h.copy.proof)
           e == [h.copy EXCEPT !.state = "verified", !.verified = v]
           m == Message("ack", h.copy.thread, 0, NoProof)
<1>1. /\ UNCHANGED <<precs, phand>> /\ vhand' = [vhand EXCEPT ![t] = Idle]
      /\ \/ UNCHANGED <<vrecs, msgs>>
         \/ vrecs' = [vrecs EXCEPT ![h.rec] = e] /\ msgs' = msgs \cup {m}
  BY DEF Verify, prover
<1>2. \A u \in Tasks : vhand'[u] = vhand[u] \/ vhand'[u] = Idle
  BY <1>1, HandSet
<1>3. CASE UNCHANGED <<vrecs, msgs>>
  BY <1>1, <1>2, <1>3, IdleAnswers, VerifierAside
<1>4. CASE vrecs' = [vrecs EXCEPT ![h.rec] = e] /\ msgs' = msgs \cup {m}
  <2>1. h.pc = "verify" /\ h.copy \in ExchangesOf(threads, nonces) /\ h.rec \in DOMAIN vrecs /\ h.copy.thread = vrecs[h.rec].thread
    BY DEF Verify, Types, VerifierHand, HandlersOf, OnRecord
  <2>2. VerifierAnswers(h, vrecs)
    BY DEF Answers
  <2>3. \A u \in Tasks : vhand[u].pc = "bind" => vhand[u].rec \in DOMAIN vrecs
    BY DEF Types, VerifierHand, OnRecord
  <2>4. m.kind = "ack"
    BY DEF Message
  <2> HIDE DEF h, m, v
  <2>5. /\ e.thread = h.copy.thread /\ e.state = "verified" /\ e.request = h.copy.request /\ e.proof = h.copy.proof
    BY <2>1 DEF ExchangesOf
  <2> HIDE DEF e
  <2>6. Stable(vrecs, vrecs') /\ \A q \in DOMAIN vrecs : Sole(vrecs', q) => vrecs'[q].request = vrecs[q].request
    <3>1. e.thread = vrecs[h.rec].thread /\ (Sole(vrecs, h.rec) => e.request = vrecs[h.rec].request)
      BY <2>1, <2>2, <2>5 DEF VerifierAnswers
    <3> QED BY <1>4, <2>1, <3>1, WriteStable
  <2>7. DOMAIN vrecs' = DOMAIN vrecs /\ \A q \in DOMAIN vrecs : vrecs'[q] = IF q = h.rec THEN e ELSE vrecs[q]
    BY <1>4, Overwritten
  <2>8. Asked(vrecs', e.thread, e.proof.request)
    BY <2>1, <2>2, <2>5, <2>6, AskedKept DEF VerifierAnswers
  <2>9. RecordAnswers(e, vrecs') /\ MessageAnswers(m, vrecs')
    BY <2>4, <2>5, <2>8 DEF RecordAnswers, MessageAnswers
  <2>10. \A u \in Tasks :
            \/ /\ vhand'[u] = vhand[u]
               /\ vhand[u].pc = "bind" /\ Sole(vrecs', vhand[u].rec) =>
                     vrecs'[vhand[u].rec].request = vrecs[vhand[u].rec].request
            \/ VerifierAnswers(vhand'[u], vrecs')
    BY <1>2, <2>3, <2>6, IdleAnswers
  <2> QED BY <1>1, <1>4, <2>6, <2>7, <2>9, <2>10, AnswersKept
<1> QED BY <1>1, <1>3, <1>4

LEMMA RemoveVerifiersAnswers ==
  ASSUME Types, Answers, NEW r \in DOMAIN vrecs, RemoveVerifiers(r) PROVE Answers'
<1> DEFINE e == [vrecs[r] EXCEPT !.state = "removed"]
<1>1. vrecs' = [vrecs EXCEPT ![r] = e] /\ UNCHANGED <<vhand, precs, phand, msgs>>
  BY DEF RemoveVerifiers, RemoveFrom, prover
<1>2. e.state = "removed" /\ e.thread = vrecs[r].thread /\ e.request = vrecs[r].request
  <2>1. vrecs[r] \in ExchangesOf(threads, nonces)
    BY LenProperties DEF Types
  <2> QED BY <2>1 DEF ExchangesOf
<1> HIDE DEF e
<1>3. DOMAIN vrecs' = DOMAIN vrecs /\ \A q \in DOMAIN vrecs : vrecs'[q] = IF q = r THEN e ELSE vrecs[q]
  BY <1>1, Overwritten
<1>4. Stable(vrecs, vrecs') /\ \A q \in DOMAIN vrecs : Sole(vrecs', q) => vrecs'[q].request = vrecs[q].request
  BY <1>1, <1>2, WriteStable
<1>5. RecordAnswers(e, vrecs')
  BY <1>2 DEF RecordAnswers
<1>6. \A u \in Tasks : vhand[u].pc = "bind" => vhand[u].rec \in DOMAIN vrecs
  BY DEF Types, VerifierHand, OnRecord
<1> QED BY <1>1, <1>3, <1>4, <1>5, <1>6, AnswersKept

\* The prover's steps: what it writes answers what it was told.
LEMMA ProverAside ==
  ASSUME Types, Answers, UNCHANGED <<vrecs, vhand>>,
         \A m \in msgs' : m \in msgs \/ MessageAnswers(m, vrecs),
         \A r \in DOMAIN precs' : (r \in DOMAIN precs /\ precs'[r] = precs[r]) \/ ToldAnswers(precs'[r], vrecs),
         \A t \in Tasks : phand'[t] = phand[t] \/ ProverAnswers(phand'[t], vrecs)
  PROVE  Answers'
  BY AnswersAside

LEMMA ProverSet ==
  ASSUME Types, NEW t \in Tasks, NEW h, phand' = [phand EXCEPT ![t] = h]
  PROVE  \A u \in Tasks : phand'[u] = phand[u] \/ phand'[u] = h
  BY DEF Types

LEMMA ProverAppended ==
  ASSUME Types, NEW e, precs' = Append(precs, e)
  PROVE  \A q \in DOMAIN precs' : (q \in DOMAIN precs /\ precs'[q] = precs[q]) \/ precs'[q] = e
<1> DEFINE S == ExchangesOf(threads, nonces) \cup {e}
<1>1. precs \in Seq(S) /\ e \in S
  BY DEF Types
<1> HIDE DEF S
<1> QED BY <1>1, Adding

LEMMA SendProposalAnswers == ASSUME Types, Answers, SendProposal PROVE Answers'
<1> DEFINE e == Exchange(threads', "proposal_sent", TRUE, 0)
           m == Message("proposal", threads', 0, NoProof)
<1>1. precs' = Append(precs, e) /\ msgs' = msgs \cup {m} /\ UNCHANGED <<vrecs, vhand, phand>>
  BY DEF SendProposal, verifier
<1>2. ToldAnswers(e, vrecs) /\ MessageAnswers(m, vrecs)
  BY DEF ToldAnswers, MessageAnswers, Exchange, Message
<1> HIDE DEF e, m
<1> QED BY <1>1, <1>2, ProverAppended, ProverAside

LEMMA ReceiveRequestAnswers ==
  ASSUME Types, Answers, NEW t \in Tasks, NEW m, ReceiveRequest(t, m) PROVE Answers'
<1>1. /\ UNCHANGED <<vrecs, vhand, precs>> /\ msgs' \subseteq msgs /\ m \in msgs /\ m.kind = "request"
  BY DeliveredFacts DEF ReceiveRequest, verifier
<1>2. CASE UNCHANGED phand
  BY <1>1, <1>2, ProverAside
<1>3. ASSUME NEW r, NEW copy, phand' = [phand EXCEPT ![t] = Handler("store", r, copy, m)] PROVE Answers'
  <2> DEFINE h == Handler("store", r, copy, m)
  <2>1. phand' = [phand EXCEPT ![t] = h] /\ h.pc = "store" /\ h.msg = m
    BY <1>3 DEF Handler
  <2> HIDE DEF h
  <2>2. ProverAnswers(h, vrecs)
    BY <1>1, <2>1 DEF ProverAnswers, Answers, MessageAnswers
  <2> QED BY <1>1, <2>1, <2>2, ProverSet, ProverAside
<1> QED BY <1>2, <1>3 DEF ReceiveRequest

LEMMA StoreRequestAnswers ==
  ASSUME Types, Answers, NEW t \in Tasks, StoreRequest(t) PROVE Answers'
<1> DEFINE h == phand[t]
           e == [h.copy EXCEPT !.state = "request_received", !.request = h.msg.request]
           r == IF h.rec = 0 THEN Len(precs) + 1 ELSE h.rec
           g == Handler("present", r, e, h.msg)
<1>1. /\ UNCHANGED <<vrecs, vhand, msgs>>
      /\ precs' = precs \/ precs' = Append(precs, e) \/ precs' = [precs EXCEPT ![r] = e]
      /\ phand' = [phand EXCEPT ![t] = Idle] \/ phand' = [phand EXCEPT ![t] = g]
  BY DEF StoreRequest, verifier
<1>2. h.pc = "store" /\ h.copy \in ExchangesOf(threads, nonces) /\ h.msg.thread = h.copy.thread
  BY DEF StoreRequest, Types, ProverHand, HandlersOf
<1>3. Asked(vrecs, h.msg.thread, h.msg.request)
  BY <1>2 DEF Answers, ProverAnswers
<1> HIDE DEF h, r
<1>4. e.thread = h.copy.thread /\ e.request = h.msg.request
  BY <1>2 DEF ExchangesOf
<1>5. g.pc = "present" /\ g.copy = e
  BY DEF Handler
<1> HIDE DEF e, g
<1>6. ToldAnswers(e, vrecs) /\ ProverAnswers(g, vrecs)
  BY <1>2, <1>3, <1>4, <1>5 DEF ToldAnswers, ProverAnswers
<1>7. \A q \in DOMAIN precs' : (q \in DOMAIN precs /\ precs'[q] = precs[q]) \/ precs'[q] = e
  BY <1>1, ProverAppended
<1>8. \A u \in Tasks : phand'[u] = phand[u] \/ phand'[u] = Idle \/ phand'[u] = g
  BY <1>1, ProverSet
<1> QED BY <1>1, <1>6, <1>7, <1>8, IdleAnswers, ProverAside

LEMMA SendPresentationAnswers ==
  ASSUME Types, Answers, NEW t \in Tasks, NEW r \in DOMAIN precs, SendPresentation(t, r) PROVE Answers'
<1> DEFINE h == Handler("present", r, precs[r], NoMessage)
<1>1. /\ UNCHANGED <<vrecs, vhand, precs, msgs>> /\ precs[r].state = "request_received"
      /\ phand' = [phand EXCEPT ![t] = h]
  BY DEF SendPresentation, verifier
<1>2. h.pc = "present" /\ h.copy = precs[r]
  BY DEF Handler
<1> HIDE DEF h
<1>3. ProverAnswers(h, vrecs)
  BY <1>1, <1>2 DEF ProverAnswers, Answers, ToldAnswers
<1> QED BY <1>1, <1>3, ProverSet, ProverAside

LEMMA CreatePresentationAnswers ==
  ASSUME Types, Answers, NEW t \in Tasks, CreatePresentation(t) PROVE Answers'
<1> DEFINE h == phand[t]
<1>1. UNCHANGED <<vrecs, vhand>> /\ phand' = [phand EXCEPT ![t] = Idle]
  BY DEF CreatePresentation, verifier
<1>2. h.copy \in ExchangesOf(threads, nonces) /\ Asked(vrecs, h.copy.thread, h.copy.request)
  BY DEF CreatePresentation, Types, ProverHand, HandlersOf, Answers, ProverAnswers
<1>3. CASE UNCHANGED <<precs, msgs, faults>>
  BY <1>1, <1>3, ProverSet, IdleAnswers, ProverAside
<1>4. ASSUME NEW valid, NEW fits, NEW proof,
             proof = [request |-> h.copy.request, valid |-> valid, fits |-> fits],
             precs' = [precs EXCEPT ![h.rec] = [h.copy EXCEPT !.state = "presentation_sent", !.proof = proof]],
             msgs' = msgs \cup {Message("presentation", h.copy.thread, 0, proof)}
      PROVE  Answers'
  <2> DEFINE e == [h.copy EXCEPT !.state = "presentation_sent", !.proof = proof]
             m == Message("presentation", h.copy.thread, 0, proof)
  <2>1. MessageAnswers(m, vrecs)
    BY <1>2, <1>4 DEF MessageAnswers, Message
  <2>2. precs' = [precs EXCEPT ![h.rec] = e] /\ msgs' = msgs \cup {m}
    BY <1>4
  <2> HIDE DEF h, m
  <2>3. e.state = "presentation_sent"
    BY <1>2 DEF ExchangesOf
  <2> HIDE DEF e
  <2>4. ToldAnswers(e, vrecs)
    BY <2>3 DEF ToldAnswers
  <2>5. \A q \in DOMAIN precs' : (q \in DOMAIN precs /\ precs'[q] = precs[q]) \/ precs'[q] = e
    BY <2>2
  <2> QED BY <1>1, <2>1, <2>2, <2>4, <2>5, ProverSet, IdleAnswers, ProverAside
<1> QED BY <1>3, <1>4 DEF CreatePresentation

LEMMA ReceiveAckAnswers ==
  ASSUME Types, Answers, NEW m, ReceiveAck(m) PROVE Answers'
<1>1. UNCHANGED <<vrecs, vhand, phand>> /\ msgs' \subseteq msgs /\ DOMAIN precs' = DOMAIN precs
  BY DeliveredFacts DEF ReceiveAck, verifier
<1>2. ASSUME NEW r \in DOMAIN precs' PROVE precs'[r] = precs[r] \/ ToldAnswers(precs'[r], vrecs)
  <2>1. precs'[r] = precs[r] \/ precs'[r] = [precs[r] EXCEPT !.state = "presentation_acked"]
    BY <1>1, <1>2 DEF ReceiveAck
  <2>2. precs[r] \in ExchangesOf(threads, nonces)
    BY <1>1, <1>2, LenProperties DEF Types
  <2>3. [precs[r] EXCEPT !.state = "presentation_acked"].state = "presentation_acked"
    BY <2>2 DEF ExchangesOf
  <2> QED BY <2>1, <2>3 DEF ToldAnswers
<1> QED BY <1>1, <1>2, ProverAside

LEMMA RemoveProversAnswers ==
  ASSUME Types, Answers, NEW r \in DOMAIN precs, RemoveProvers(r) PROVE Answers'
<1> DEFINE e == [precs[r] EXCEPT !.state = "removed"]
<1>1. precs' = [precs EXCEPT ![r] = e] /\ UNCHANGED <<vrecs, vhand, phand, msgs>>
  BY DEF RemoveProvers, RemoveFrom, verifier
<1>2. e.state = "removed"
  <2>1. precs[r] \in ExchangesOf(threads, nonces)
    BY LenProperties DEF Types
  <2> QED BY <2>1 DEF ExchangesOf
<1> HIDE DEF e
<1>3. ToldAnswers(e, vrecs)
  BY <1>2 DEF ToldAnswers
<1> QED BY <1>1, <1>3, ProverAside

LEMMA EndedAnswers ==
  ASSUME Types, Answers, UNCHANGED <<vrecs, precs>>, msgs' \subseteq msgs,
         \A t \in Tasks : vhand'[t] = vhand[t] \/ vhand'[t] = Idle,
         \A t \in Tasks : phand'[t] = phand[t] \/ phand'[t] = Idle
  PROVE  Answers'
  BY IdleAnswers, AnswersAside

LEMMA NextAnswers ==
  ASSUME Types, Turns, auto \/ serial, Answers, [Next]_vars PROVE Answers'
<1>1. CASE SendFreeRequest \/ SendProposal
  BY <1>1, SendFreeRequestAnswers, SendProposalAnswers
<1>2. ASSUME NEW t \in Tasks, NEW m \in msgs,
             ReceiveProposal(t, m) \/ ReceivePresentation(t, m) \/ ReceiveRequest(t, m)
      PROVE  Answers'
  BY <1>2, ReceiveProposalAnswers, ReceivePresentationAnswers, ReceiveRequestAnswers
<1>3. ASSUME NEW m \in msgs, ReceiveAck(m) PROVE Answers'
  BY <1>3, ReceiveAckAnswers
<1>4. ASSUME NEW m \in msgs, Lose(m) PROVE Answers'
  BY <1>4, EndedAnswers DEF Lose, verifier, prover
<1>5. ASSUME NEW t \in Tasks, CreateBoundRequest(t) \/ StorePresentation(t) \/ Verify(t) PROVE Answers'
  BY <1>5, CreateBoundRequestAnswers, StorePresentationAnswers, VerifyAnswers
<1>6. ASSUME NEW t \in Tasks, StoreRequest(t) \/ CreatePresentation(t) PROVE Answers'
  BY <1>6, StoreRequestAnswers, CreatePresentationAnswers
<1>7. ASSUME NEW t \in Tasks, VerifierFails(t) PROVE Answers'
  BY <1>7, HandSet, EndedAnswers DEF VerifierFails, prover
<1>8. ASSUME NEW t \in Tasks, ProverFails(t) PROVE Answers'
  BY <1>8, ProverSet, EndedAnswers DEF ProverFails, verifier
<1>9. ASSUME NEW t \in Tasks, NEW r \in DOMAIN vrecs, SendBoundRequest(t, r) \/ VerifyPresentation(t, r) PROVE Answers'
  BY <1>9, StartAnswers
<1>10. ASSUME NEW t \in Tasks, NEW r \in DOMAIN precs, SendPresentation(t, r) PROVE Answers'
  BY <1>10, SendPresentationAnswers
<1>11. ASSUME NEW r \in DOMAIN vrecs, RemoveVerifiers(r) PROVE Answers'
  BY <1>11, RemoveVerifiersAnswers
<1>12. ASSUME NEW r \in DOMAIN precs, RemoveProvers(r) PROVE Answers'
  BY <1>12, RemoveProversAnswers
<1>13. CASE RestartVerifier \/ RestartProver \/ UNCHANGED vars
  BY <1>13, EndedAnswers DEF RestartVerifier, RestartProver, vars, verifier, prover
<1> QED BY <1>1, <1>2, <1>3, <1>4, <1>5, <1>6, <1>7, <1>8, <1>9, <1>10, <1>11, <1>12, <1>13 DEF Next

\* A valid proof is found valid, in a verifier that does one thing at a time or asks
\* without its admin and has one record of the thread.
THEOREM ValidIsFound == Spec => []ValidIsAccepted
<1> DEFINE Inv == Types /\ Fitting /\ Turns /\ (auto \/ serial => Answers)
<1>1. Init => Inv
  BY InitTypes, InitFitting, InitTurns, InitAnswers
<1>2. Inv /\ [Next]_vars => Inv'
  <2> SUFFICES ASSUME Inv, [Next]_vars PROVE Inv'
    OBVIOUS
  <2>1. Types' /\ Fitting' /\ Turns'
    BY NextTypes, NextFitting, NextTurns
  <2>2. auto' = auto /\ serial' = serial
    BY UnchangedSetting DEF auto, serial
  <2> QED BY <2>1, <2>2, NextAnswers
<1>3. Inv => ValidIsAccepted
  <2> SUFFICES ASSUME Inv, auto \/ serial, NEW r \in DOMAIN vrecs,
                      vrecs[r].state = "verified", vrecs[r].proof.valid,
                      \A q \in DOMAIN vrecs : vrecs[q].thread = vrecs[r].thread => q = r
               PROVE  vrecs[r].verified = "true"
    BY DEF ValidIsAccepted
  <2>1. Asked(vrecs, vrecs[r].thread, vrecs[r].proof.request) /\ Sole(vrecs, r)
    BY DEF Answers, RecordAnswers, Sole
  <2>2. vrecs[r].request = vrecs[r].proof.request
    BY <2>1, AskedSole
  <2> QED BY <2>2 DEF Fitting, RecordFits, Verdict
<1> HIDE DEF Inv
<1> QED BY <1>1, <1>2, <1>3, PTL DEF Spec
=============================================================================
