---------------------------- MODULE TicketSaleProofs ----------------------------
(***************************************************************************)
(* Proofs about TicketSale: with any number of visits, wallets that repeat *)
(* what they send any number of times, webhooks posted any number of times *)
(* and any number of restarts.                                             *)
(***************************************************************************)
EXTENDS TicketSale, TLAPS

USE SaleAssumption

\* Bookings are of visits that were shown the link, and true to them.
BookingsTrue ==
    \A c \in Conns : booking[c] # NoTrip => visit[c] = "shown" /\ booking[c] = journey[c]

\* Whatever has begun on a connection began after its visit was shown the link.
AfterVisit ==
    /\ \A c \in Conns, k \in Copies : handler[<<c, k>>] # "idle" => visit[c] = "shown"
    /\ \A e \in Exchanges : proof[e].state # "free" => visit[proof[e].conn] = "shown"
    /\ \A h \in ConnHooks : posts[h] > 0 => visit[h.of] = "shown"
    /\ \A k \in calls : visit[k.conn] = "shown"

\* An exchange keeps its connection once something was presented in it, and its
\* webhook tells what was.
AfterRequest ==
    /\ \A e \in Exchanges, k \in Copies : present[<<e, k>>].at # "idle" => proof[e].state # "free"
    /\ \A h \in ProofHooks : posts[h] > 0 => present[<<h.of, h.copy>>].at = "done"

\* The call for a ticket is as good as the ticket.
CallsProven ==
    role = "transport" =>
        \A k \in calls : k.what = "issue" => k.trip = journey[k.conn] /\ Proven(k.conn, k.name)

IInv == TypeOK /\ BookingsTrue /\ AfterVisit /\ AfterRequest /\ CallsProven /\ TicketForProven

LEMMA InitIInv == Init => IInv
<1> SUFFICES ASSUME Init PROVE IInv
  OBVIOUS
<1>1. TypeOK
  <2>1. (CHOOSE c \in Conns : TRUE) \in Conns
    OBVIOUS
  <2>2. proof \in [Exchanges -> [conn : Conns, state : {"free", "sent", "received", "verified"}]]
    BY <2>1 DEF Init
  <2> QED BY <2>2 DEF Init, TypeOK
<1>2. BookingsTrue /\ CallsProven /\ TicketForProven
  BY DEF Init, BookingsTrue, CallsProven, TicketForProven
<1>3. AfterVisit /\ AfterRequest
  BY DEF Init, AfterVisit, AfterRequest, Hooks, ConnHooks, ProofHooks
<1> QED BY <1>1, <1>2, <1>3 DEF IInv

\* What is proven stays proven.
LEMMA ProvenStays ==
  ASSUME NEW c, NEW n, Proven(c, n),
         \A e \in Exchanges : proof[e].state # "free" =>
             proof'[e].state # "free" /\ proof'[e].conn = proof[e].conn,
         \A e \in Exchanges, k \in Copies : present[<<e, k>>].at = "done" => present'[<<e, k>>] = present[<<e, k>>]
  PROVE  Proven(c, n)'
  BY DEF Proven

LEMMA BootstrapIInv == ASSUME IInv, Bootstrap PROVE IInv'
<1> USE DEF IInv
<1>0. \A x, y : Proven(x, y) => Proven(x, y)'
  <2> SUFFICES ASSUME NEW c1, NEW n1, Proven(c1, n1) PROVE Proven(c1, n1)'
    OBVIOUS
  <2>1. \A e1 \in Exchanges : proof[e1].state # "free" =>
             proof'[e1].state # "free" /\ proof'[e1].conn = proof[e1].conn
    BY DEF Bootstrap, TypeOK
  <2>2. \A e1 \in Exchanges, k1 \in Copies : present[<<e1, k1>>].at = "done" => present'[<<e1, k1>>] = present[<<e1, k1>>]
    BY DEF Bootstrap, TypeOK
  <2> QED BY <2>1, <2>2, ProvenStays
<1>1. TypeOK'
  BY DEF Bootstrap, TypeOK
<1>2. BookingsTrue'
  BY DEF Bootstrap, TypeOK, BookingsTrue
<1>3. AfterVisit'
  BY DEF Bootstrap, TypeOK, AfterVisit
<1>4. AfterRequest'
  BY DEF Bootstrap, TypeOK, AfterRequest
<1>5. CallsProven'
  BY <1>0 DEF Bootstrap, TypeOK, AfterVisit, CallsProven
<1>6. TicketForProven'
  BY <1>0 DEF Bootstrap, TypeOK, AfterVisit, CallsProven, TicketForProven
<1> QED BY <1>1, <1>2, <1>3, <1>4, <1>5, <1>6

LEMMA RestartIInv == ASSUME IInv, Restart PROVE IInv'
<1> USE DEF IInv
<1>0. \A x, y : Proven(x, y) => Proven(x, y)'
  <2> SUFFICES ASSUME NEW c1, NEW n1, Proven(c1, n1) PROVE Proven(c1, n1)'
    OBVIOUS
  <2>1. \A e1 \in Exchanges : proof[e1].state # "free" =>
             proof'[e1].state # "free" /\ proof'[e1].conn = proof[e1].conn
    BY DEF Restart, TypeOK
  <2>2. \A e1 \in Exchanges, k1 \in Copies : present[<<e1, k1>>].at = "done" => present'[<<e1, k1>>] = present[<<e1, k1>>]
    BY DEF Restart, TypeOK
  <2> QED BY <2>1, <2>2, ProvenStays
<1>1. TypeOK'
  BY DEF Restart, TypeOK
<1>2. BookingsTrue'
  BY DEF Restart, TypeOK, BookingsTrue
<1>3. AfterVisit'
  <2>1. \A c1 \in Conns : visit[c1] = "shown" => visit'[c1] = "shown"
    BY DEF Restart, TypeOK
  <2>2. \A c1 \in Conns, k1 \in Copies : handler'[<<c1, k1>>] # "idle" => visit'[c1] = "shown"
    BY <2>1 DEF Restart, TypeOK, AfterVisit
  <2>3. \A e1 \in Exchanges : proof'[e1].state # "free" => visit'[proof'[e1].conn] = "shown"
    BY <2>1 DEF Restart, TypeOK, AfterVisit
  <2>4. \A h1 \in ConnHooks : posts'[h1] > 0 => visit'[h1.of] = "shown"
    BY <2>1 DEF Restart, TypeOK, AfterVisit, ConnHooks
  <2>5. \A k1 \in calls' : visit'[k1.conn] = "shown"
    BY <2>1 DEF Restart, TypeOK, AfterVisit
  <2> QED BY <2>2, <2>3, <2>4, <2>5 DEF AfterVisit
<1>4. AfterRequest'
  BY DEF Restart, TypeOK, AfterRequest
<1>5. CallsProven'
  BY <1>0 DEF Restart, TypeOK, AfterVisit, CallsProven
<1>6. TicketForProven'
  <2>1. \A t \in tickets : t.conn \in Conns
    BY DEF TypeOK, CallType
  <2>2. \A c1 \in Conns : visit[c1] = "shown" => visit'[c1] = "shown"
    BY DEF Restart, TypeOK
  <2> QED BY <1>0, <2>1, <2>2 DEF Restart, TicketForProven
<1> QED BY <1>1, <1>2, <1>3, <1>4, <1>5, <1>6

LEMMA VisitIInv == ASSUME IInv, NEW c \in Conns, Visit(c) PROVE IInv'
<1> USE DEF IInv
<1>0. \A x, y : Proven(x, y) => Proven(x, y)'
  <2> SUFFICES ASSUME NEW c1, NEW n1, Proven(c1, n1) PROVE Proven(c1, n1)'
    OBVIOUS
  <2>1. \A e1 \in Exchanges : proof[e1].state # "free" =>
             proof'[e1].state # "free" /\ proof'[e1].conn = proof[e1].conn
    BY DEF Visit, TypeOK
  <2>2. \A e1 \in Exchanges, k1 \in Copies : present[<<e1, k1>>].at = "done" => present'[<<e1, k1>>] = present[<<e1, k1>>]
    BY DEF Visit, TypeOK
  <2> QED BY <2>1, <2>2, ProvenStays
<1>1. TypeOK'
  BY DEF Visit, TypeOK
<1>2. BookingsTrue'
  BY DEF Visit, TypeOK, BookingsTrue
<1>3. AfterVisit'
  BY DEF Visit, TypeOK, AfterVisit
<1>4. AfterRequest'
  BY DEF Visit, TypeOK, AfterRequest
<1>5. CallsProven'
  BY <1>0 DEF Visit, TypeOK, AfterVisit, CallsProven
<1>6. TicketForProven'
  BY <1>0 DEF Visit, TypeOK, AfterVisit, CallsProven, TicketForProven
<1> QED BY <1>1, <1>2, <1>3, <1>4, <1>5, <1>6

LEMMA BookIInv == ASSUME IInv, NEW c \in Conns, Book(c) PROVE IInv'
<1> USE DEF IInv
<1>0. \A x, y : Proven(x, y) => Proven(x, y)'
  <2> SUFFICES ASSUME NEW c1, NEW n1, Proven(c1, n1) PROVE Proven(c1, n1)'
    OBVIOUS
  <2>1. \A e1 \in Exchanges : proof[e1].state # "free" =>
             proof'[e1].state # "free" /\ proof'[e1].conn = proof[e1].conn
    BY DEF Book, TypeOK
  <2>2. \A e1 \in Exchanges, k1 \in Copies : present[<<e1, k1>>].at = "done" => present'[<<e1, k1>>] = present[<<e1, k1>>]
    BY DEF Book, TypeOK
  <2> QED BY <2>1, <2>2, ProvenStays
<1>1. TypeOK'
  BY DEF Book, TypeOK
<1>2. BookingsTrue'
  BY DEF Book, TypeOK, BookingsTrue
<1>3. AfterVisit'
  BY DEF Book, TypeOK, AfterVisit
<1>4. AfterRequest'
  BY DEF Book, TypeOK, AfterRequest
<1>5. CallsProven'
  BY <1>0 DEF Book, TypeOK, AfterVisit, CallsProven
<1>6. TicketForProven'
  BY <1>0 DEF Book, TypeOK, AfterVisit, CallsProven, TicketForProven
<1> QED BY <1>1, <1>2, <1>3, <1>4, <1>5, <1>6

LEMMA ReadInvitationIInv == ASSUME IInv, NEW c \in Conns, NEW k \in Copies, ReadInvitation(c, k) PROVE IInv'
<1> USE DEF IInv
<1>0. \A x, y : Proven(x, y) => Proven(x, y)'
  <2> SUFFICES ASSUME NEW c1, NEW n1, Proven(c1, n1) PROVE Proven(c1, n1)'
    OBVIOUS
  <2>1. \A e1 \in Exchanges : proof[e1].state # "free" =>
             proof'[e1].state # "free" /\ proof'[e1].conn = proof[e1].conn
    BY DEF ReadInvitation, TypeOK
  <2>2. \A e1 \in Exchanges, k1 \in Copies : present[<<e1, k1>>].at = "done" => present'[<<e1, k1>>] = present[<<e1, k1>>]
    BY DEF ReadInvitation, TypeOK
  <2> QED BY <2>1, <2>2, ProvenStays
<1>1. TypeOK'
  BY DEF ReadInvitation, TypeOK
<1>2. BookingsTrue'
  BY DEF ReadInvitation, TypeOK, BookingsTrue
<1>3. AfterVisit'
  BY DEF ReadInvitation, TypeOK, AfterVisit
<1>4. AfterRequest'
  BY DEF ReadInvitation, TypeOK, AfterRequest
<1>5. CallsProven'
  BY <1>0 DEF ReadInvitation, TypeOK, AfterVisit, CallsProven
<1>6. TicketForProven'
  BY <1>0 DEF ReadInvitation, TypeOK, AfterVisit, CallsProven, TicketForProven
<1> QED BY <1>1, <1>2, <1>3, <1>4, <1>5, <1>6

LEMMA SaveRequestIInv == ASSUME IInv, NEW c \in Conns, NEW k \in Copies, SaveRequest(c, k) PROVE IInv'
<1> USE DEF IInv
<1>0. \A x, y : Proven(x, y) => Proven(x, y)'
  <2> SUFFICES ASSUME NEW c1, NEW n1, Proven(c1, n1) PROVE Proven(c1, n1)'
    OBVIOUS
  <2>1. \A e1 \in Exchanges : proof[e1].state # "free" =>
             proof'[e1].state # "free" /\ proof'[e1].conn = proof[e1].conn
    BY DEF SaveRequest, TypeOK
  <2>2. \A e1 \in Exchanges, k1 \in Copies : present[<<e1, k1>>].at = "done" => present'[<<e1, k1>>] = present[<<e1, k1>>]
    BY DEF SaveRequest, TypeOK
  <2> QED BY <2>1, <2>2, ProvenStays
<1>1. TypeOK'
  BY DEF SaveRequest, TypeOK
<1>2. BookingsTrue'
  BY DEF SaveRequest, TypeOK, BookingsTrue
<1>3. AfterVisit'
  BY DEF SaveRequest, TypeOK, AfterVisit
<1>4. AfterRequest'
  BY DEF SaveRequest, TypeOK, AfterRequest
<1>5. CallsProven'
  BY <1>0 DEF SaveRequest, TypeOK, AfterVisit, CallsProven
<1>6. TicketForProven'
  BY <1>0 DEF SaveRequest, TypeOK, AfterVisit, CallsProven, TicketForProven
<1> QED BY <1>1, <1>2, <1>3, <1>4, <1>5, <1>6

LEMMA SaveResponseIInv == ASSUME IInv, NEW c \in Conns, NEW k \in Copies, SaveResponse(c, k) PROVE IInv'
<1> USE DEF IInv
<1>0. \A x, y : Proven(x, y) => Proven(x, y)'
  <2> SUFFICES ASSUME NEW c1, NEW n1, Proven(c1, n1) PROVE Proven(c1, n1)'
    OBVIOUS
  <2>1. \A e1 \in Exchanges : proof[e1].state # "free" =>
             proof'[e1].state # "free" /\ proof'[e1].conn = proof[e1].conn
    BY DEF SaveResponse, TypeOK
  <2>2. \A e1 \in Exchanges, k1 \in Copies : present[<<e1, k1>>].at = "done" => present'[<<e1, k1>>] = present[<<e1, k1>>]
    BY DEF SaveResponse, TypeOK
  <2> QED BY <2>1, <2>2, ProvenStays
<1>1. TypeOK'
  BY DEF SaveResponse, TypeOK, Hooks, ConnHooks, ProofHooks
<1>2. BookingsTrue'
  BY DEF SaveResponse, TypeOK, BookingsTrue
<1>3. AfterVisit'
  BY DEF SaveResponse, TypeOK, AfterVisit, Hooks, ConnHooks, ProofHooks
<1>4. AfterRequest'
  BY DEF SaveResponse, TypeOK, AfterRequest, Hooks, ConnHooks, ProofHooks
<1>5. CallsProven'
  BY <1>0 DEF SaveResponse, TypeOK, AfterVisit, CallsProven
<1>6. TicketForProven'
  BY <1>0 DEF SaveResponse, TypeOK, AfterVisit, CallsProven, TicketForProven
<1> QED BY <1>1, <1>2, <1>3, <1>4, <1>5, <1>6

LEMMA PresentIInv == ASSUME IInv, NEW e \in Exchanges, NEW k \in Copies, Present(e, k) PROVE IInv'
<1> USE DEF IInv
<1>0. \A x, y : Proven(x, y) => Proven(x, y)'
  <2> SUFFICES ASSUME NEW c1, NEW n1, Proven(c1, n1) PROVE Proven(c1, n1)'
    OBVIOUS
  <2>1. \A e1 \in Exchanges : proof[e1].state # "free" =>
             proof'[e1].state # "free" /\ proof'[e1].conn = proof[e1].conn
    BY DEF Present, TypeOK
  <2>2. \A e1 \in Exchanges, k1 \in Copies : present[<<e1, k1>>].at = "done" => present'[<<e1, k1>>] = present[<<e1, k1>>]
    BY DEF Present, TypeOK
  <2> QED BY <2>1, <2>2, ProvenStays
<1>1. TypeOK'
  <2>1. proof' \in [Exchanges -> [conn : Conns, state : {"free", "sent", "received", "verified"}]]
    <3>1. /\ proof \in [Exchanges -> [conn : Conns, state : {"free", "sent", "received", "verified"}]]
          /\ proof' = [proof EXCEPT ![e].state = "received"]
      BY DEF Present, TypeOK
    <3> QED BY <3>1
  <2>2. present' \in [Exchanges \X Copies ->
                       [at : {"idle", "received", "done"}, name : Names \cup {NoName}, valid : BOOLEAN]]
    <3>1. present \in [Exchanges \X Copies ->
                         [at : {"idle", "received", "done"}, name : Names \cup {NoName}, valid : BOOLEAN]]
      BY DEF TypeOK
    <3>2. PICK n \in Names, v \in BOOLEAN :
            present' = [present EXCEPT ![<<e, k>>] = [at |-> "received", name |-> n, valid |-> v]]
      BY DEF Present
    <3> QED BY <3>1, <3>2
  <2>3. conn' \in [Conns -> {"none", "invitation", "request", "response", "active"}]
    BY DEF Present, TypeOK
  <2> QED BY <2>1, <2>2, <2>3 DEF Present, TypeOK
<1>2. BookingsTrue'
  BY DEF Present, TypeOK, BookingsTrue
<1>3. AfterVisit'
  BY DEF Present, TypeOK, AfterVisit
<1>4. AfterRequest'
  BY DEF Present, TypeOK, AfterRequest
<1>5. CallsProven'
  BY <1>0 DEF Present, TypeOK, AfterVisit, CallsProven
<1>6. TicketForProven'
  BY <1>0 DEF Present, TypeOK, AfterVisit, CallsProven, TicketForProven
<1> QED BY <1>1, <1>2, <1>3, <1>4, <1>5, <1>6

LEMMA VerifyIInv == ASSUME IInv, NEW e \in Exchanges, NEW k \in Copies, Verify(e, k) PROVE IInv'
<1> USE DEF IInv
<1>0. \A x, y : Proven(x, y) => Proven(x, y)'
  <2> SUFFICES ASSUME NEW c1, NEW n1, Proven(c1, n1) PROVE Proven(c1, n1)'
    OBVIOUS
  <2>1. \A e1 \in Exchanges : proof[e1].state # "free" =>
             proof'[e1].state # "free" /\ proof'[e1].conn = proof[e1].conn
    BY DEF Verify, TypeOK
  <2>2. \A e1 \in Exchanges, k1 \in Copies : present[<<e1, k1>>].at = "done" => present'[<<e1, k1>>] = present[<<e1, k1>>]
    BY DEF Verify, TypeOK
  <2> QED BY <2>1, <2>2, ProvenStays
<1>1. TypeOK'
  <2>1. proof' \in [Exchanges -> [conn : Conns, state : {"free", "sent", "received", "verified"}]]
    <3>1. /\ proof \in [Exchanges -> [conn : Conns, state : {"free", "sent", "received", "verified"}]]
          /\ proof' = [proof EXCEPT ![e].state = "verified"]
      BY DEF Verify, TypeOK
    <3> QED BY <3>1
  <2>2. present' \in [Exchanges \X Copies ->
                       [at : {"idle", "received", "done"}, name : Names \cup {NoName}, valid : BOOLEAN]]
    <3>1. /\ present \in [Exchanges \X Copies ->
                       [at : {"idle", "received", "done"}, name : Names \cup {NoName}, valid : BOOLEAN]]
          /\ present' = [present EXCEPT ![<<e, k>>].at = "done"]
      BY DEF Verify, TypeOK
    <3> QED BY <3>1
  <2>3. posts' \in [Hooks -> 0..Posts]
    <3> DEFINE key == [topic |-> "present_proof", of |-> e, copy |-> k]
    <3>1. Posts \in 0..Posts /\ posts \in [Hooks -> 0..Posts] /\ posts' = [posts EXCEPT ![key] = Posts]
      BY DEF Verify, TypeOK
    <3> HIDE DEF key
    <3> QED BY <3>1
  <2> QED BY <2>1, <2>2, <2>3 DEF Verify, TypeOK
<1>2. BookingsTrue'
  BY DEF Verify, TypeOK, BookingsTrue
<1>3. AfterVisit'
  <2>1. \A e1 \in Exchanges : proof'[e1].conn = proof[e1].conn /\ (proof'[e1].state # "free" => proof[e1].state # "free")
    BY DEF Verify, TypeOK, AfterRequest
  <2>2. \A c1 \in Conns, k1 \in Copies : handler'[<<c1, k1>>] # "idle" => visit'[c1] = "shown"
    BY DEF Verify, TypeOK, AfterVisit
  <2>3. \A e1 \in Exchanges : proof'[e1].state # "free" => visit'[proof'[e1].conn] = "shown"
    BY <2>1 DEF Verify, TypeOK, AfterVisit
  <2>4. \A h1 \in ConnHooks : posts'[h1] > 0 => visit'[h1.of] = "shown"
    BY DEF Verify, TypeOK, AfterVisit, Hooks, ConnHooks, ProofHooks
  <2>5. \A k1 \in calls' : visit'[k1.conn] = "shown"
    BY DEF Verify, TypeOK, AfterVisit, CallType
  <2> QED BY <2>2, <2>3, <2>4, <2>5 DEF AfterVisit
<1>4. AfterRequest'
  BY DEF Verify, TypeOK, AfterRequest, Hooks, ConnHooks, ProofHooks
<1>5. CallsProven'
  BY <1>0 DEF Verify, TypeOK, AfterVisit, CallsProven
<1>6. TicketForProven'
  BY <1>0 DEF Verify, TypeOK, AfterVisit, CallsProven, TicketForProven
<1> QED BY <1>1, <1>2, <1>3, <1>4, <1>5, <1>6

LEMMA PostIInv == ASSUME IInv, NEW h \in Hooks, Post(h) PROVE IInv'
<1> USE DEF IInv
<1>0. \A x, y : Proven(x, y) => Proven(x, y)'
  <2> SUFFICES ASSUME NEW c1, NEW n1, Proven(c1, n1) PROVE Proven(c1, n1)'
    OBVIOUS
  <2>1. \A e1 \in Exchanges : proof[e1].state # "free" =>
             proof'[e1].state # "free" /\ proof'[e1].conn = proof[e1].conn
    BY DEF Post, TypeOK
  <2>2. \A e1 \in Exchanges, k1 \in Copies : present[<<e1, k1>>].at = "done" => present'[<<e1, k1>>] = present[<<e1, k1>>]
    BY DEF Post, TypeOK
  <2> QED BY <2>1, <2>2, ProvenStays
<1>1. TypeOK'
  <2>1. posts[h] \in 1..Posts
    BY DEF Post, TypeOK
  <2>2. posts' \in [Hooks -> 0..Posts]
    BY <2>1 DEF Post, TypeOK
  <2>3. h \in ConnHooks => OnConnection(h) \subseteq CallType
    BY <2>1 DEF OnConnection, CallType, Hooks, ConnHooks
  <2>4. h \in ProofHooks => OnProof(h) \subseteq CallType
    BY <2>1 DEF OnProof, CallType, Hooks, ProofHooks, TypeOK
  <2>5. calls' \subseteq CallType
    BY <2>3, <2>4 DEF Post, TypeOK, Hooks
  <2> QED BY <2>2, <2>5 DEF Post, TypeOK
<1>2. BookingsTrue'
  BY DEF Post, TypeOK, BookingsTrue, AfterRequest, AfterVisit, OnConnection, OnProof, CallType, Hooks, ConnHooks, ProofHooks
<1>3. AfterVisit'
  BY DEF Post, TypeOK, AfterVisit, BookingsTrue, AfterRequest, OnConnection, OnProof, CallType, Hooks, ConnHooks, ProofHooks
<1>4. AfterRequest'
  <2>1. \A h1 \in ProofHooks : posts'[h1] > 0 => posts[h1] > 0
    BY DEF Post, TypeOK, Hooks
  <2>2. UNCHANGED <<proof, present>>
    BY DEF Post
  <2> QED BY <2>1, <2>2 DEF AfterRequest
<1>5. CallsProven'
  <2> SUFFICES ASSUME role = "transport", NEW k1 \in calls', k1.what = "issue"
               PROVE  k1.trip = journey'[k1.conn] /\ Proven(k1.conn, k1.name)'
    BY DEF Post, CallsProven
  <2>1. CASE k1 \in calls
    BY <1>0, <2>1 DEF Post, CallsProven
  <2>2. CASE h \in ProofHooks /\ k1 \in OnProof(h)
    <3> DEFINE c1 == proof[h.of].conn
    <3>1. /\ present[<<h.of, h.copy>>].valid /\ booking[c1] # NoTrip
          /\ k1.conn = c1 /\ k1.trip = booking[c1] /\ k1.name = present[<<h.of, h.copy>>].name
      BY <2>2 DEF OnProof
    <3>2. h.of \in Exchanges /\ h.copy \in Copies /\ c1 \in Conns
      BY <2>2 DEF ProofHooks, TypeOK
    <3>3. present[<<h.of, h.copy>>].at = "done" /\ proof[h.of].state # "free"
      BY <2>2, <3>2 DEF Post, AfterRequest
    <3>4. Proven(k1.conn, k1.name)
      BY <3>1, <3>2, <3>3 DEF Proven
    <3>5. k1.trip = journey[k1.conn]
      BY <3>1, <3>2 DEF BookingsTrue
    <3> QED BY <1>0, <3>4, <3>5 DEF Post
  <2>3. CASE h \in ConnHooks /\ k1 \in OnConnection(h)
    BY <2>3 DEF OnConnection
  <2> QED BY <2>1, <2>2, <2>3 DEF Post, Hooks
<1>6. TicketForProven'
  BY <1>0 DEF Post, TypeOK, AfterVisit, CallsProven, TicketForProven, BookingsTrue, AfterRequest, OnConnection, OnProof, CallType, Hooks, ConnHooks, ProofHooks
<1> QED BY <1>1, <1>2, <1>3, <1>4, <1>5, <1>6

LEMMA LosePostIInv == ASSUME IInv, NEW h \in Hooks, LosePost(h) PROVE IInv'
<1> USE DEF IInv
<1>0. \A x, y : Proven(x, y) => Proven(x, y)'
  <2> SUFFICES ASSUME NEW c1, NEW n1, Proven(c1, n1) PROVE Proven(c1, n1)'
    OBVIOUS
  <2>1. \A e1 \in Exchanges : proof[e1].state # "free" =>
             proof'[e1].state # "free" /\ proof'[e1].conn = proof[e1].conn
    BY DEF LosePost, TypeOK
  <2>2. \A e1 \in Exchanges, k1 \in Copies : present[<<e1, k1>>].at = "done" => present'[<<e1, k1>>] = present[<<e1, k1>>]
    BY DEF LosePost, TypeOK
  <2> QED BY <2>1, <2>2, ProvenStays
<1>1. TypeOK'
  BY DEF LosePost, TypeOK, Hooks, ConnHooks, ProofHooks
<1>2. BookingsTrue'
  BY DEF LosePost, TypeOK, BookingsTrue
<1>3. AfterVisit'
  BY DEF LosePost, TypeOK, AfterVisit, Hooks, ConnHooks, ProofHooks
<1>4. AfterRequest'
  BY DEF LosePost, TypeOK, AfterRequest, Hooks, ConnHooks, ProofHooks
<1>5. CallsProven'
  BY <1>0 DEF LosePost, TypeOK, AfterVisit, CallsProven
<1>6. TicketForProven'
  BY <1>0 DEF LosePost, TypeOK, AfterVisit, CallsProven, TicketForProven
<1> QED BY <1>1, <1>2, <1>3, <1>4, <1>5, <1>6

LEMMA RequestProofIInv == ASSUME IInv, NEW k \in calls, RequestProof(k) PROVE IInv'
<1> USE DEF IInv
<1>0. \A x, y : Proven(x, y) => Proven(x, y)'
  <2> SUFFICES ASSUME NEW c1, NEW n1, Proven(c1, n1) PROVE Proven(c1, n1)'
    OBVIOUS
  <2>1. \A e1 \in Exchanges : proof[e1].state # "free" =>
             proof'[e1].state # "free" /\ proof'[e1].conn = proof[e1].conn
    BY DEF RequestProof, TypeOK
  <2>2. \A e1 \in Exchanges, k1 \in Copies : present[<<e1, k1>>].at = "done" => present'[<<e1, k1>>] = present[<<e1, k1>>]
    BY DEF RequestProof, TypeOK
  <2> QED BY <2>1, <2>2, ProvenStays
<1>1. TypeOK'
  <2>1. proof' \in [Exchanges -> [conn : Conns, state : {"free", "sent", "received", "verified"}]]
    <3>1. k.conn \in Conns
      BY DEF TypeOK, CallType
    <3>2. [conn |-> k.conn, state |-> "sent"] \in [conn : Conns, state : {"free", "sent", "received", "verified"}]
      BY <3>1
    <3>3. CASE UNCHANGED proof
      BY <3>3 DEF TypeOK
    <3>4. ASSUME NEW e \in Exchanges, proof' = [proof EXCEPT ![e] = [conn |-> k.conn, state |-> "sent"]]
          PROVE  proof' \in [Exchanges -> [conn : Conns, state : {"free", "sent", "received", "verified"}]]
      BY <3>2, <3>4 DEF TypeOK
    <3> QED BY <3>3, <3>4 DEF RequestProof
  <2>2. calls' \subseteq CallType
    BY DEF RequestProof, TypeOK
  <2> QED BY <2>1, <2>2 DEF RequestProof, TypeOK
<1>2. BookingsTrue'
  BY DEF RequestProof, TypeOK, BookingsTrue, CallType
<1>3. AfterVisit'
  <2>1. k.conn \in Conns /\ visit[k.conn] = "shown"
    BY DEF TypeOK, AfterVisit, CallType
  <2>2. \A c1 \in Conns, k1 \in Copies : handler'[<<c1, k1>>] # "idle" => visit'[c1] = "shown"
    BY <2>1 DEF RequestProof, TypeOK, AfterVisit
  <2>3. \A e1 \in Exchanges : proof'[e1].state # "free" => visit'[proof'[e1].conn] = "shown"
    <3>1. \A e1 \in Exchanges : proof'[e1] = proof[e1] \/ proof'[e1].conn = k.conn
      BY DEF RequestProof, TypeOK
    <3>2. visit' = visit
      BY DEF RequestProof
    <3> QED BY <2>1, <3>1, <3>2 DEF AfterVisit
  <2>4. \A h1 \in ConnHooks : posts'[h1] > 0 => visit'[h1.of] = "shown"
    BY DEF RequestProof, TypeOK, AfterVisit, ConnHooks
  <2>5. \A k1 \in calls' : visit'[k1.conn] = "shown"
    BY <2>1 DEF RequestProof, TypeOK, AfterVisit
  <2> QED BY <2>2, <2>3, <2>4, <2>5 DEF AfterVisit
<1>4. AfterRequest'
  BY DEF RequestProof, TypeOK, AfterRequest, CallType
<1>5. CallsProven'
  BY <1>0 DEF RequestProof, TypeOK, AfterVisit, CallsProven, CallType
<1>6. TicketForProven'
  BY <1>0 DEF RequestProof, TypeOK, AfterVisit, CallsProven, TicketForProven, CallType
<1> QED BY <1>1, <1>2, <1>3, <1>4, <1>5, <1>6

LEMMA IssueTicketIInv == ASSUME IInv, NEW k \in calls, IssueTicket(k) PROVE IInv'
<1> USE DEF IInv
<1>0. \A x, y : Proven(x, y) => Proven(x, y)'
  <2> SUFFICES ASSUME NEW c1, NEW n1, Proven(c1, n1) PROVE Proven(c1, n1)'
    OBVIOUS
  <2>1. \A e1 \in Exchanges : proof[e1].state # "free" =>
             proof'[e1].state # "free" /\ proof'[e1].conn = proof[e1].conn
    BY DEF IssueTicket, TypeOK
  <2>2. \A e1 \in Exchanges, k1 \in Copies : present[<<e1, k1>>].at = "done" => present'[<<e1, k1>>] = present[<<e1, k1>>]
    BY DEF IssueTicket, TypeOK
  <2> QED BY <2>1, <2>2, ProvenStays
<1>1. TypeOK'
  BY DEF IssueTicket, TypeOK, CallType
<1>2. BookingsTrue'
  BY DEF IssueTicket, TypeOK, BookingsTrue, CallType
<1>3. AfterVisit'
  BY DEF IssueTicket, TypeOK, AfterVisit, CallType
<1>4. AfterRequest'
  BY DEF IssueTicket, TypeOK, AfterRequest, CallType
<1>5. CallsProven'
  BY <1>0 DEF IssueTicket, TypeOK, AfterVisit, CallsProven, CallType
<1>6. TicketForProven'
  BY <1>0 DEF IssueTicket, TypeOK, AfterVisit, CallsProven, TicketForProven, CallType
<1> QED BY <1>1, <1>2, <1>3, <1>4, <1>5, <1>6

LEMMA CallFailsIInv == ASSUME IInv, NEW k \in calls, CallFails(k) PROVE IInv'
<1> USE DEF IInv
<1>0. \A x, y : Proven(x, y) => Proven(x, y)'
  <2> SUFFICES ASSUME NEW c1, NEW n1, Proven(c1, n1) PROVE Proven(c1, n1)'
    OBVIOUS
  <2>1. \A e1 \in Exchanges : proof[e1].state # "free" =>
             proof'[e1].state # "free" /\ proof'[e1].conn = proof[e1].conn
    BY DEF CallFails, TypeOK
  <2>2. \A e1 \in Exchanges, k1 \in Copies : present[<<e1, k1>>].at = "done" => present'[<<e1, k1>>] = present[<<e1, k1>>]
    BY DEF CallFails, TypeOK
  <2> QED BY <2>1, <2>2, ProvenStays
<1>1. TypeOK'
  BY DEF CallFails, TypeOK, CallType
<1>2. BookingsTrue'
  BY DEF CallFails, TypeOK, BookingsTrue, CallType
<1>3. AfterVisit'
  BY DEF CallFails, TypeOK, AfterVisit, CallType
<1>4. AfterRequest'
  BY DEF CallFails, TypeOK, AfterRequest, CallType
<1>5. CallsProven'
  BY <1>0 DEF CallFails, TypeOK, AfterVisit, CallsProven, CallType
<1>6. TicketForProven'
  BY <1>0 DEF CallFails, TypeOK, AfterVisit, CallsProven, TicketForProven, CallType
<1> QED BY <1>1, <1>2, <1>3, <1>4, <1>5, <1>6

LEMMA StutterIInv == ASSUME IInv, UNCHANGED vars PROVE IInv'
<1> USE DEF IInv, vars
<1>1. TypeOK'
  BY DEF TypeOK
<1>2. BookingsTrue' /\ AfterVisit' /\ AfterRequest'
  BY DEF BookingsTrue, AfterVisit, AfterRequest
<1>3. \A x, y : Proven(x, y) => Proven(x, y)'
  BY DEF Proven
<1>4. CallsProven' /\ TicketForProven'
  BY <1>3 DEF CallsProven, TicketForProven
<1> QED BY <1>1, <1>2, <1>4

LEMMA NextIInv == IInv /\ [Next]_vars => IInv'
<1> SUFFICES ASSUME IInv, [Next]_vars PROVE IInv'
  OBVIOUS
<1>1. CASE Bootstrap
  BY <1>1, BootstrapIInv
<1>2. CASE Restart
  BY <1>2, RestartIInv
<1>3. ASSUME NEW c \in Conns, Visit(c) PROVE IInv'
  BY <1>3, VisitIInv
<1>4. ASSUME NEW c \in Conns, Book(c) PROVE IInv'
  BY <1>4, BookIInv
<1>5. ASSUME NEW c \in Conns, NEW k \in Copies, ReadInvitation(c, k) PROVE IInv'
  BY <1>5, ReadInvitationIInv
<1>6. ASSUME NEW c \in Conns, NEW k \in Copies, SaveRequest(c, k) PROVE IInv'
  BY <1>6, SaveRequestIInv
<1>7. ASSUME NEW c \in Conns, NEW k \in Copies, SaveResponse(c, k) PROVE IInv'
  BY <1>7, SaveResponseIInv
<1>8. ASSUME NEW e \in Exchanges, NEW k \in Copies, Present(e, k) PROVE IInv'
  BY <1>8, PresentIInv
<1>9. ASSUME NEW e \in Exchanges, NEW k \in Copies, Verify(e, k) PROVE IInv'
  BY <1>9, VerifyIInv
<1>10. ASSUME NEW h \in Hooks, Post(h) PROVE IInv'
  BY <1>10, PostIInv
<1>11. ASSUME NEW h \in Hooks, LosePost(h) PROVE IInv'
  BY <1>11, LosePostIInv
<1>12. ASSUME NEW k \in calls, RequestProof(k) PROVE IInv'
  BY <1>12, RequestProofIInv
<1>13. ASSUME NEW k \in calls, IssueTicket(k) PROVE IInv'
  BY <1>13, IssueTicketIInv
<1>14. ASSUME NEW k \in calls, CallFails(k) PROVE IInv'
  BY <1>14, CallFailsIInv
<1>15. CASE UNCHANGED vars
  BY <1>15, StutterIInv
<1> QED BY <1>1, <1>2, <1>3, <1>4, <1>5, <1>6, <1>7, <1>8, <1>9, <1>10, <1>11, <1>12, <1>13, <1>14, <1>15 DEF Next

\* The types, and what leads to a ticket, hold in every behaviour.
THEOREM Invariance == Spec => []IInv
  BY InitIInv, NextIInv, PTL DEF Spec

\* TicketForProven: a ticket is for the trip booked on its connection and in a
\* name proven there (MSP_server.js:476-513).
THEOREM TicketsProven == Spec => []TicketForProven
<1>1. IInv => TicketForProven
  BY DEF IInv
<1> QED BY <1>1, Invariance, PTL

\* A visit has a journey from its start, a presentation a name.
JourneysMade == \A c \in Conns : visit[c] # "none" => journey[c] # NoTrip
NamesPresented == \A p \in Exchanges \X Copies : present[p].at # "idle" => present[p].name \in Names

LEMMA NextJourneys == IInv /\ JourneysMade /\ [Next]_vars => JourneysMade'
<1> SUFFICES ASSUME IInv, JourneysMade, [Next]_vars PROVE JourneysMade'
  OBVIOUS
<1> USE DEF JourneysMade
<1>1. ASSUME NEW c \in Conns, Visit(c) PROVE JourneysMade'
  BY <1>1 DEF Visit, IInv, TypeOK
<1>2. ASSUME NEW c \in Conns, Book(c) PROVE JourneysMade'
  BY <1>2 DEF Book, IInv, TypeOK
<1>3. CASE Restart
  BY <1>3 DEF Restart
<1>4. CASE UNCHANGED <<visit, journey>>
  BY <1>4
<1> QED BY <1>1, <1>2, <1>3, <1>4
     DEF Next, vars, Bootstrap, ReadInvitation, SaveRequest, SaveResponse, Present, Verify, Post,
         LosePost, RequestProof, IssueTicket, CallFails

\* What is presented is presented once; verifying it changes neither name nor proof.
LEMMA PresentFacts ==
  ASSUME IInv, NEW e \in Exchanges, NEW k \in Copies, Present(e, k)
  PROVE  /\ present[<<e, k>>].at = "idle"
         /\ present'[<<e, k>>].at = "received" /\ present'[<<e, k>>].name \in Names
         /\ \A p \in Exchanges \X Copies : p # <<e, k>> => present'[p] = present[p]
<1>1. present \in [Exchanges \X Copies ->
                     [at : {"idle", "received", "done"}, name : Names \cup {NoName}, valid : BOOLEAN]]
  BY DEF IInv, TypeOK
<1>2. PICK n \in Names, v \in BOOLEAN :
        present' = [present EXCEPT ![<<e, k>>] = [at |-> "received", name |-> n, valid |-> v]]
  BY DEF Present
<1>3. present[<<e, k>>].at = "idle"
  BY DEF Present
<1> QED BY <1>1, <1>2, <1>3

LEMMA NextNames == IInv /\ NamesPresented /\ [Next]_vars => NamesPresented'
<1> SUFFICES ASSUME IInv, NamesPresented, [Next]_vars PROVE NamesPresented'
  OBVIOUS
<1> USE DEF NamesPresented
<1>1. ASSUME NEW e \in Exchanges, NEW k \in Copies, Present(e, k) PROVE NamesPresented'
  BY <1>1, PresentFacts
<1>2. ASSUME NEW e \in Exchanges, NEW k \in Copies, Verify(e, k) PROVE NamesPresented'
  BY <1>2 DEF Verify, IInv, TypeOK
<1>3. CASE UNCHANGED present
  BY <1>3
<1> QED BY <1>1, <1>2, <1>3
     DEF Next, vars, Bootstrap, Restart, Visit, Book, ReadInvitation, SaveRequest, SaveResponse, Post,
         LosePost, RequestProof, IssueTicket, CallFails

\* A step that leaves bookings, and what was presented and is done with, alone
\* is none of the ticket office's; nor is one that sells no tickets.
LEMMA SameNames ==
  ASSUME IInv,
         \A e \in Exchanges : proof[e].state # "free" =>
             proof'[e].state # "free" /\ proof'[e].conn = proof[e].conn,
         \A e \in Exchanges, k \in Copies :
             present[<<e, k>>].at = "done" \/ present'[<<e, k>>].at = "done" =>
                 present'[<<e, k>>] = present[<<e, k>>]
  PROVE  ProvenNames' = ProvenNames
<1>1. \A c, n : Proven(c, n) => Proven(c, n)'
  BY ProvenStays
<1>2. \A c, n : Proven(c, n)' => Proven(c, n)
  BY DEF Proven, IInv, AfterRequest
<1> QED BY <1>1, <1>2 DEF ProvenNames

LEMMA SameSold == ASSUME UNCHANGED <<role, tickets>> PROVE Sold' = Sold
  BY DEF Sold

LEMMA SameBooked == ASSUME UNCHANGED <<visit, journey>> PROVE Booked' = Booked
  BY DEF Booked

\* The agent's and the server's steps that the office does not see.
LEMMA Unseen ==
  ASSUME IInv,
         \/ Bootstrap
         \/ \E c \in Conns, k \in Copies : ReadInvitation(c, k) \/ SaveRequest(c, k) \/ SaveResponse(c, k)
         \/ \E h \in Hooks : Post(h) \/ LosePost(h)
         \/ \E k \in calls : CallFails(k)
         \/ UNCHANGED vars
  PROVE  UNCHANGED <<Booked, ProvenNames, Sold>>
<1>1. UNCHANGED <<role, visit, journey, proof, present, tickets>>
  BY DEF Bootstrap, ReadInvitation, SaveRequest, SaveResponse, Post, LosePost, CallFails, vars
<1>2. ProvenNames' = ProvenNames
  BY <1>1, SameNames
<1> QED BY <1>1, <1>2, SameSold, SameBooked

LEMMA RestartUnseen == ASSUME IInv, Restart PROVE UNCHANGED <<Booked, ProvenNames, Sold>>
<1>1. UNCHANGED <<role, journey, proof, present, tickets>>
  BY DEF Restart
<1>2. ProvenNames' = ProvenNames
  BY <1>1, SameNames
<1>3. \A c \in Conns : visit'[c] = "shown" <=> visit[c] = "shown"
  BY DEF Restart
<1> QED BY <1>1, <1>2, <1>3, SameSold DEF Booked

LEMMA VisitUnseen == ASSUME IInv, NEW c \in Conns, Visit(c) PROVE UNCHANGED <<Booked, ProvenNames, Sold>>
<1>1. UNCHANGED <<role, proof, present, tickets>>
  BY DEF Visit
<1>2. ProvenNames' = ProvenNames
  BY <1>1, SameNames
<1>3. \A d \in Conns : /\ visit'[d] = "shown" <=> visit[d] = "shown"
                       /\ visit[d] = "shown" => journey'[d] = journey[d]
  BY DEF Visit, IInv, TypeOK
<1> QED BY <1>1, <1>2, <1>3, SameSold DEF Booked

LEMMA RequestProofUnseen ==
  ASSUME IInv, NEW k \in calls, RequestProof(k) PROVE UNCHANGED <<Booked, ProvenNames, Sold>>
<1>1. UNCHANGED <<role, visit, journey, present, tickets>>
  BY DEF RequestProof
<1>2. \A e \in Exchanges : proof[e].state # "free" => proof'[e] = proof[e]
  BY DEF RequestProof, IInv, TypeOK
<1>3. ProvenNames' = ProvenNames
  BY <1>1, <1>2, SameNames
<1> QED BY <1>1, <1>3, SameSold, SameBooked

LEMMA PresentUnseen ==
  ASSUME IInv, NEW e \in Exchanges, NEW k \in Copies, Present(e, k)
  PROVE  UNCHANGED <<Booked, ProvenNames, Sold>>
<1>1. UNCHANGED <<role, visit, journey, tickets>>
  BY DEF Present
<1>2. \A d \in Exchanges : proof[d].state # "free" =>
         proof'[d].state # "free" /\ proof'[d].conn = proof[d].conn
  BY DEF Present, IInv, TypeOK
<1>3. \A d \in Exchanges, j \in Copies :
         present[<<d, j>>].at = "done" \/ present'[<<d, j>>].at = "done" =>
             present'[<<d, j>>] = present[<<d, j>>]
  BY PresentFacts
<1>4. ProvenNames' = ProvenNames
  BY <1>2, <1>3, SameNames
<1> QED BY <1>1, <1>4, SameSold, SameBooked

\* The link is shown: the trip is booked.
LEMMA BookIsBook ==
  ASSUME IInv, JourneysMade, NEW c \in Conns, Book(c)
  PROVE  Office!Book(c)
<1>1. UNCHANGED <<role, journey, proof, present, tickets>> /\ visit[c] = "asked"
      /\ visit' = [visit EXCEPT ![c] = "shown"]
  BY DEF Book
<1>2. ProvenNames' = ProvenNames
  BY <1>1, SameNames
<1>3. journey[c] \in Trips
  BY <1>1 DEF IInv, TypeOK, JourneysMade
<1>4. Booked[c] = NoTrip /\ Booked' = [Booked EXCEPT ![c] = journey[c]]
  BY <1>1 DEF Booked, IInv, TypeOK
<1> QED BY <1>1, <1>2, <1>3, <1>4, SameSold DEF Office!Book

\* A presentation is verified: its name is proven, if it holds.
LEMMA VerifyProves ==
  ASSUME IInv, JourneysMade, NamesPresented, NEW e \in Exchanges, NEW k \in Copies, Verify(e, k)
  PROVE  \/ UNCHANGED <<Booked, ProvenNames, Sold>>
         \/ \E c \in Conns : Office!Prove(c)
<1> DEFINE c == proof[e].conn
           n == present[<<e, k>>].name
<1>1. UNCHANGED <<role, visit, journey, tickets>>
  BY DEF Verify
<1>2. \A d \in Exchanges : proof[d].state # "free" =>
         proof'[d].state # "free" /\ proof'[d].conn = proof[d].conn
  BY DEF Verify, IInv, TypeOK
<1>3. c \in Conns /\ proof[e].state # "free" /\ present[<<e, k>>].at = "received"
  BY DEF Verify, IInv, TypeOK, AfterRequest
<1>4. /\ present'[<<e, k>>].at = "done"
      /\ present'[<<e, k>>].valid = present[<<e, k>>].valid /\ present'[<<e, k>>].name = n
      /\ \A d \in Exchanges, j \in Copies : <<d, j>> # <<e, k>> => present'[<<d, j>>] = present[<<d, j>>]
  BY DEF Verify, IInv, TypeOK
<1>5. \A x, y : Proven(x, y)' <=> Proven(x, y) \/ (x = c /\ y = n /\ present[<<e, k>>].valid)
  <2> SUFFICES ASSUME NEW x, NEW y
               PROVE  Proven(x, y)' <=> Proven(x, y) \/ (x = c /\ y = n /\ present[<<e, k>>].valid)
    OBVIOUS
  <2>1. Proven(x, y) => Proven(x, y)'
    BY <1>2, <1>3, <1>4, ProvenStays
  <2>2. x = c /\ y = n /\ present[<<e, k>>].valid => Proven(x, y)'
    BY <1>2, <1>3, <1>4 DEF Proven
  <2>3. ASSUME Proven(x, y)'
        PROVE  Proven(x, y) \/ (x = c /\ y = n /\ present[<<e, k>>].valid)
    <3>1. PICK d \in Exchanges, j \in Copies :
            /\ proof'[d].state # "free" /\ proof'[d].conn = x
            /\ present'[<<d, j>>].at = "done" /\ present'[<<d, j>>].valid /\ present'[<<d, j>>].name = y
      BY <2>3 DEF Proven
    <3>2. CASE <<d, j>> = <<e, k>>
      BY <1>2, <1>3, <1>4, <3>1, <3>2
    <3>3. CASE <<d, j>> # <<e, k>>
      <4>1. present[<<d, j>>] = present'[<<d, j>>]
        BY <1>4, <3>3
      <4>2. proof[d].state # "free"
        BY <3>1, <4>1 DEF IInv, AfterRequest
      <4> QED BY <1>2, <3>1, <4>1, <4>2 DEF Proven
    <3> QED BY <3>2, <3>3
  <2> QED BY <2>1, <2>2, <2>3
<1>6. CASE ~present[<<e, k>>].valid
  BY <1>1, <1>5, <1>6, SameSold, SameBooked DEF ProvenNames
<1>7. CASE present[<<e, k>>].valid
  <2>1. n \in Names
    BY <1>3 DEF NamesPresented
  <2>2. ProvenNames' = [ProvenNames EXCEPT ![c] = @ \cup {n}]
    BY <1>3, <1>5, <1>7, <2>1 DEF ProvenNames
  <2>3. Booked[c] # NoTrip
    BY <1>3 DEF Booked, JourneysMade, IInv, AfterVisit
  <2> QED BY <1>1, <1>3, <2>1, <2>2, <2>3, SameSold, SameBooked DEF Office!Prove
<1> QED BY <1>6, <1>7

\* A ticket is issued.
LEMMA IssueSells ==
  ASSUME IInv, NamesPresented, NEW k \in calls, IssueTicket(k)
  PROVE  \/ UNCHANGED <<Booked, ProvenNames, Sold>>
         \/ \E c \in Conns : Office!Sell(c)
<1> DEFINE c == k.conn
<1>1. UNCHANGED <<role, visit, journey, proof, present>> /\ k.what = "issue" /\ k \in CallType
  BY DEF IssueTicket, IInv, TypeOK
<1>2. ProvenNames' = ProvenNames /\ Booked' = Booked
  BY <1>1, SameNames, SameBooked
<1>3. CASE tickets' = tickets \/ role # "transport"
  BY <1>1, <1>2, <1>3 DEF Sold
<1>4. CASE tickets' = tickets \cup {k} /\ role = "transport"
  <2>1. c \in Conns /\ k.trip = journey[c] /\ Proven(c, k.name) /\ visit[c] = "shown"
    BY <1>1, <1>4 DEF IInv, CallsProven, AfterVisit, CallType
  <2>2. Booked[c] = k.trip
    BY <2>1 DEF Booked
  <2>3. k.name \in Names
    BY <2>1 DEF Proven, NamesPresented
  <2>4. k.name \in ProvenNames[c]
    BY <2>1, <2>3 DEF ProvenNames
  <2>5. \A d \in Conns : Sold'[d] = IF d = c THEN Sold[d] \cup {<<k.trip, k.name>>} ELSE Sold[d]
    BY <1>1, <1>4, Zenon DEF Sold
  <2>6. Sold' = [Sold EXCEPT ![c] = @ \cup {<<Booked[c], k.name>>}]
    BY <2>1, <2>2, <2>5 DEF Sold
  <2> QED BY <1>2, <2>1, <2>4, <2>6 DEF Office!Sell
<1> QED BY <1>3, <1>4 DEF IssueTicket

LEMMA OfficeInit == Init => Office!Init
<1> SUFFICES ASSUME Init PROVE Office!Init
  OBVIOUS
<1>1. Booked = [c \in Conns |-> NoTrip]
  BY DEF Init, Booked
<1>2. \A c, n : ~Proven(c, n)
  BY DEF Init, Proven
<1>3. ProvenNames = [c \in Conns |-> {}]
  BY <1>2 DEF ProvenNames
<1>4. Sold = [c \in Conns |-> {}]
  BY DEF Init, Sold
<1> QED BY <1>1, <1>3, <1>4 DEF Office!Init

LEMMA OfficeNext ==
  IInv /\ JourneysMade /\ NamesPresented /\ [Next]_vars => [Office!Next]_<<Booked, ProvenNames, Sold>>
<1> SUFFICES ASSUME IInv, JourneysMade, NamesPresented, [Next]_vars
             PROVE  Office!Next \/ UNCHANGED <<Booked, ProvenNames, Sold>>
  OBVIOUS
<1>1. ASSUME NEW c \in Conns, Book(c) PROVE Office!Next
  BY <1>1, BookIsBook DEF Office!Next
<1>2. ASSUME NEW e \in Exchanges, NEW k \in Copies, Verify(e, k)
      PROVE  Office!Next \/ UNCHANGED <<Booked, ProvenNames, Sold>>
  BY <1>2, VerifyProves DEF Office!Next
<1>3. ASSUME NEW k \in calls, IssueTicket(k)
      PROVE  Office!Next \/ UNCHANGED <<Booked, ProvenNames, Sold>>
  BY <1>3, IssueSells DEF Office!Next
<1>4. ASSUME NEW e \in Exchanges, NEW k \in Copies, Present(e, k)
      PROVE  UNCHANGED <<Booked, ProvenNames, Sold>>
  BY <1>4, PresentUnseen
<1> QED BY <1>1, <1>2, <1>3, <1>4, Unseen, RestartUnseen, VisitUnseen, RequestProofUnseen DEF Next

\* The server and its agent are a ticket office: what TicketOffice promises of
\* bookings, proofs and tickets holds whatever is lost, repeated or restarted.
THEOREM ServesAsOffice == Spec => SellsTickets
<1>1. Init => JourneysMade /\ NamesPresented
  BY DEF Init, JourneysMade, NamesPresented
<1>2. Spec => [](IInv /\ JourneysMade /\ NamesPresented)
  BY <1>1, InitIInv, NextIInv, NextJourneys, NextNames, PTL DEF Spec
<1> QED BY <1>2, OfficeInit, OfficeNext, PTL DEF Spec, SellsTickets, Office!Spec

-----------------------------------------------------------------------------
\* One ticket, or card, for each visit.

\* What there is of a connection's sale: requests for proof the server still
\* has to make, exchanges, and goods, on order or issued.
ConnHook(c, k)  == [topic |-> "connections", of |-> c, copy |-> k]
ProofHook(e, k) == [topic |-> "present_proof", of |-> e, copy |-> k]

Asked(c) == {k \in calls : k.what = "proof" /\ k.conn = c}
Exch(c)  == {e \in Exchanges : proof[e].state # "free" /\ proof[e].conn = c}
Goods(c) == {k \in calls : k.what = "issue" /\ k.conn = c} \cup {t \in tickets : t.conn = c}

\* The server has acted on the connection's webhook; on that of a proof.
Acted(c) == \E k \in Copies : handler[<<c, k>>] = "done" /\ posts[ConnHook(c, k)] = 0
Proved(c) ==
    \E e \in Exch(c), k \in Copies : present[<<e, k>>].at = "done" /\ posts[ProofHook(e, k)] = 0

\* The server acts once on each: at most one request, one exchange, one good.
OneSale(c) == setting.calm /\ ~Repeats(c) =>
    /\ Asked(c) # {} \/ Exch(c) # {} \/ Goods(c) # {} => Acted(c)
    /\ Asked(c) # {} => Exch(c) = {} /\ Goods(c) = {} /\ role # "creditcard"
    /\ Exch(c) # {} => role # "creditcard"
    /\ Goods(c) # {} /\ role # "creditcard" => Proved(c)
    /\ \A j, k \in Asked(c) : j = k
    /\ \A d, e \in Exch(c) : d = e
    /\ \A t, u \in Goods(c) : t = u

HooksAfter == \A c \in Conns, k \in Copies : posts[ConnHook(c, k)] > 0 => handler[<<c, k>>] = "done"

SaleInv == HooksAfter /\ \A c \in Conns : OneSale(c)

\* The webhooks by what they are of.
LEMMA HookFacts ==
  /\ \A c \in Conns, k \in Copies :
        /\ ConnHook(c, k) \in ConnHooks /\ ConnHook(c, k) \in Hooks /\ ConnHook(c, k) \notin ProofHooks
        /\ ConnHook(c, k).of = c /\ ConnHook(c, k).copy = k
  /\ \A e \in Exchanges, k \in Copies :
        /\ ProofHook(e, k) \in ProofHooks /\ ProofHook(e, k) \in Hooks /\ ProofHook(e, k) \notin ConnHooks
        /\ ProofHook(e, k).of = e /\ ProofHook(e, k).copy = k
  BY DEF ConnHook, ProofHook, Hooks, ConnHooks, ProofHooks

\* Hooks of different handlers differ.
LEMMA HooksDiffer ==
  ASSUME NEW c, NEW d, NEW k, NEW j
  PROVE  /\ ConnHook(c, k) = ConnHook(d, j) <=> c = d /\ k = j
         /\ ProofHook(c, k) = ProofHook(d, j) <=> c = d /\ k = j
         /\ ConnHook(c, k) # ProofHook(d, j)
  BY DEF ConnHook, ProofHook

\* A hook is of a connection, or of an exchange, and of one copy.
LEMMA HookOf ==
  ASSUME NEW h \in Hooks
  PROVE  \/ h \in ConnHooks /\ \E c \in Conns, k \in Copies : h = ConnHook(c, k)
         \/ h \in ProofHooks /\ \E e \in Exchanges, k \in Copies : h = ProofHook(e, k)
  BY DEF ConnHook, ProofHook, Hooks, ConnHooks, ProofHooks

\* A wallet that has repeated itself has.
RepeatsStay(c) == Repeats(c) => Repeats(c)'

\* A step that adds nothing to the connection's sale and takes no act back.
SaleAside(c) ==
    /\ RepeatsStay(c)
    /\ Asked(c)' \subseteq Asked(c) /\ Exch(c)' \subseteq Exch(c) /\ Goods(c)' \subseteq Goods(c)
    /\ Acted(c) => Acted(c)'
    /\ Proved(c) => Proved(c)'

\* Such a step keeps the connection's sale one.
LEMMA AsideKept ==
  ASSUME UNCHANGED <<role, setting>>, NEW c \in Conns, OneSale(c), SaleAside(c)
  PROVE  OneSale(c)'
  BY DEF OneSale, SaleAside, RepeatsStay

\* Nothing begun goes back to idle.
LEMMA RepeatsKept ==
  ASSUME NEW c \in Conns,
         \A k \in Copies : handler[<<c, k>>] # "idle" => handler'[<<c, k>>] # "idle",
         \A e \in Exchanges : proof[e].state # "free" =>
             proof'[e].state # "free" /\ proof'[e].conn = proof[e].conn,
         \A e \in Exchanges, k \in Copies :
             present[<<e, k>>].at # "idle" => present'[<<e, k>>].at # "idle"
  PROVE  RepeatsStay(c)
<1> SUFFICES ASSUME Repeats(c) PROVE Repeats(c)'
  BY DEF RepeatsStay
<1>1. PICK j \in Copies, k \in Copies :
        /\ j # k
        /\ \/ handler[<<c, j>>] # "idle" /\ handler[<<c, k>>] # "idle"
           \/ \E e \in Exchanges :
                 /\ proof[e].state # "free" /\ proof[e].conn = c
                 /\ present[<<e, j>>].at # "idle" /\ present[<<e, k>>].at # "idle"
  BY DEF Repeats
<1>2. CASE handler[<<c, j>>] # "idle" /\ handler[<<c, k>>] # "idle"
  BY <1>1, <1>2 DEF Repeats
<1>3. ASSUME NEW e \in Exchanges, proof[e].state # "free", proof[e].conn = c,
             present[<<e, j>>].at # "idle", present[<<e, k>>].at # "idle"
      PROVE  Repeats(c)'
  BY <1>1, <1>3 DEF Repeats
<1> QED BY <1>1, <1>2, <1>3

\* A step that touches neither proofs nor calls, and no hook that was acted on.
LEMMA HandlersAside ==
  ASSUME NEW c \in Conns, UNCHANGED <<proof, calls, tickets>>,
         \A k \in Copies : /\ handler[<<c, k>>] # "idle" => handler'[<<c, k>>] # "idle"
                           /\ handler[<<c, k>>] = "done" => handler'[<<c, k>>] = "done"
                           /\ handler[<<c, k>>] = "done" /\ posts[ConnHook(c, k)] = 0
                                 => posts'[ConnHook(c, k)] = 0,
         \A e \in Exchanges, k \in Copies :
             /\ present[<<e, k>>].at # "idle" => present'[<<e, k>>].at # "idle"
             /\ present[<<e, k>>].at = "done" /\ posts[ProofHook(e, k)] = 0
                   => present'[<<e, k>>].at = "done" /\ posts'[ProofHook(e, k)] = 0
  PROVE  SaleAside(c)
<1>1. RepeatsStay(c)
  BY RepeatsKept
<1>2. Asked(c)' = Asked(c) /\ Exch(c)' = Exch(c) /\ Goods(c)' = Goods(c)
  BY DEF Asked, Exch, Goods
<1>3. Acted(c) => Acted(c)'
  BY DEF Acted
<1>4. Proved(c) => Proved(c)'
  <2>1. \A e \in Exch(c) : e \in Exchanges
    BY DEF Exch
  <2> QED BY <1>2, <2>1 DEF Proved
<1> QED BY <1>1, <1>2, <1>3, <1>4 DEF SaleAside

\* Before the first visit nothing is sold.
LEMMA InitSale == Init => SaleInv
<1> SUFFICES ASSUME Init PROVE SaleInv
  OBVIOUS
<1>1. HooksAfter
  BY HookFacts DEF Init, HooksAfter
<1>2. \A c \in Conns : Asked(c) = {} /\ Exch(c) = {} /\ Goods(c) = {}
  BY DEF Init, Asked, Exch, Goods
<1> QED BY <1>1, <1>2 DEF SaleInv, OneSale

\* The steps of the visit, of the server's start, and of handlers that post nothing.
LEMMA QuietSale ==
  ASSUME IInv, SaleInv,
         \/ Bootstrap \/ UNCHANGED vars
         \/ \E c \in Conns : Visit(c) \/ Book(c)
         \/ \E c \in Conns, k \in Copies : ReadInvitation(c, k) \/ SaveRequest(c, k)
  PROVE  SaleInv'
<1>1. /\ UNCHANGED <<role, setting, proof, present, posts, calls, tickets>>
      /\ \A c \in Conns, k \in Copies :
            /\ handler[<<c, k>>] # "idle" => handler'[<<c, k>>] # "idle"
            /\ handler[<<c, k>>] = "done" => handler'[<<c, k>>] = "done"
  <2>1. ASSUME Bootstrap \/ UNCHANGED vars \/ \E c \in Conns : Visit(c) \/ Book(c)
        PROVE  UNCHANGED <<role, setting, proof, present, posts, calls, tickets, handler>>
    BY <2>1 DEF Bootstrap, vars, Visit, Book
  <2>2. ASSUME NEW c \in Conns, NEW k \in Copies, ReadInvitation(c, k) \/ SaveRequest(c, k)
        PROVE  /\ UNCHANGED <<role, setting, proof, present, posts, calls, tickets>>
               /\ handler[<<c, k>>] # "done" /\ handler'[<<c, k>>] # "idle"
               /\ \A d \in Conns, j \in Copies : <<d, j>> # <<c, k>> => handler'[<<d, j>>] = handler[<<d, j>>]
    BY <2>2 DEF ReadInvitation, SaveRequest, IInv, TypeOK
  <2> QED BY <2>1, <2>2
<1>2. HooksAfter'
  BY <1>1 DEF SaleInv, HooksAfter
<1>3. ASSUME NEW c \in Conns PROVE OneSale(c)'
  <2>1. SaleAside(c)
    BY <1>1, HandlersAside
  <2> QED BY <1>1, <2>1, AsideKept DEF SaleInv
<1> QED BY <1>2, <1>3 DEF SaleInv

\* A presentation is received.
LEMMA PresentSale ==
  ASSUME IInv, SaleInv, NEW e \in Exchanges, NEW k \in Copies, Present(e, k) PROVE SaleInv'
<1>1. UNCHANGED <<role, setting, handler, posts, calls, tickets>>
  BY DEF Present
<1>2. \A d \in Exchanges, j \in Copies :
        /\ present[<<d, j>>].at # "idle" => present'[<<d, j>>].at # "idle"
        /\ present[<<d, j>>].at = "done" => present'[<<d, j>>].at = "done"
  BY PresentFacts
<1>3. \A d \in Exchanges : /\ proof'[d].conn = proof[d].conn
                           /\ proof'[d].state # "free" <=> proof[d].state # "free"
  BY DEF Present, IInv, TypeOK
<1>4. HooksAfter'
  BY <1>1 DEF SaleInv, HooksAfter
<1>5. ASSUME NEW c \in Conns PROVE OneSale(c)'
  <2>1. RepeatsStay(c)
    BY <1>1, <1>2, <1>3, RepeatsKept
  <2>2. Asked(c)' = Asked(c) /\ Exch(c)' = Exch(c) /\ Goods(c)' = Goods(c)
    BY <1>1, <1>3 DEF Asked, Exch, Goods
  <2>3. Acted(c) => Acted(c)'
    BY <1>1 DEF Acted
  <2>4. Proved(c) => Proved(c)'
    <3>1. \A x \in Exch(c) : x \in Exchanges
      BY DEF Exch
    <3> QED BY <1>1, <1>2, <2>2, <3>1 DEF Proved
  <2> QED BY <1>1, <2>1, <2>2, <2>3, <2>4, AsideKept DEF SaleAside, SaleInv
<1> QED BY <1>4, <1>5 DEF SaleInv

\* The agent answers a connection request: its webhook is the first to be
\* posted, or the wallet repeats itself.
LEMMA SaveResponseSale ==
  ASSUME IInv, SaleInv, NEW c \in Conns, NEW k \in Copies, SaveResponse(c, k) PROVE SaleInv'
<1>1. /\ UNCHANGED <<role, setting, proof, present, calls, tickets>>
      /\ handler[<<c, k>>] = "saved" /\ handler' = [handler EXCEPT ![<<c, k>>] = "done"]
      /\ posts' = [posts EXCEPT ![ConnHook(c, k)] = Posts]
  BY DEF SaveResponse, ConnHook
<1>2. /\ handler'[<<c, k>>] = "done"
      /\ \A d \in Conns, j \in Copies : <<d, j>> # <<c, k>> => handler'[<<d, j>>] = handler[<<d, j>>]
      /\ \A h \in Hooks : h # ConnHook(c, k) => posts'[h] = posts[h]
  BY <1>1 DEF IInv, TypeOK
<1>3. HooksAfter'
  BY <1>2, HookFacts, HooksDiffer DEF SaleInv, HooksAfter
<1>4. ASSUME NEW d \in Conns PROVE OneSale(d)'
  <2>1. RepeatsStay(d)
    BY <1>1, <1>2, RepeatsKept
  <2>2. CASE d # c
    <3>1. SaleAside(d)
      BY <1>1, <1>2, <2>2, HookFacts, HooksDiffer, HandlersAside
    <3> QED BY <1>1, <3>1, AsideKept DEF SaleInv
  <2>3. CASE d = c
    <3> SUFFICES ASSUME setting.calm, ~Repeats(c), ~Repeats(c)' PROVE OneSale(c)'
      BY <1>1, <2>1, <2>3 DEF OneSale, RepeatsStay
    <3>1. ~Acted(c)
      BY <1>1 DEF Acted, Repeats
    <3>2. Asked(c) = {} /\ Exch(c) = {} /\ Goods(c) = {}
      BY <3>1 DEF SaleInv, OneSale
    <3>3. Asked(c)' = {} /\ Exch(c)' = {} /\ Goods(c)' = {}
      BY <1>1, <3>2 DEF Asked, Exch, Goods
    <3> QED BY <3>3 DEF OneSale
  <2> QED BY <2>2, <2>3
<1> QED BY <1>3, <1>4 DEF SaleInv

\* A presentation is verified: its webhook is the first to be posted.
LEMMA VerifySale ==
  ASSUME IInv, SaleInv, NEW e \in Exchanges, NEW k \in Copies, Verify(e, k) PROVE SaleInv'
<1> DEFINE c == proof[e].conn
<1>1. /\ UNCHANGED <<role, setting, handler, calls, tickets>>
      /\ present[<<e, k>>].at = "received"
      /\ posts' = [posts EXCEPT ![ProofHook(e, k)] = Posts]
  BY DEF Verify, ProofHook
<1>2. /\ present'[<<e, k>>].at = "done"
      /\ \A d \in Exchanges, j \in Copies : <<d, j>> # <<e, k>> => present'[<<d, j>>] = present[<<d, j>>]
      /\ \A h \in Hooks : h # ProofHook(e, k) => posts'[h] = posts[h]
  BY <1>1 DEF Verify, IInv, TypeOK
<1>3. /\ \A d \in Exchanges : /\ proof'[d].conn = proof[d].conn
                              /\ proof'[d].state # "free" <=> proof[d].state # "free"
      /\ proof[e].state # "free" /\ c \in Conns
  BY <1>1 DEF Verify, IInv, TypeOK, AfterRequest
<1>4. HooksAfter'
  BY <1>1, <1>2, HookFacts, HooksDiffer DEF SaleInv, HooksAfter
<1>5. ASSUME NEW d \in Conns PROVE OneSale(d)'
  <2>1. RepeatsStay(d)
    <3>1. \A x \in Exchanges, j \in Copies : present[<<x, j>>].at # "idle" => present'[<<x, j>>].at # "idle"
      BY <1>2
    <3> QED BY <1>1, <1>3, <3>1, RepeatsKept
  <2>2. Asked(d)' = Asked(d) /\ Exch(d)' = Exch(d) /\ Goods(d)' = Goods(d)
    BY <1>1, <1>3 DEF Asked, Exch, Goods
  <2>3. Acted(d) => Acted(d)'
    BY <1>1, <1>2, HookFacts, HooksDiffer DEF Acted
  <2>4. CASE d # c
    <3>1. e \notin Exch(d)
      BY <2>4 DEF Exch
    <3>2. \A x \in Exch(d) : x \in Exchanges
      BY DEF Exch
    <3>3. Proved(d) => Proved(d)'
      BY <1>2, <2>2, <3>1, <3>2, HookFacts, HooksDiffer DEF Proved
    <3> QED BY <1>1, <2>1, <2>2, <2>3, <3>3, AsideKept DEF SaleAside, SaleInv
  <2>5. CASE d = c
    <3> SUFFICES ASSUME setting.calm, ~Repeats(d), ~Repeats(d)' PROVE OneSale(d)'
      BY <1>1, <2>1, <2>5 DEF OneSale, RepeatsStay
    <3>1. e \in Exch(d) /\ \A x \in Exch(d) : x = e
      BY <1>3, <2>5 DEF Exch, SaleInv, OneSale
    <3>2. \A j \in Copies : present[<<e, j>>].at # "done"
      BY <1>1, <1>3, <2>5 DEF Repeats
    <3>3. ~Proved(d)
      BY <3>1, <3>2 DEF Proved
    <3>4. Goods(d) = {}
      BY <3>1, <3>3 DEF SaleInv, OneSale
    <3> QED BY <1>1, <2>2, <2>3, <3>4 DEF SaleInv, OneSale
  <2> QED BY <2>4, <2>5
<1> QED BY <1>4, <1>5 DEF SaleInv

\* The server takes a post of a connection's webhook: it had not acted on it.
LEMMA PostConnectionSale ==
  ASSUME IInv, SaleInv, NEW c \in Conns, NEW k \in Copies, Post(ConnHook(c, k)) PROVE SaleInv'
<1> DEFINE h == ConnHook(c, k)
<1>1. /\ UNCHANGED <<role, setting, handler, proof, present, tickets>>
      /\ posts[h] > 0 /\ h \in Hooks /\ h.of = c /\ handler[<<c, k>>] = "done"
      /\ calls' = calls \cup OnConnection(h)
      /\ posts' = [posts EXCEPT ![h] = 0] \/ (~setting.calm /\ posts' = [posts EXCEPT ![h] = posts[h] - 1])
  BY HookFacts DEF Post, SaleInv, HooksAfter
<1>2. PICK new : /\ calls' = calls \cup {new} /\ new.conn = c
                 /\ IF role = "creditcard" THEN new.what = "issue" ELSE new.what = "proof"
  <2> DEFINE new == [what |-> IF role = "creditcard" THEN "issue" ELSE "proof", hook |-> h, post |-> posts[h],
                     conn |-> h.of, trip |-> NoTrip, name |-> NoName]
  <2>1. OnConnection(h) = {new} /\ new.conn = c
        /\ IF role = "creditcard" THEN new.what = "issue" ELSE new.what = "proof"
    BY <1>1 DEF OnConnection
  <2> HIDE DEF new, h
  <2> QED BY <1>1, <2>1
<1> HIDE DEF h
<1>3. /\ \A g \in Hooks : g # h => posts'[g] = posts[g]
      /\ posts'[h] \in Nat /\ (setting.calm => posts'[h] = 0)
  BY <1>1 DEF IInv, TypeOK
<1>4. \A d \in Conns, j \in Copies : <<d, j>> # <<c, k>> => ConnHook(d, j) # h
  BY HooksDiffer DEF h
<1>5. \A e \in Exchanges, j \in Copies : posts'[ProofHook(e, j)] = posts[ProofHook(e, j)]
  BY <1>3, HookFacts DEF h
<1>6. HooksAfter'
  BY <1>1, <1>3, <1>4, HookFacts DEF SaleInv, HooksAfter
<1>7. ASSUME NEW d \in Conns PROVE OneSale(d)'
  <2> SUFFICES ASSUME setting.calm, ~Repeats(d)' PROVE OneSale(d)'
    BY <1>1 DEF OneSale
  <2>1. ~Repeats(d)
    BY <1>1, RepeatsKept DEF RepeatsStay
  <2>2. Exch(d)' = Exch(d)
    BY <1>1 DEF Exch
  <2>3. CASE d # c
    <3>1. Asked(d)' = Asked(d) /\ Goods(d)' = Goods(d)
      BY <1>1, <1>2, <2>3 DEF Asked, Goods
    <3>2. Acted(d) => Acted(d)'
      BY <1>1, <1>3, <1>4, <2>3, HookFacts DEF Acted
    <3>3. Proved(d) => Proved(d)'
      <4>1. \A x \in Exch(d) : x \in Exchanges
        BY DEF Exch
      <4> QED BY <1>1, <1>5, <2>2, <4>1 DEF Proved
    <3> QED BY <1>1, <2>1, <2>2, <3>1, <3>2, <3>3 DEF SaleInv, OneSale
  <2>4. CASE d = c
    <3>1. ~Acted(c)
      <4>1. \A j \in Copies : j # k => handler[<<c, j>>] = "idle"
        BY <1>1, <2>1, <2>4 DEF Repeats
      <4>2. posts[ConnHook(c, k)] # 0
        BY <1>1 DEF h
      <4> QED BY <4>1, <4>2 DEF Acted
    <3>2. Asked(c) = {} /\ Exch(c) = {} /\ Goods(c) = {}
      BY <2>1, <2>4, <3>1 DEF SaleInv, OneSale
    <3>3. Acted(c)'
      BY <1>1, <1>3 DEF Acted, h
    <3>4. CASE role = "creditcard"
      <4>1. Asked(c)' = {} /\ Goods(c)' = {new}
        BY <1>1, <1>2, <3>2, <3>4 DEF Asked, Goods
      <4> QED BY <1>1, <2>2, <2>4, <3>2, <3>3, <3>4, <4>1 DEF OneSale
    <3>5. CASE role # "creditcard"
      <4>1. Asked(c)' = {new} /\ Goods(c)' = {}
        BY <1>1, <1>2, <3>2, <3>5 DEF Asked, Goods
      <4> QED BY <1>1, <2>2, <2>4, <3>2, <3>3, <3>5, <4>1 DEF OneSale
    <3> QED BY <3>4, <3>5
  <2> QED BY <2>3, <2>4
<1> QED BY <1>6, <1>7 DEF SaleInv

\* The server takes a post of a proof's webhook: it had not sold on it.
LEMMA PostProofSale ==
  ASSUME IInv, SaleInv, NEW e \in Exchanges, NEW k \in Copies, Post(ProofHook(e, k)) PROVE SaleInv'
<1> DEFINE h == ProofHook(e, k)
           c == proof[e].conn
<1>1. /\ UNCHANGED <<role, setting, handler, proof, present, tickets>>
      /\ posts[h] > 0 /\ h \in Hooks /\ h \in ProofHooks /\ h.of = e /\ h.copy = k
      /\ calls' = calls \cup OnProof(h)
      /\ posts' = [posts EXCEPT ![h] = 0] \/ (~setting.calm /\ posts' = [posts EXCEPT ![h] = posts[h] - 1])
  BY HookFacts DEF Post
<1>2. /\ present[<<e, k>>].at = "done" /\ proof[e].state # "free" /\ c \in Conns
  BY <1>1 DEF IInv, TypeOK, AfterRequest
<1>3. \/ calls' = calls
      \/ \E new : calls' = calls \cup {new} /\ new.conn = c /\ new.what = "issue"
  <2> DEFINE new == [what |-> "issue", hook |-> h, post |-> posts[h], conn |-> c, trip |-> booking[c],
                     name |-> present[<<h.of, h.copy>>].name]
  <2>1. OnProof(h) \in {{}, {new}} /\ new.conn = c /\ new.what = "issue"
    BY <1>1 DEF OnProof
  <2> HIDE DEF new, h
  <2> QED BY <1>1, <2>1
<1> HIDE DEF h
<1>4. /\ \A g \in Hooks : g # h => posts'[g] = posts[g]
      /\ posts'[h] \in Nat /\ (setting.calm => posts'[h] = 0)
  BY <1>1 DEF IInv, TypeOK
<1>5. \A d \in Exchanges, j \in Copies : <<d, j>> # <<e, k>> => ProofHook(d, j) # h
  BY HooksDiffer DEF h
<1>6. \A d \in Conns, j \in Copies : posts'[ConnHook(d, j)] = posts[ConnHook(d, j)]
  BY <1>4, HookFacts, HooksDiffer DEF h
<1>7. HooksAfter'
  BY <1>1, <1>6 DEF SaleInv, HooksAfter
<1>8. ASSUME NEW d \in Conns PROVE OneSale(d)'
  <2> SUFFICES ASSUME setting.calm, ~Repeats(d)' PROVE OneSale(d)'
    BY <1>1 DEF OneSale
  <2>1. ~Repeats(d)
    BY <1>1, RepeatsKept DEF RepeatsStay
  <2>2. Exch(d)' = Exch(d) /\ Asked(d)' = Asked(d)
    BY <1>1, <1>3 DEF Exch, Asked
  <2>3. Acted(d) => Acted(d)'
    BY <1>1, <1>6 DEF Acted
  <2>4. Proved(d) => Proved(d)'
    <3>1. \A x \in Exch(d) : x \in Exchanges
      BY DEF Exch
    <3>2. \A x \in Exchanges, j \in Copies : posts[ProofHook(x, j)] = 0 => posts'[ProofHook(x, j)] = 0
      BY <1>1, <1>4, <1>5, HookFacts DEF h
    <3> QED BY <1>1, <2>2, <3>1, <3>2 DEF Proved
  <2>5. CASE Goods(d)' = Goods(d)
    BY <1>1, <2>1, <2>2, <2>3, <2>4, <2>5 DEF SaleInv, OneSale
  <2>6. CASE Goods(d)' # Goods(d)
    <3>1. PICK new : calls' = calls \cup {new} /\ new.conn = c /\ new.what = "issue"
      BY <1>1, <1>3, <2>6 DEF Goods
    <3>2. d = c /\ Goods(d)' = Goods(d) \cup {new}
      BY <1>1, <2>6, <3>1 DEF Goods
    <3>3. e \in Exch(d) /\ \A x \in Exch(d) : x = e
      BY <1>2, <2>1, <3>2 DEF Exch, SaleInv, OneSale
    <3>4. \A j \in Copies : j # k => present[<<e, j>>].at = "idle"
      BY <1>2, <2>1, <3>2 DEF Repeats
    <3>5. ~Proved(d)
      <4>1. posts[ProofHook(e, k)] # 0
        BY <1>1 DEF h
      <4> QED BY <3>3, <3>4, <4>1 DEF Proved
    <3>6. Goods(d) = {} /\ role # "creditcard" /\ Asked(d) = {} /\ Acted(d)
      BY <2>1, <3>3, <3>5 DEF SaleInv, OneSale
    <3>7. Proved(d)'
      BY <1>1, <1>2, <1>4, <2>2, <3>3 DEF Proved, h
    <3> QED BY <1>1, <2>1, <2>2, <2>3, <3>2, <3>3, <3>6, <3>7 DEF OneSale
  <2> QED BY <2>5, <2>6
<1> QED BY <1>7, <1>8 DEF SaleInv

\* A request for proof is made: it was the only one, and there was no exchange.
LEMMA RequestProofSale ==
  ASSUME IInv, SaleInv, NEW k \in calls, RequestProof(k) PROVE SaleInv'
<1>1. /\ UNCHANGED <<role, setting, handler, present, posts, tickets>>
      /\ k.what = "proof" /\ calls' = calls \ {k}
      /\ k.conn \in Conns
  BY DEF RequestProof, IInv, TypeOK, CallType
<1>2. HooksAfter'
  BY <1>1 DEF SaleInv, HooksAfter
<1>3. ASSUME NEW d \in Conns PROVE OneSale(d)'
  <2> SUFFICES ASSUME setting.calm, ~Repeats(d)' PROVE OneSale(d)'
    BY <1>1 DEF OneSale
  <2>1. \A x \in Exchanges : proof[x].state # "free" => proof'[x] = proof[x]
    BY DEF RequestProof, IInv, TypeOK
  <2>2. ~Repeats(d)
    BY <1>1, <2>1, RepeatsKept DEF RepeatsStay
  <2>3. Goods(d)' = Goods(d) /\ Asked(d)' = Asked(d) \ {k} /\ (Acted(d) => Acted(d)')
    BY <1>1 DEF Goods, Asked, Acted
  <2>4. CASE d # k.conn
    <3>1. Exch(d)' = Exch(d)
      BY <2>4 DEF RequestProof, IInv, TypeOK, Exch
    <3>2. Proved(d) => Proved(d)'
      BY <1>1, <3>1 DEF Proved
    <3> QED BY <1>1, <2>2, <2>3, <3>1, <3>2 DEF SaleInv, OneSale
  <2>5. CASE d = k.conn
    <3>1. k \in Asked(d)
      BY <1>1, <2>5 DEF Asked
    <3>2. /\ Exch(d) = {} /\ Goods(d) = {} /\ role # "creditcard" /\ Acted(d)
          /\ Asked(d)' = {}
      BY <2>2, <2>3, <3>1 DEF SaleInv, OneSale
    <3>3. \A x, y \in Exch(d)' : x = y
      <4>1. CASE UNCHANGED proof
        BY <3>2, <4>1 DEF Exch
      <4>2. ASSUME NEW e \in Exchanges, proof' = [proof EXCEPT ![e] = [conn |-> k.conn, state |-> "sent"]]
            PROVE  \A x, y \in Exch(d)' : x = y
        <5>1. \A x \in Exchanges : x # e => proof'[x] = proof[x]
          BY <4>2 DEF IInv, TypeOK
        <5>2. \A x \in Exch(d)' : x = e
          BY <3>2, <5>1 DEF Exch
        <5> QED BY <5>2
      <4> QED BY <4>1, <4>2 DEF RequestProof
    <3> QED BY <1>1, <2>3, <3>2, <3>3 DEF OneSale
  <2> QED BY <2>4, <2>5
<1> QED BY <1>2, <1>3 DEF SaleInv

\* A ticket is issued, or the issue is refused: nothing is ordered by it.
LEMMA IssueTicketSale ==
  ASSUME IInv, SaleInv, NEW k \in calls, IssueTicket(k) PROVE SaleInv'
<1>1. /\ UNCHANGED <<role, setting, handler, proof, present, posts>>
      /\ k.what = "issue" /\ calls' = calls \ {k} /\ tickets' \subseteq tickets \cup {k}
  BY DEF IssueTicket
<1>2. HooksAfter'
  BY <1>1 DEF SaleInv, HooksAfter
<1>3. ASSUME NEW d \in Conns PROVE OneSale(d)'
  <2>1. RepeatsStay(d)
    BY <1>1, RepeatsKept
  <2>2. Goods(d)' \subseteq Goods(d) /\ Asked(d)' \subseteq Asked(d) /\ Exch(d)' = Exch(d)
    BY <1>1 DEF Goods, Asked, Exch
  <2>3. (Acted(d) => Acted(d)') /\ (Proved(d) => Proved(d)')
    BY <1>1, <2>2 DEF Acted, Proved
  <2> QED BY <1>1, <2>1, <2>2, <2>3, AsideKept DEF SaleAside, SaleInv
<1> QED BY <1>2, <1>3 DEF SaleInv

\* What gets lost does so only where the world is not calm.
LEMMA LostSale ==
  ASSUME IInv, SaleInv,
         \/ Restart
         \/ \E h \in Hooks : LosePost(h)
         \/ \E k \in calls : CallFails(k)
  PROVE  SaleInv'
<1>1. ~setting.calm /\ UNCHANGED <<setting, handler>>
  BY DEF Restart, LosePost, CallFails
<1>2. \A c \in Conns, k \in Copies : posts'[ConnHook(c, k)] > 0 => posts[ConnHook(c, k)] > 0
  <2>1. CASE UNCHANGED posts
    BY <2>1
  <2>2. ASSUME NEW h \in Hooks, LosePost(h)
        PROVE  \A c \in Conns, k \in Copies : posts'[ConnHook(c, k)] > 0 => posts[ConnHook(c, k)] > 0
    <3>1. posts[h] > 0 /\ posts' = [posts EXCEPT ![h] = posts[h] - 1] /\ posts \in [Hooks -> 0..Posts]
      BY <2>2 DEF LosePost, IInv, TypeOK
    <3>2. \A g \in Hooks : g # h => posts'[g] = posts[g]
      BY <3>1
    <3> QED BY <3>1, <3>2, HookFacts
  <2> QED BY <2>1, <2>2 DEF Restart, CallFails
<1>3. HooksAfter'
  BY <1>1, <1>2 DEF SaleInv, HooksAfter
<1> QED BY <1>1, <1>3 DEF SaleInv, OneSale

\* Every step keeps each sale one.
LEMMA NextSale == IInv /\ SaleInv /\ [Next]_vars => SaleInv'
<1> SUFFICES ASSUME IInv, SaleInv, [Next]_vars PROVE SaleInv'
  OBVIOUS
<1>1. ASSUME NEW h \in Hooks, Post(h) PROVE SaleInv'
  BY <1>1, HookOf, PostConnectionSale, PostProofSale
<1>2. ASSUME NEW c \in Conns, NEW k \in Copies, SaveResponse(c, k) PROVE SaleInv'
  BY <1>2, SaveResponseSale
<1>3. ASSUME NEW e \in Exchanges, NEW k \in Copies, Present(e, k) \/ Verify(e, k) PROVE SaleInv'
  BY <1>3, PresentSale, VerifySale
<1>4. ASSUME NEW k \in calls, RequestProof(k) \/ IssueTicket(k) PROVE SaleInv'
  BY <1>4, RequestProofSale, IssueTicketSale
<1> QED BY <1>1, <1>2, <1>3, <1>4, QuietSale, LostSale DEF Next

\* OneEach: in a calm world a visit ends with at most one ticket, or card,
\* unless the wallet repeats itself, in every behaviour of any server.
THEOREM OneTicketEach == Spec => []OneEach
<1>1. IInv /\ SaleInv => OneEach
  BY DEF IInv, TypeOK, CallType, SaleInv, OneSale, Goods, OneEach
<1> QED BY <1>1, InitSale, NextSale, Invariance, PTL DEF Spec

=============================================================================
