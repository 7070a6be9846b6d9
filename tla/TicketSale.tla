------------------------------- MODULE TicketSale -------------------------------
(***************************************************************************)
(* One server of the demonstrator (MSP_server.js) and its agent: a mobility *)
(* provider that sells tickets, the credit card issuer, or the inspector.  *)
(*                                                                         *)
(* A traveller's visit opens a connection and books a trip under its id.   *)
(* From then on webhooks drive the sale: of the connection in state        *)
(* "response" a request for proof, of a proof that is verified a ticket.   *)
(* The agent posts a webhook again when it gets no answer, in any order,   *)
(* and the server awaits none of the calls it makes in turn.  Webhooks of  *)
(* other states are answered and left out; wallets are external.           *)
(***************************************************************************)
EXTENDS Naturals, FiniteSets

CONSTANTS
    Roles,      \* the servers: "transport", "creditcard", "inspector"
    Conns,      \* connections, one for each visit
    Trips,      \* what can be booked
    Names,      \* on the credit cards of the wallets
    NoTrip, NoName,
    Exchanges,  \* bound: requests for proof
    Copies,     \* bound: times a wallet sends a message
    Posts,      \* posts of a webhook
    Settings,   \* how the world may be, see "setting"
    Restarts    \* bound: restarts of the server

ASSUME SaleAssumption ==
    /\ Roles \subseteq {"transport", "creditcard", "inspector"}
    /\ Conns # {} /\ NoTrip \notin Trips /\ NoName \notin Names
    /\ Posts \in Nat \ {0} /\ Restarts \in Nat
    /\ Settings \subseteq [calm : BOOLEAN, visitors : SUBSET Conns, sends : SUBSET Copies]

VARIABLES
    role,       \* which server this is: --schemaName and --name
    setting,    \* who visits, what the wallets repeat, and whether it is calm: no
                \* post, answer or call of the server gets lost, it does not restart,
                \* and was set up before the first visit
    booking,    \* bookings: the trip under each connection id
    visit,      \* each visit: asked for an invitation, shown the link, lost
    journey,    \* the trip asked for
    conn,       \* connection records of the agent
    handler,    \* its handlers of connection requests
    proof,      \* presentation exchange records: connection and state
    present,    \* its handlers of presentations, with what was presented
    posts,      \* posts left of each webhook
    calls,      \* calls of the server the agent has not answered
    tickets,    \* credentials the agent was told to issue, and issues
    ready,      \* the credential definition is there
    restarts

vars == <<role, setting, booking, visit, journey, conn, handler, proof, present, posts, calls, tickets, ready, restarts>>

ConnHooks  == [topic : {"connections"}, of : Conns, copy : Copies]
ProofHooks == [topic : {"present_proof"}, of : Exchanges, copy : Copies]
Hooks == ConnHooks \cup ProofHooks

\* A call of the server: the webhook and the post it follows from, and what it
\* asks of the agent.
CallType ==
    [what : {"proof", "issue"}, hook : Hooks, post : 1..Posts, conn : Conns,
     trip : Trips \cup {NoTrip}, name : Names \cup {NoName}]

TypeOK ==
    /\ role \in Roles
    /\ setting \in Settings
    /\ booking \in [Conns -> Trips \cup {NoTrip}]
    /\ visit \in [Conns -> {"none", "asked", "shown", "lost"}]
    /\ journey \in [Conns -> Trips \cup {NoTrip}]
    /\ conn \in [Conns -> {"none", "invitation", "request", "response", "active"}]
    /\ handler \in [Conns \X Copies -> {"idle", "read", "saved", "done"}]
    /\ proof \in [Exchanges -> [conn : Conns, state : {"free", "sent", "received", "verified"}]]
    /\ present \in [Exchanges \X Copies ->
                       [at : {"idle", "received", "done"}, name : Names \cup {NoName}, valid : BOOLEAN]]
    /\ posts \in [Hooks -> 0..Posts]
    /\ calls \subseteq CallType
    /\ tickets \subseteq CallType
    /\ ready \in BOOLEAN
    /\ restarts \in 0..Restarts

Init ==
    /\ role \in Roles
    /\ setting \in Settings
    /\ booking = [c \in Conns |-> NoTrip]
    /\ visit = [c \in Conns |-> "none"]
    /\ journey = [c \in Conns |-> NoTrip]
    /\ conn = [c \in Conns |-> "none"]
    /\ handler = [h \in Conns \X Copies |-> "idle"]
    /\ proof = [e \in Exchanges |-> [conn |-> CHOOSE c \in Conns : TRUE, state |-> "free"]]
    /\ present = [p \in Exchanges \X Copies |-> [at |-> "idle", name |-> NoName, valid |-> FALSE]]
    /\ posts = [h \in Hooks |-> 0]
    /\ calls = {} /\ tickets = {}
    /\ ready = setting.calm
    /\ restarts = 0

-----------------------------------------------------------------------------
\* The server's own steps.

\* bootstrap: the schema and the credential definition, while requests are
\* served already.
Bootstrap ==
    /\ ~ready
    /\ ready' = TRUE
    /\ UNCHANGED <<role, setting, booking, visit, journey, conn, handler, proof, present, posts, calls, tickets, restarts>>

\* /getInvitation: the agent creates the connection
Visit(c) ==
    /\ c \in setting.visitors /\ visit[c] = "none"
    /\ \E t \in Trips : journey' = [journey EXCEPT ![c] = t]
    /\ visit' = [visit EXCEPT ![c] = "asked"]
    /\ conn' = [conn EXCEPT ![c] = "invitation"]
    /\ UNCHANGED <<role, setting, booking, handler, proof, present, posts, calls, tickets, ready, restarts>>

\* and the trip is booked under its id before the link is shown.
Book(c) ==
    /\ visit[c] = "asked"
    /\ booking' = [booking EXCEPT ![c] = journey[c]]
    /\ visit' = [visit EXCEPT ![c] = "shown"]
    /\ UNCHANGED <<role, setting, journey, conn, handler, proof, present, posts, calls, tickets, ready, restarts>>

\* Bookings and unanswered calls live in memory.
Restart ==
    /\ ~setting.calm
    /\ restarts < Restarts
    /\ restarts' = restarts + 1
    /\ booking' = [c \in Conns |-> NoTrip]
    /\ visit' = [c \in Conns |-> IF visit[c] = "asked" THEN "lost" ELSE visit[c]]
    /\ calls' = {}
    /\ UNCHANGED <<role, setting, journey, conn, handler, proof, present, posts, tickets, ready>>

-----------------------------------------------------------------------------
\* The agent and the wallets.

\* A connection request: receive_request finds the record by its invitation,
ReadInvitation(c, k) ==
    /\ visit[c] = "shown" /\ conn[c] = "invitation"
    /\ k \in setting.sends /\ handler[<<c, k>>] = "idle"
    /\ handler' = [handler EXCEPT ![<<c, k>>] = "read"]
    /\ UNCHANGED <<role, setting, booking, visit, journey, conn, proof, present, posts, calls, tickets, ready, restarts>>

\* Mutant: the webhook of state "request" is acted on as well.
SaveRequestActs(c, k) ==
    /\ handler[<<c, k>>] = "read"
    /\ handler' = [handler EXCEPT ![<<c, k>>] = "saved"]
    /\ conn' = [conn EXCEPT ![c] = "request"]
    /\ posts' = [posts EXCEPT ![[topic |-> "connections", of |-> c, copy |-> k]] = Posts]
    /\ UNCHANGED <<role, setting, booking, visit, journey, proof, present, calls, tickets, ready, restarts>>

\* saves the request in it,
SaveRequest(c, k) ==
    /\ handler[<<c, k>>] = "read"
    /\ handler' = [handler EXCEPT ![<<c, k>>] = "saved"]
    /\ conn' = [conn EXCEPT ![c] = "request"]
    /\ UNCHANGED <<role, setting, booking, visit, journey, proof, present, posts, calls, tickets, ready, restarts>>

\* and, the invitation being auto_accept, create_response follows.
SaveResponse(c, k) ==
    /\ handler[<<c, k>>] = "saved"
    /\ handler' = [handler EXCEPT ![<<c, k>>] = "done"]
    /\ conn' = [conn EXCEPT ![c] = "response"]
    /\ posts' = [posts EXCEPT ![[topic |-> "connections", of |-> c, copy |-> k]] = Posts]
    /\ UNCHANGED <<role, setting, booking, visit, journey, proof, present, calls, tickets, ready, restarts>>

\* A presentation: find_connection promotes the connection, and
\* receive_presentation takes it in whatever the state of the exchange.
Present(e, k) ==
    /\ k \in setting.sends /\ proof[e].state # "free" /\ present[<<e, k>>].at = "idle"
    /\ \E n \in Names, v \in BOOLEAN :
          present' = [present EXCEPT ![<<e, k>>] = [at |-> "received", name |-> n, valid |-> v]]
    /\ proof' = [proof EXCEPT ![e].state = "received"]
    /\ conn' = [conn EXCEPT ![proof[e].conn] = IF @ = "response" THEN "active" ELSE @]
    /\ UNCHANGED <<role, setting, booking, visit, journey, handler, posts, calls, tickets, ready, restarts>>

\* verify_presentation, of what this handler received
Verify(e, k) ==
    /\ present[<<e, k>>].at = "received"
    /\ present' = [present EXCEPT ![<<e, k>>].at = "done"]
    /\ proof' = [proof EXCEPT ![e].state = "verified"]
    /\ posts' = [posts EXCEPT ![[topic |-> "present_proof", of |-> e, copy |-> k]] = Posts]
    /\ UNCHANGED <<role, setting, booking, visit, journey, conn, handler, calls, tickets, ready, restarts>>

-----------------------------------------------------------------------------
\* Webhooks.

\* What the server asks for when a connection is in state "response".
OnConnection(h) ==
    {[what |-> IF role = "creditcard" THEN "issue" ELSE "proof", hook |-> h, post |-> posts[h],
      conn |-> h.of, trip |-> NoTrip, name |-> NoName]}

\* Mutant: every booking gets a ticket, not only the connection's.
OnProofForAll(h) ==
    IF present[<<h.of, h.copy>>].valid /\ role = "transport"
    THEN {[what |-> "issue", hook |-> h, post |-> posts[h], conn |-> c, trip |-> booking[c],
           name |-> present[<<h.of, h.copy>>].name] : c \in {d \in Conns : booking[d] # NoTrip}}
    ELSE {}

\* Mutant: the exchange record is looked up again, as it is by now.
OnProofOfRecord(h) ==
    LET c == proof[h.of].conn IN
    IF /\ present[<<h.of, h.copy>>].valid /\ role = "transport" /\ booking[c] # NoTrip
       /\ proof[h.of].state = "verified"
    THEN {[what |-> "issue", hook |-> h, post |-> posts[h], conn |-> c, trip |-> booking[c],
           name |-> present[<<h.of, h.copy>>].name]}
    ELSE {}

\* And when an exchange is "verified": a ticket for the booking, in the name
\* presented, if the proof holds.
OnProof(h) ==
    LET c == proof[h.of].conn IN
    IF present[<<h.of, h.copy>>].valid /\ role = "transport" /\ booking[c] # NoTrip
    THEN {[what |-> "issue", hook |-> h, post |-> posts[h], conn |-> c, trip |-> booking[c],
           name |-> present[<<h.of, h.copy>>].name]}
    ELSE {}

\* The server takes a post in; if the agent misses the answer it posts again.
Post(h) ==
    /\ posts[h] > 0
    /\ calls' = calls \cup (IF h \in ConnHooks THEN OnConnection(h) ELSE OnProof(h))
    /\ \/ posts' = [posts EXCEPT ![h] = 0]
       \/ ~setting.calm /\ posts' = [posts EXCEPT ![h] = @ - 1]
    /\ UNCHANGED <<role, setting, booking, visit, journey, conn, handler, proof, present, tickets, ready, restarts>>

LosePost(h) ==
    /\ ~setting.calm
    /\ posts[h] > 0
    /\ posts' = [posts EXCEPT ![h] = @ - 1]
    /\ UNCHANGED <<role, setting, booking, visit, journey, conn, handler, proof, present, calls, tickets, ready, restarts>>

-----------------------------------------------------------------------------
\* The server's calls.

\* /present-proof/send-request, if the connection is_ready.
RequestProof(k) ==
    /\ k.what = "proof"
    /\ calls' = calls \ {k}
    /\ IF conn[k.conn] \in {"response", "active"}
       THEN \E e \in Exchanges :
               /\ proof[e].state = "free"
               /\ proof' = [proof EXCEPT ![e] = [conn |-> k.conn, state |-> "sent"]]
       ELSE UNCHANGED proof
    /\ UNCHANGED <<role, setting, booking, visit, journey, conn, handler, present, posts, tickets, ready, restarts>>

\* issueCredential: it fails while there is no credential definition.
IssueTicket(k) ==
    /\ k.what = "issue"
    /\ calls' = calls \ {k}
    /\ tickets' = IF ready THEN tickets \cup {k} ELSE tickets
    /\ UNCHANGED <<role, setting, booking, visit, journey, conn, handler, proof, present, posts, ready, restarts>>

CallFails(k) ==
    /\ ~setting.calm
    /\ calls' = calls \ {k}
    /\ UNCHANGED <<role, setting, booking, visit, journey, conn, handler, proof, present, posts, tickets, ready, restarts>>

-----------------------------------------------------------------------------
Next ==
    \/ Bootstrap \/ Restart
    \/ \E c \in Conns : Visit(c) \/ Book(c)
    \/ \E c \in Conns, k \in Copies :
          ReadInvitation(c, k) \/ SaveRequest(c, k) \/ SaveResponse(c, k)
    \/ \E e \in Exchanges, k \in Copies : Present(e, k) \/ Verify(e, k)
    \/ \E h \in Hooks : Post(h) \/ LosePost(h)
    \/ \E k \in calls : RequestProof(k) \/ IssueTicket(k) \/ CallFails(k)

Spec == Init /\ [][Next]_vars

\* The processes of the server and the agent go on.  Wallets, like travellers,
\* need not answer.
Fairness ==
    /\ \A c \in Conns : WF_vars(Book(c))
    /\ \A c \in Conns, k \in Copies : WF_vars(SaveRequest(c, k)) /\ WF_vars(SaveResponse(c, k))
    /\ \A e \in Exchanges, k \in Copies : WF_vars(Verify(e, k))
    /\ \A h \in Hooks : WF_vars(Post(h))
    /\ WF_vars(\E k \in calls : RequestProof(k) \/ IssueTicket(k))

FairSpec == Spec /\ Fairness

-----------------------------------------------------------------------------
\* Properties.

Proven(c, n) ==
    \E e \in Exchanges, k \in Copies :
        /\ proof[e].state # "free" /\ proof[e].conn = c
        /\ present[<<e, k>>].at = "done" /\ present[<<e, k>>].valid /\ present[<<e, k>>].name = n

\* A ticket is for the trip booked on its connection, and in a name its holder
\* has proven there, however webhooks are lost, repeated and reordered.
TicketForProven ==
    \A t \in tickets :
        role = "transport" => /\ visit[t.conn] = "shown" /\ t.trip = journey[t.conn]
                              /\ Proven(t.conn, t.name)

\* The wallet repeats its connection request or a presentation.
Repeats(c) ==
    \E j, k \in Copies :
        /\ j # k
        /\ \/ handler[<<c, j>>] # "idle" /\ handler[<<c, k>>] # "idle"
           \/ \E e \in Exchanges :
                 /\ proof[e].state # "free" /\ proof[e].conn = c
                 /\ present[<<e, j>>].at # "idle" /\ present[<<e, k>>].at # "idle"

\* A visit ends with at most one ticket, or card, if no webhook is posted twice
\* and the wallet does not repeat itself.
OneEach ==
    setting.calm => \A t, u \in tickets : t.conn = u.conn => t = u \/ Repeats(t.conn)

\* Unless a call or all the posts of a webhook get lost, a proof that holds is
\* followed by a ticket, even if the wallet repeats its messages.  The credit
\* card issuer asks for no proof: a connection is followed by a card.
Due(c) ==
    \/ role = "transport" /\ \E n \in Names : Proven(c, n)
    \/ role = "creditcard" /\ conn[c] = "response"

ProofSells == \A c \in Conns : (setting.calm /\ Due(c)) ~> (\E t \in tickets : t.conn = c)

\* The sale as a ticket office sees it.
Booked == [c \in Conns |-> IF visit[c] = "shown" THEN journey[c] ELSE NoTrip]
ProvenNames == [c \in Conns |-> {n \in Names : Proven(c, n)}]
Sold ==
    [c \in Conns |->
        {<<t.trip, t.name>> : t \in {u \in tickets : role = "transport" /\ u.conn = c}}]

Office == INSTANCE TicketOffice WITH booked <- Booked, proven <- ProvenNames, sold <- Sold

\* Every behaviour of the server and its agent is one of a ticket office:
\* bookings never change, and a ticket follows a proof of its connection.
SellsTickets == Office!Spec

=============================================================================
