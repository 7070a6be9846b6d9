------------------------------ MODULE TicketOffice ------------------------------
(***************************************************************************)
(* What the demonstrator promises of a sale, whatever webhooks and calls    *)
(* it takes: a trip is booked, a name is proven on the same connection, and *)
(* only then is a ticket issued, for that trip and such a name.             *)
(***************************************************************************)
CONSTANTS Conns, Trips, Names, NoTrip

VARIABLES
    booked,     \* the trip of each sale
    proven,     \* the names proven
    sold        \* tickets issued: trip and name

Init ==
    /\ booked = [c \in Conns |-> NoTrip]
    /\ proven = [c \in Conns |-> {}]
    /\ sold = [c \in Conns |-> {}]

\* A trip is booked once.
Book(c) ==
    /\ booked[c] = NoTrip
    /\ \E t \in Trips : booked' = [booked EXCEPT ![c] = t]
    /\ UNCHANGED <<proven, sold>>

\* A name is proven after the booking.
Prove(c) ==
    /\ booked[c] # NoTrip
    /\ \E n \in Names : proven' = [proven EXCEPT ![c] = @ \cup {n}]
    /\ UNCHANGED <<booked, sold>>

\* A ticket is issued, one name at a time.
Sell(c) ==
    /\ \E n \in proven[c] : sold' = [sold EXCEPT ![c] = @ \cup {<<booked[c], n>>}]
    /\ UNCHANGED <<booked, proven>>

Next == \E c \in Conns : Book(c) \/ Prove(c) \/ Sell(c)

Spec == Init /\ [][Next]_<<booked, proven, sold>>
=============================================================================
