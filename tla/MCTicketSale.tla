------------------------------ MODULE MCTicketSale ------------------------------
EXTENDS TicketSale

CONSTANTS c1, c2, t1, n1, n2, none

TwoConns == {c1, c2}
OneTrip == {t1}
TwoNames == {n1, n2}
Twice == 1..2
AllRoles == {"transport", "creditcard", "inspector"}

\* One visitor whose wallet sends everything twice; two at once; and one in a
\* world where anything of the server's gets lost or comes again.
CalmAndNot ==
    {[calm |-> TRUE, visitors |-> {c1}, sends |-> Twice],
     [calm |-> TRUE, visitors |-> TwoConns, sends |-> {1}],
     [calm |-> FALSE, visitors |-> {c1}, sends |-> {1}]}
=============================================================================
