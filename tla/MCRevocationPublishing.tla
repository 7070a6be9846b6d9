------------------------- MODULE MCRevocationPublishing -------------------------
EXTENDS RevocationPublishing, TLC

CONSTANTS c1, c2, c3, r1, r2, o1, o2

\* Two credentials in one registry and one in another.
ThreeCreds == {c1, c2, c3}
TwoRegs == {r1, r2}
HomeOfThree == [c \in ThreeCreds |-> IF c = c3 THEN r2 ELSE r1]

TwoCalls == {o1, o2}

\* Two operations at once on the credentials of one registry; and one after
\* another, failing anywhere, on those of two.
RaceAndFailures ==
    {[issued |-> {c1, c2}, kinds |-> AllKinds, serial |-> FALSE, failing |-> FALSE],
     [issued |-> ThreeCreds, kinds |-> AllKinds \ {"revoke"}, serial |-> TRUE, failing |-> TRUE]}

\* The operations are alike.
CallSymmetry == Permutations(TwoCalls)
=============================================================================
