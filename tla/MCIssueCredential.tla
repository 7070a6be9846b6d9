-------------------------- MODULE MCIssueCredential --------------------------
EXTENDS IssueCredential, TLC

CONSTANTS i1, i2, h1, h2, ir1, ir2, hr1, hr2, q1, q2, c1, c2

OneIssuerHandler == {i1}
TwoIssuerHandlers == {i1, i2}
OneHolderHandler == {h1}
TwoHolderHandlers == {h1, h2}
OneIssuerRec == {ir1}
TwoIssuerRecs == {ir1, ir2}
OneHolderRec == {hr1}
TwoHolderRecs == {hr1, hr2}
MCRequests == {q1, q2}
OneRequest == {q1}
MCCreds == {c1, c2}

Symmetry == Permutations(MCRequests) \cup Permutations(MCCreds)
             \cup Permutations(TwoIssuerRecs) \cup Permutations(TwoHolderRecs)
             \cup Permutations(TwoIssuerHandlers) \cup Permutations(TwoHolderHandlers)
=============================================================================
