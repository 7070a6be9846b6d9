--------------------------- MODULE MCRegistryRollover ---------------------------
EXTENDS RegistryRollover, TLC

CONSTANTS i1, i2

TwoIssuers == {i1, i2}

\* The states of a record in which its task may fail: not "posted", which
\* nothing takes up again.
ButPosted == {"init", "generated", "active"}
=============================================================================
