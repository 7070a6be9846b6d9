SPECIFICATION FairSpec
CONSTANTS
    m1 = m1 e1 = e1 w1 = w1
    Messages <- MCMessages
    Encoded <- MCEncoded
    Webhooks <- MCWebhooks
    MaxRetry = 2
CHECK_DEADLOCK FALSE
INVARIANTS NothingOverlooked NeverBoth LeavesNoticed
PROPERTY EveryMessageLeaves
