SPECIFICATION LedgerFairSpec
CONSTANTS
    r1 = r1 r2 = r2
    Requests <- TwoRequests
    Closer = Closer
    MaxLeaks = 1
CHECK_DEADLOCK FALSE
INVARIANTS InsideHasPool ToldIsPublished
PROPERTIES PoolCloses EveryRequestEnds
