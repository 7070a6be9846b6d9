SPECIFICATION RolloverFairSpec
CONSTANTS
    i1 = i1 i2 = i2
    Issuers <- TwoIssuers
    Size = 2
    Retries = 1
    MaxRegs = 8
    Faults = 1
    FailAt <- ButPosted
    Timely = TRUE
CHECK_DEADLOCK FALSE
INVARIANT IssuedOnLedger
PROPERTY Served
