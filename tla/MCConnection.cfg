SPECIFICATION FairSpec
CONSTANTS
    i1 = i1 i2 = i2 t1 = t1 t2 = t2
    Invitees <- TwoInvitees
    Tasks <- TwoTasks
    Settings <- Chosen
    MaxAsks = 2
CHECK_DEADLOCK FALSE
INVARIANTS Agreement CompletedIsKnown
PROPERTIES Connects
