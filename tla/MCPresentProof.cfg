SPECIFICATION FairSpec
CONSTANTS
    t1 = t1 t2 = t2
    Tasks <- TwoTasks
    Settings <- Chosen
    MaxThreads = 1
CHECK_DEADLOCK FALSE
INVARIANTS VerifiedIsOfStored ValidIsAccepted
PROPERTIES Completes
