SPECIFICATION FairSpec
CONSTANTS
    t1 = t1 t2 = t2 t3 = t3
    Tasks <- ThreeTasks
    Max = 1
CHECK_DEADLOCK FALSE
INVARIANT PendingIsServed
PROPERTIES NothingStartsAfterCancel PendingEnds CompleteEnds
