SPECIFICATION FairSpec
CONSTANT Tasks <- MCTasks
CONSTANTS
    t1 = t1 t2 = t2 t3 = t3 t4 = t4
    NoTask = NoTask
    Pending = Pending
    Null = Null
    Cancelled = Cancelled
CHECK_DEADLOCK FALSE
INVARIANTS OneComputation SharedResult WaiterHasProducer
PROPERTY EveryCallerEnds
