SPECIFICATION InboundFairSpec
CONSTANTS
    h1 = h1 w1 = w1 k1 = k1 t1 = t1 t2 = t2 m1 = m1 m2 = m2
    Https <- MCHttps
    Sockets <- MCSockets
    Keys <- MCKeys
    Threads <- MCThreads
    Msgs <- MCMsgs
    To <- MCTo
    Thread <- MCThread
    Packed <- MCPacked
    Modes <- MCModes
    MaxHandling = 1
    NoMsg = NoMsg
CHECK_DEADLOCK FALSE
INVARIANTS HeldOnce
PROPERTIES BufferDrains PickedUp
