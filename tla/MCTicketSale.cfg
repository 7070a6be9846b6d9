SPECIFICATION FairSpec
CONSTANTS
    c1 = c1 c2 = c2 t1 = t1 n1 = n1 n2 = n2
    NoTrip = none NoName = none none = none
    Roles <- AllRoles
    Conns <- TwoConns
    Trips <- OneTrip
    Names <- TwoNames
    Exchanges <- Twice
    Copies <- Twice
    Posts = 2
    Settings <- CalmAndNot
    Restarts = 1
CHECK_DEADLOCK FALSE
INVARIANT OneEach
PROPERTIES SellsTickets ProofSells
