SPECIFICATION FairSpec
CONSTANTS
    i1 = i1 i2 = i2 h1 = h1 h2 = h2
    ir1 = ir1 ir2 = ir2 hr1 = hr1 hr2 = hr2
    q1 = q1 q2 = q2 c1 = c1 c2 = c2
    None = None
    IssuerHandlers <- OneIssuerHandler
    HolderHandlers <- OneHolderHandler
    IssuerRecs <- TwoIssuerRecs
    HolderRecs <- TwoHolderRecs
    Requests <- MCRequests
    Creds <- MCCreds
    AutoOffer = TRUE
    AutoRequest = TRUE
    AutoIssue = TRUE
    AutoStore = TRUE
    IssuerRemoves = TRUE
    HolderRemoves = TRUE
    MaxFault = 0
    MaxDup = 2
    Lasting = TRUE
CHECK_DEADLOCK FALSE
INVARIANTS IssuedOnce ReceivedCanBeStored
PROPERTY OfferReachesWallet
