SPECIFICATION Spec
CONSTANTS
    i1 = i1 i2 = i2 h1 = h1 h2 = h2
    ir1 = ir1 ir2 = ir2 hr1 = hr1 hr2 = hr2
    q1 = q1 q2 = q2 c1 = c1 c2 = c2
    None = None
    IssuerHandlers <- TwoIssuerHandlers
    HolderHandlers <- OneHolderHandler
    IssuerRecs <- OneIssuerRec
    HolderRecs <- TwoHolderRecs
    Requests <- MCRequests
    Creds <- MCCreds
    AutoOffer = FALSE
    AutoRequest = TRUE
    AutoIssue = TRUE
    AutoStore = TRUE
    IssuerRemoves = TRUE
    HolderRemoves = TRUE
    MaxFault = 1
    MaxDup = 1
    Lasting = FALSE
CHECK_DEADLOCK FALSE
SYMMETRY Symmetry
INVARIANTS AckMeansStored
PROPERTIES RemovedStaysRemoved IssuanceSpec
