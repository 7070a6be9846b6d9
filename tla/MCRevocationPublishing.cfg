SPECIFICATION Spec
CONSTANTS
    c1 = c1 c2 = c2 c3 = c3 r1 = r1 r2 = r2 o1 = o1 o2 = o2
    Creds <- ThreeCreds
    Regs <- TwoRegs
    Home <- HomeOfThree
    Calls <- TwoCalls
    Settings <- RaceAndFailures
SYMMETRY CallSymmetry
CHECK_DEADLOCK FALSE
INVARIANTS OneDelta LedgerFollows MarkStays ToldIsTrue
