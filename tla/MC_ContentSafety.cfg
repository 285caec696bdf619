CONSTANTS
    w1 = w1
    w2 = w2
    Windows = {w1, w2}
    Widths <- MCWidths
    Covered <- MCCovered
    MaxDraws = 2
    MaxRequests = 3
    MaxRejections = 1
    MaxLosses = 1
SPECIFICATION FairSpec
INVARIANTS
    ReleasesMatchRetirements
    NoDamageIsLost
PROPERTIES
    ScreenCatchesUp
CHECK_DEADLOCK FALSE
