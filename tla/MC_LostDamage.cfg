CONSTANTS
    w1 = w1
    w2 = w2
    Windows = {w1}
    Widths <- MCWidths
    Covered <- MCCovered
    MaxDraws = 1
    MaxRequests = 3
    MaxRejections = 1
    MaxLosses = 0
SPECIFICATION Spec
INVARIANT RefusalKeepsDamage
CHECK_DEADLOCK FALSE
