CONSTANTS
    w1 = w1
    w2 = w2
    Windows = {w1}
    Widths <- MCWidths
    Covered <- MCCovered
    MaxDraws = 1
    MaxRequests = 1
    MaxRejections = 0
    MaxLosses = 0
SPECIFICATION Spec
INVARIANT LeavingIsHarmless
CHECK_DEADLOCK FALSE
