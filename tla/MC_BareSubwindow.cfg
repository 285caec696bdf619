CONSTANTS
    w1 = w1
    w2 = w2
    Windows = {w1}
    Widths <- MCWidths
    Covered <- MCCovered
    MaxDraws = 3
    MaxRequests = 3
    MaxRejections = 0
    MaxLosses = 0
SPECIFICATION Spec
INVARIANT SubwindowsAreShown
CHECK_DEADLOCK FALSE
