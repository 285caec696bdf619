CONSTANTS
    w1 = w1
    w2 = w2
    Windows = {w1}
    Widths <- MCWidths
    Covered <- MCCovered
    MaxDraws = 1
    MaxRequests = 2
    MaxRejections = 0
    MaxLosses = 1
SPECIFICATION Spec
INVARIANT RestartIsSurvived
CHECK_DEADLOCK FALSE
