CONSTANTS
    c1 = c1
    c2 = c2
    w1 = w1
    w2 = w2
    Clients = {c1, c2}
    Windows = {w1, w2}
    Owner <- MCOwner
    Internal = Internal
    Root = Root
    Absent = Absent
    NoOp = NoOp
    MaxToken = 3
    MaxChildren = 0
    EnabledKinds = {"ScaleChange", "Focus"}
    InitialWindows = {w1}
    MaxPending = 2
    MaxRestarts = 1
    HasCursor = TRUE
    FaultySends = FALSE
SPECIFICATION FairSpec
PROPERTIES
    EveryOperationCompletes
    RebaseKeepsOwnRequest
CHECK_DEADLOCK FALSE
