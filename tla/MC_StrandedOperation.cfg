CONSTANTS
    c1 = c1
    c2 = c2
    w1 = w1
    w2 = w2
    Clients = {c1, c2}
    Windows = {w1, w2}
    Owner <- MCOwner
    Internal = Internal
    Root = Root
    Absent = Absent
    NoOp = NoOp
    MaxToken = 3
    MaxChildren = 0
    EnabledKinds = {"Create"}
    InitialWindows = {w1}
    MaxPending = 3
    MaxRestarts = 0
    HasCursor = TRUE
    FaultySends = FALSE
SPECIFICATION Spec
INVARIANTS
    EveryFrameResumes
CHECK_DEADLOCK FALSE
