CONSTANTS
    c1 = c1
    c2 = c2
    w1 = w1
    w2 = w2
    Clients = {c1, c2}
    Windows = {w1, w2}
    Owner <- MCOwner
    Internal = Internal
    Root = Root
    Absent = Absent
    NoOp = NoOp
    MaxToken = 2
    MaxChildren = 0
    EnabledKinds = {"Map", "PolicyChange"}
    InitialWindows = {w1, w2}
    MaxPending = 2
    MaxRestarts = 0
    HasCursor = FALSE
    FaultySends = FALSE
SPECIFICATION Spec
PROPERTIES
    IntentNeverReverts
CHECK_DEADLOCK FALSE
