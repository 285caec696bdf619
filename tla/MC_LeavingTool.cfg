SPECIFICATION Spec
CONSTANTS
    Outputs = {o1, o2}
    Primary = o1
    Tools = {t1, t2}
    MaxGeneration = 2
    MaxResets = 1
    MaxRequests = 1
    MaxSnapshots = 2
    None = None
PROPERTIES
    LeavingToolIsHarmless
CHECK_DEADLOCK FALSE
