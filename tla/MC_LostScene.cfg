CONSTANTS
    MaxSubmissions = 1
    MaxLosses = 2
    Deadline = 3
SPECIFICATION Spec
INVARIANTS
    AcknowledgedStateReplayed
CHECK_DEADLOCK FALSE
