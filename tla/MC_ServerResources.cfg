SPECIFICATION Spec
CONSTANTS
    Bases = {1, 2}
    Indices = {1, 2, 3}
    KindsAt <- MCKindsAt
    MaxClients = 3
    Cells = {1}
    Limits <- MCLimits
    Modes = {TRUE, FALSE}
    Workloads <- MCWorkloads
INVARIANTS
    TableIsConsistent
    BasesAreClean
    LeavesNoTrace
CHECK_DEADLOCK FALSE
