SPECIFICATION FairSpec
CONSTANTS
    Outputs = {o1}
    Primary = o1
    Tools = {t1, t2}
    MaxGeneration = 3
    MaxResets = 2
    MaxRequests = 1
    MaxSnapshots = 2
    None = None
INVARIANTS
    AuthoritiesAgree
PROPERTIES
    AcceptedMeansApplied
    EveryCommitIsFinished
CHECK_DEADLOCK FALSE
