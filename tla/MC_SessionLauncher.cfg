CONSTANTS
    Signals <- MCSignals
    MaxSignals = 1
SPECIFICATION FairSpec
PROPERTIES
    StartsAfterItsServers
    TakenDownInReverse
    SessionEnds
CHECK_DEADLOCK FALSE
