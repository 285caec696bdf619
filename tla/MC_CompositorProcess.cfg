SPECIFICATION FairSpec
CONSTANTS
    MaxFrames = 3
    MaxSwitches = 2
    MaxProducers = 1
    MaxInbox = 2
INVARIANTS
    ScreenIsCommitted
    RestoredAtExit
PROPERTIES
    NeverTearsOrTrespasses
    ReleaseIsAnswered
CHECK_DEADLOCK FALSE
