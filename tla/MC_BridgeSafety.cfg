CONSTANTS
    MaxSubmissions = 3
    MaxLosses = 3
    Deadline = 2
SPECIFICATION FairSpec
INVARIANTS
    NothingLostOrRepeated
    ResultsAreAcknowledged
    PeersHoldAcknowledgedState
PROPERTIES
    RecoversOrFails
CHECK_DEADLOCK FALSE
