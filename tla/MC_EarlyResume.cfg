SPECIFICATION Spec
CONSTANTS
    MaxFrames = 2
    MaxSwitches = 1
    MaxProducers = 1
    MaxInbox = 1
PROPERTY ResumesAfterAcknowledgement
CHECK_DEADLOCK FALSE
