CONSTANTS
    kMaximumOutputs = 2
    kMaximumPhysicalExtent = 5
    kMaximumPhysicalPixels = 20
    kMaximumTotalOutputPixels = 20
    kMaximumRootLogicalWidth = 6
    kMaximumRootLogicalHeight = 5
    kMaximumScaleDenominator = 3
    kMaximumModesPerOutput = 3
    maximum_rectangles = 2
    DamageLimit = 2
    Inventories <- MCInventories
    Requests <- MCRequests
    Redraws <- MCRedraws
    InitialSurfaces <- MCInitialSurfaces
    MaxGeneration = 2
    Radix = 16
    IdBytes = 2
    kOpacityOne = 4096
    kMaximumDamageRectangles = 2
    kMaximumManagedOutputs = 3
    kMaximumOutputNameBytes = 4
    kMaximumInstanceLabel = 4
    kMaximumDiagnosticString = 4
    kHardMaximumPayload = 4096
    Messages <- MCMessages
    Foreign <- MCForeign
SPECIFICATION ConversionsSpec
INVARIANT CursorGoesAnywhere
CHECK_DEADLOCK FALSE
