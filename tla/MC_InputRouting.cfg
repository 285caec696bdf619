SPECIFICATION Spec
CONSTANTS
    Tree <- MCTree
    Owner <- MCOwner
    Selects <- MCSelects
    Extent <- MCExtent
    Place <- MCPlace
    RootWidth = 8
    Bindings <- MCBindings
    Polite = {"B"}
    Keys = {64, 24}
    Buttons = {1, 3}
    Moves = {6}
    Wishes <- MCWishes
    Providers = {"real", "synthetic"}
    QueueLimit = 4
    MaxInputs = 4
    MaxOthers = 1
INVARIANTS
    HeldStateAgrees
    EveryPressIsReleased
    NothingIsStuck
CHECK_DEADLOCK FALSE
