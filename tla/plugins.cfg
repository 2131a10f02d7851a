SPECIFICATION MCSpec
CONSTANTS
    MaxLinks = 2
    MaxWire = 2
    None = None
INVARIANTS
    MirrorsAgree
    CachesAreCurrent
    RemoteDataIsStored
    NothingIsLeftOver
    InputIsInOrder
    ComponentsAgree
PROPERTIES
    OthersAreSpared
CHECK_DEADLOCK FALSE
