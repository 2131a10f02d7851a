SPECIFICATION MCSpec
CONSTANTS
    MaxLinks = 2
    MaxWire = 2
    None = None
INVARIANTS
    HandlersAreLive
CHECK_DEADLOCK FALSE
