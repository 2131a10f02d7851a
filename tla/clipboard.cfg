SPECIFICATION Spec
CONSTANTS
    Text = {a, b}
    Empty = Empty
    MaxEvents = 3
    MaxLinks = 1
    MaxWire = 1
INVARIANTS
    LastCopyArrives
CHECK_DEADLOCK FALSE
