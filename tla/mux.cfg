SPECIFICATION FairSpec
CONSTANTS
  End = {a, b}
  None = None
  Openers = {a, b, None}
  Size = 2
  Writers = {a}
  MaxBytes = 3
  Capacity = 2
  MaxStops = 1
INVARIANTS
  CreditsAgree
  DataIsIntact
PROPERTIES
  EveryByteArrives
  ClosingWakes
CHECK_DEADLOCK FALSE
