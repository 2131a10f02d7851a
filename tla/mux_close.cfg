SPECIFICATION FairSpec
CONSTANTS
  End = {a, b}
  None = None
  Openers = {a}
  Size = 2
  Writers = {a}
  MaxBytes = 3
  Capacity = 2
  MaxStops = 1
PROPERTIES
  CloseReturns
CHECK_DEADLOCK FALSE
