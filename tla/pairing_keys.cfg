SPECIFICATION Spec
CONSTANTS
  Peer = {a, b}
  Skew = 1
  Versions = {TRUE}
  MaxActions = 3
  MaxData = 0
  MaxDrops = 1
  MaxClock = 2
INVARIANTS
  KeysAgree
CHECK_DEADLOCK FALSE
