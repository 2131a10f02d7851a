SPECIFICATION FairSpec
CONSTANTS
  None = None
  Request = {r1, r2, r3}
  Cancellable = {r1, r2}
PROPERTIES
  EveryRequestAnswered
CHECK_DEADLOCK FALSE
