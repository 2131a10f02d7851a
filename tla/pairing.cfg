SPECIFICATION FairSpec
CONSTANTS
  Peer = {a, b}
  Skew = 1
  Versions = {TRUE, FALSE}
  MaxActions = 4
  MaxData = 1
  MaxDrops = 2
  MaxClock = 2
INVARIANTS
  PairingIsSound
  Consent
PROPERTIES
  EventuallyQuiet
  MismatchHeals
CHECK_DEADLOCK FALSE
