SPECIFICATION FairSpec
CONSTANTS
  None = None
  Channel = {l1, b1}
  Lan = {l1}
  Skew = 1
  Versions = {TRUE}
  MaxPackets = 3
  MaxActions = 1
INVARIANTS
  PreferredChannel
  PluginInformed
  HandledInOrder
PROPERTIES
  UnpairedIsUnheard
  PacketsAreHandled
CHECK_DEADLOCK FALSE
