SPECIFICATION Spec
CONSTANTS
  a = a
  b = b
  lan = lan
  bt = bt
  a1 = a1
  a2 = a2
  a3 = a3
  a4 = a4
  b1 = b1
  None = None
  LocalId = LocalId
  Id = {a, b}
  Channel = {a1, a2, a3, a4, b1}
  Service = {lan, bt}
  Peer <- MCPeer
  Limit = 2
  MaxStops = 3
  MaxFaults = 1
INVARIANTS
  PairedIsRemembered
  DiskAgrees
  ChannelsAreListed
PROPERTIES
  IdleWereRefused
  ShutdownSavesPaired
CHECK_DEADLOCK FALSE
