SPECIFICATION FairSpec
CONSTANTS
  Buffers = {n1, n2}
  Events = {e1, e2}
  NoEvent = NoEvent
  Header = Header
  Global = Global
  NDests = 2
  Headers = 2
  Depth = 1
  Configs <- RssiOnly
  Faults = {"rssi"}
  Empties = {2}
INVARIANTS
  BuffersOwnedOnce
  PiecesFilled
PROPERTIES
  PostedIsFreed
