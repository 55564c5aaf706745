SPECIFICATION Spec
CONSTANTS
  Buffers = {n1, n2}
  Events = {e1, e2}
  NoEvent = NoEvent
  Header = Header
  Global = Global
  NDests = 1
  Headers = 2
  Depth = 1
  Configs <- AllConfigs
  Faults = {"tcp", "rssi"}
  Empties = {1}
SYMMETRY Symmetry
INVARIANTS
  DescriptorsOwnedOnce
  HeadersOwned
  SizeAgrees
