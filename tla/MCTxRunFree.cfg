SPECIFICATION Spec
CONSTANTS
  Buffers = {n1, n2}
  Events = {e1, e2}
  NoEvent = NoEvent
  Header = Header
  Global = Global
  NDests = 1
  Headers = 1
  Depth = 1
  Configs <- TcpOnly
  Faults = {}
  Empties = {1}
SYMMETRY Symmetry
INVARIANTS
  FreesItsNodes
