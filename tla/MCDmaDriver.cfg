SPECIFICATION FairSpec
CONSTANTS
  Threads = {t1, t2}
  Buffers = {b1, b2}
  TxBuffers = {x1, x2}
  None = None
  Gone = Gone
  Modes = {"nonblock", "block"}
  Faults = {"signal"}
INVARIANTS
  OnePlace
  HeldIsStable
  WritesWhole
PROPERTIES
  CallsEnd
