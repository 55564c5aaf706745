CONSTANTS
  Dests = {d0, d1}
  Stray = Stray
  Unknown = Unknown
  NoEvent = NoEvent
  FrameTicks = 3
  Depth = 2
  Buffers = 4
  Events = 4
  TxSlots = 3
  Configs = {}
  Modes = {}
  FirstConfigs <- External11
  Skew = 2
  Frames = 3
  Strays = 0
  TriggerGap = 1
  TriggerLag = 8
  TimingSlots = 1
  Faults = {"lost", "error"}
SPECIFICATION Spec
INVARIANT Bookkeeping
INVARIANT OwnedOnce
INVARIANT LatencyInOrder
INVARIANT NoneLeftBehind
INVARIANT NoHoles
SYMMETRY Symmetry
CHECK_DEADLOCK FALSE
