CONSTANTS
  Dests = {d0, d1}
  Stray = Stray
  Unknown = Unknown
  NoEvent = NoEvent
  FrameTicks = 2
  Depth = 2
  Buffers = 4
  Events = 4
  TxSlots = 3
  Configs <- Reconfigs
  Modes <- AllModes
  FirstConfigs <- External11
  Skew = 1
  Frames = 2
  Strays = 1
  TriggerGap = 2
  TriggerLag = 1
  TimingSlots = 1
  Faults = {}
SPECIFICATION Spec
INVARIANT NeverDiscards
SYMMETRY Symmetry
CHECK_DEADLOCK FALSE
