CONSTANTS
  Dests = {d0, d1}
  Stray = Stray
  Unknown = Unknown
  NoEvent = NoEvent
  FrameTicks = 2
  Depth = 2
  Buffers = 8
  Events = 8
  TxSlots = 7
  Configs = {}
  Modes = {}
  FirstConfigs <- External31Software20
  Skew = 2
  Frames = 5
  Strays = 0
  TriggerGap = 5
  TriggerLag = 1
  TimingSlots = 1
  Faults = {}
SPECIFICATION FairSpec
INVARIANT NothingLeaked
INVARIANT SpotsExact
INVARIANT WindowCovered
INVARIANT TriggerInNode
INVARIANT NeverExits
INVARIANT TimeOrdered
PROPERTY EventCompletes
CHECK_DEADLOCK FALSE
