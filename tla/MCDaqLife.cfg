SPECIFICATION FairSpec
CONSTANTS
  Fds = {3}
  NoFd = NoFd
  Slots = 1
  MaxOpens = 2
  Faults = {"open", "map", "enable", "rx", "work", "tx", "socket", "connect", "send"}
INVARIANTS
  UsesWhatIsThere
  NothingLeft
  SentToReceiver
PROPERTIES
  CloseEnds
