SPECIFICATION FairSpec
CONSTANTS
  Mapped = {m}
  Remote = {x}
  Values = {zero, one}
  Zero = zero
  Ones = Ones
  Tries = 2
  MaxCalls = 2
  Offered = {"run", "reg", "cmd", "data"}
  Faults = {"loss", "status"}
INVARIANTS
  OwnAnswer
  ReallySent
  Coherent
  OneRetry
PROPERTIES
  CallEnds
CHECK_DEADLOCK FALSE
