SPECIFICATION Spec
CONSTANTS
  Clients = {c1, c2}
  MaxClients = 2
  Values = {v0, v1}
  Default = v0
  None = None
  TcpAsks = {"read", "reset"}
  ShmAsks = {"set", "get"}
  Faults = {"write", "send"}
  CountMod = 256
  MaxMessages = 2
  MaxCommands = 2
INVARIANTS
  DoneOnce
  FailureTold
  ViewsCurrent
  AnsweredInPass
