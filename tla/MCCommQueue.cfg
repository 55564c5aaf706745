CONSTANTS
  Values = {a, b}
  NULL = NULL
  Size = 4
  Producers = {p}
  Consumers = {c1, c2}
SPECIFICATION Spec
INVARIANT CountExact
PROPERTY ImplementsFifo
