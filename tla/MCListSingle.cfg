CONSTANTS
  Nodes = {n1, n2, n3, n4}
  Head0 = Head0
SPECIFICATION Spec
INVARIANT HoldsWhatWasPut
PROPERTY BehavesAsSingleList
