CONSTANTS
  Getters = {g1}
  Droppers = {g1, d1}
  Nodes = {n1, n2, n3}
  Objects = {o1, o2, o3}
  MaxCount = 1
  CountMod = 8
  Null = Null
SPECIFICATION Spec
INVARIANTS NoUseAfterFree SingleOwner CounterAndMaximum
PROPERTIES ImplementsAbstractPool
CHECK_DEADLOCK FALSE
