CONSTANTS
  Getters = {d1,d2}
  Droppers = {d1, d2}
  Nodes = {n1, n2, n3}
  Objects = {o1, o2, o3}
  MaxCount = 1
  CountMod = 8
  Null = Null
SPECIFICATION Spec
INVARIANTS HeadIsTopOfStack
CHECK_DEADLOCK FALSE
