CONSTANTS
  Clients = {c1, c2}
  Names = {nameA}
  Delays = {0, 1, 2}
  MaxTime = 3
  MaxTasks = 3
SPECIFICATION Spec
INVARIANTS TimersOfAName
PROPERTIES PeriodicIsKept LateThreadNeverEnds
CHECK_DEADLOCK FALSE
