CONSTANTS
  Clients = {c1}
  Names = {nameA}
  Delays = {0, 1, 2}
  MaxTime = 3
  MaxTasks = 1
SPECIFICATION FairSpec
PROPERTIES RunAfterRuns
CHECK_DEADLOCK FALSE
