CONSTANTS
  t1 = t1  t2 = t2
  Trains = {t1, t2}
  MaxClock = 1
  MaxRows = 2
  MaxQueue = 2
  None = None
  w1 = w1  w2 = w2
  Workers = {w1, w2}
  Cap = 1
  Batch = 1
  MaxScans = 2
  MaxTasks = 2
  Devices = 2
  Sizes = {0, 1, 2}
  Keep = 1
  Few = 1
  Fresh = 4
  MaxFrames = 2
SPECIFICATION MCSpec
INVARIANTS RunningTaskHasFolder RowsOfScans
PROPERTIES OnlineAfterStop StopEndsToldTask
CHECK_DEADLOCK FALSE
