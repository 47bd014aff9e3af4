CONSTANTS
  p1 = p1  p2 = p2
  Players = {p1, p2}
  NoPlayer = NoPlayer
  Ports = {0, 1, 2}
  ThreadIds = {1, 2}
  MaxThreads = 2
  MaxOutages = 2
  Fields = {"kilo_meter", "line_dir"}
  Values = {0, 1}
  MaxConditions = 3
  Width <- MCWidth
  MaxBytes = 4
  MaxLines = 3
  Told <- MCTold
  MaxTold = 2
  BusPorts = {1500, 1501}
  ArmNos = {2, 4, 5, 7, 9}
  ModulNos = {0, 13, 16}
  ComId = 7
  AliveTime = 1
  AliveLimit = 3
  Voltages = {0, 3}
  Threshold = 1
  Devices = 2
  TimeoutTicks = 1
  MaxVoltages = 5
  Buffers = 2
  Measures = 2
  MaxStarts = 2
  MaxLogins = 2
  MaxMeasured = 2
  MaxPictures = 2
  Limit = 0
  MaxPositions = 4
  MaxBreaks = 1
  Tables = {"arc", "ir"}
  DbNames = {"d1", "d2"}
  NoDbName = NoDbName
  MaxNotices = 3
SPECIFICATION MCSpec
INVARIANTS ImagesOfCameras RowsInDatabase 
CHECK_DEADLOCK FALSE
