CONSTANTS
  c1 = c1  c2 = c2
  MaxItems = 4
  MaxBatch = 2
  Keep = 1
  MaxRequests = 7
  Interval = 2
  Limit = 1
  Cameras = {c1, c2}
  MaxEvents = 3
  MaxSearches = 2
  Scans <- MCScans
  Gap = 2
  MinPoints = 0
  Prealloc = 1
  Circle = 12
  MaxDiff = 0
  Grow = 2
  MaxObjects = 3
  NoScan = NoScan
  s1 = s1  s2 = s2
  Stations = {s1, s2}
  NoStation = NoStation
  MaxUpdates = 4
  MaxImages = 4
  MaxStarts = 3
  Delay = 1
  MaxReplies = 5
  t1 = t1  t2 = t2
  Tags = {t1, t2}
  NoTag = NoTag
  MaxWire = 2
  MaxCalls = 5
SPECIFICATION MCSpec
INVARIANTS HandedOnInOrder AnswersOfDevices RegionsOfScans RecordingsSound
PROPERTIES NothingWaitsForEver ThreadsEnd RepliesAreTold
CHECK_DEADLOCK FALSE
