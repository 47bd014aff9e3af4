CONSTANTS
  CacheLimit = 2
  MaxFrames = 4
  MaxRecordings = 2
SPECIFICATION SaverFairSpec
INVARIANTS RecordingsApart
PROPERTIES RecordingEnds StopReturns
CHECK_DEADLOCK FALSE
