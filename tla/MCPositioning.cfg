CONSTANTS
  MaxReadings = 2
  MaxSent = 3
  Poles = {2, 4, 8}
  Anchors = {4}
  Starts = {0, 4}
  MaxDis = 2
  Offset = 1
  Near = 0
  Far = 2
  SpanPart = 2
  None = None
SPECIFICATION Spec
INVARIANTS StoredOnceInOrder EndFollowsStart PoleBehindOrLast
PROPERTY ImageShiftBounded
CHECK_DEADLOCK FALSE
