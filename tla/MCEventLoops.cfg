CONSTANTS
  c1 = c1  c2 = c2
  module = module  invoke = invoke
  q1 = q1  q2 = q2  q3 = q3  q4 = q4
  Callers = {c1, c2}
  Names = {module, invoke}
  Asks <- AsksAll
  Home <- HomeOfHandler
  QThreads = {q1, q2, q3, q4}
  None = None
  m1 = m1  m2 = m2  w1 = w1
  Modules = {m1, m2}
  Workers = {w1}
  MaxCalls = 3
SPECIFICATION MCSpec
INVARIANTS OneLoopPerName NoLoopInUseDestroyed SlotsInLife NoCrossWait
PROPERTIES StopReturns ShutdownCompletes SyncCallReturns
CHECK_DEADLOCK FALSE
