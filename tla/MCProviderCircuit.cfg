CONSTANTS
  t1 = t1
  t2 = t2
  t3 = t3
  t4 = t4
  Task <- ThreeTasks
  Concurrency = 2
  None = None
SPECIFICATION Spec
CHECK_DEADLOCK FALSE
INVARIANT CircuitStopsSampling
