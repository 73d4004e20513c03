CONSTANTS
  t1 = t1
  t2 = t2
  t3 = t3
  t4 = t4
  Task <- FourTasks
  Concurrency = 3
  None = None
SPECIFICATION FairSpec
CHECK_DEADLOCK FALSE
INVARIANTS OneClient OverrunIsBounded NothingIsLeft
PROPERTY WaitersLeave
