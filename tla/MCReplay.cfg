CONSTANTS
  t1 = t1
  t2 = t2
  failed1 = failed1
  unwritten = unwritten
  ok1 = ok1
  Task <- TwoTasks
  Result <- TwoFailuresOneSuccess
  Success <- OneSuccess
  Replayable <- FailedWrite
  Pristine = Pristine
  None = None
  Concurrency = 1
  Hazard = {"interrupt"}
  ReplayHazard = {"kill", "io"}
SPECIFICATION FairSessions
INVARIANTS Resumable ReplayReports
PROPERTIES FinishedWorkIsKept ReplayOnlyRepairs
