CONSTANTS
  t1 = t1
  t2 = t2
  failed1 = failed1
  failed2 = failed2
  ok1 = ok1
  Task <- TwoTasks
  Result <- TwoFailuresOneSuccess
  Success <- OneSuccess
  Pristine = Pristine
  None = None
  Concurrency = 2
  Hazard = {"kill", "io", "interrupt"}
  Radix = 2
  CutChars = 3
  SmallRange = 3
  Evidence <- FiveCells
  CharBudgets <- TightAndAmple
SPECIFICATION FairSpec
INVARIANTS Recoverable NoCallForSuccess ChecksNeverRefuse RefusesOnlyFirstAttempts
  ReportMatchesDirectory ValidatorAgrees DocumentFits
PROPERTIES ImplementsLedger DrainEnds RecoverySettles
