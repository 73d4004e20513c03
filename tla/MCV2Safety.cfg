CONSTANTS
  cell = cell
  sheet = sheet
  p1 = p1
  Task <- TwoTasks
  CellTask <- OneCell
  Plan <- OnePlan
  Workers = 2
  SemanticRepairs = 1
  TransportRetries = 1
  Late = {"promote", "fallback", "trace", "predictions"}
  None = None
SPECIFICATION FairSpec
CHECK_DEADLOCK FALSE
PROPERTIES ImplementsBatch RunEnds
INVARIANTS ValidationAccepts TraceIsHonest CallBudget MetricsTellTheRun
