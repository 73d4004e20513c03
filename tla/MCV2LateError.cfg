CONSTANTS
  cell = cell
  sheet = sheet
  p1 = p1
  Task <- TwoTasks
  CellTask <- OneCell
  Plan <- OnePlan
  Workers = 2
  SemanticRepairs = 1
  TransportRetries = 1
  Late = {"apply"}
  None = None
SPECIFICATION Spec
CHECK_DEADLOCK FALSE
INVARIANT OnlyAcceptedEdits
