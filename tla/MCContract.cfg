CONSTANTS
  S = S
  T = T
  X = X
  x = x
  v = v
  w = w
  Name <- Titles
  Key <- TheKeys
  Creatable <- Titles
  Columns = 1
  Rows = 3
  Limit = 3
  Value <- TheValues
  Blank = Blank
  Keep = Keep
  Unsafe = Unsafe
  Unwritable = Unwritable
  None = None
  Books <- TheBooks
  Tasks <- TheTasks
  Replies <- TheReplies
SPECIFICATION Spec
CHECK_DEADLOCK FALSE
INVARIANTS AllOrNothing NothingElseChanges EvaluatorReadsReturned
