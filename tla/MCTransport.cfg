CONSTANTS
  Retries = 1
  MaxWait = 4
  Backoff <- Doubling
  Stagger <- TwoStaggers
  RetryAfter <- Headers
  Absent = Absent
  EventBound = 7
  IndexBound = 1
  TokenBound = 1
SPECIFICATION Spec
CHECK_DEADLOCK FALSE
INVARIANTS RepliesAreWellFormed ToldOnce
PROPERTY NoReplayOfDecoded
