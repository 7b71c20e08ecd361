CONSTANTS
  MaxRetries = 2
  MaxRetryTime = 7
  MaxRunTime = 9
  CostCaps = {2, NoCap}
  NoCap = NoCap
  RetryBackoff = 1
  MaxDelay = 3
  Jitters = {0, 1}
  Oversleeps = {0, 2}
  Durations = {0, 3}
  Errors <- SomeErrors
  MaxRequests = 2

SPECIFICATION FairRequestSpec
INVARIANTS ReplaysKnown RequestsBounded
PROPERTIES EveryRequestEnds
CHECK_DEADLOCK FALSE
