SPECIFICATION Spec
CONSTANTS
  Rows = 2
  Blank = {}
  BatchSize = 1
  Concurrency = 1
  Worker = {w1}
  Request = {}
  MaxFaults = 0
INVARIANTS CompletedMeansProcessed
CHECK_DEADLOCK FALSE
