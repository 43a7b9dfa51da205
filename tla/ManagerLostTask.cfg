\* One submitter, one task, nothing fails.
CONSTANTS
  Submitters = {s1}
  Threads = {t1}
  TaskObjects = {n1}
  NULL = NULL
  PoolSize = 1
  PoolMax = 1
  PoolPre = 0
  MaxRuns = 1
  MaxFaults = 0
SPECIFICATION Spec
INVARIANT AllTasksRun
CHECK_DEADLOCK FALSE
