\* No faults; no thread is created beforehand and two can be.
CONSTANTS
  Submitters = {s1, s2}
  Threads = {t1, t2}
  TaskObjects = {n1, n2}
  NULL = NULL
  PoolSize = 1
  PoolMax = 2
  PoolPre = 0
  MaxRuns = 2
  MaxFaults = 0
SPECIFICATION FairSpec
PROPERTIES
  ImplementsTaskService
  AcceptedRuns
  StopReturns
\* The destroyed manager stops.
CHECK_DEADLOCK FALSE
