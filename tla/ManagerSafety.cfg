\* Two submitters race for the last place of the task pool; one pool thread is
\* created beforehand and one more can be; one time-out, spurious wake-up or
\* failed pthread_create happens anywhere.
CONSTANTS
  Submitters = {s1, s2}
  Threads = {t1, t2}
  TaskObjects = {n1, n2, n3}
  NULL = NULL
  PoolSize = 1
  PoolMax = 1
  PoolPre = 1
  MaxRuns = 3
  MaxFaults = 1
SPECIFICATION Spec
INVARIANTS
  TypeOK
  TaskObjectOwned
  QueueOverrun
  TaskKept
  FaultsNeedCause
\* A destroyed manager, and a process with undefined behaviour, stop.
CHECK_DEADLOCK FALSE
