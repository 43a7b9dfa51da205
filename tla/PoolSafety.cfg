\* Jobs age past the time-out: two workers, three nodes, three submissions.
CONSTANTS
  Workers = {w1, w2}
  Main = main
  Jobs = {j1, j2, j3}
  NULL = NULL
  TimeOut = 0
  MaxTime = 1
  MaxAdds = 3
SPECIFICATION Spec
SYMMETRY Symmetry
INVARIANTS
  TypeOK
  SemaphoreLedger
  QueueWellFormed
  JobOwnership
  FaultsNeedEviction
\* A crashed process and a worker that returned with the mutex locked stop.
CHECK_DEADLOCK FALSE
