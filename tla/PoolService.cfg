\* No job outlives the time-out: what the pool promises while it keeps up.
CONSTANTS
  Workers = {w1, w2}
  Main = main
  Jobs = {j1, j2}
  NULL = NULL
  TimeOut = 1
  MaxTime = 1
  MaxAdds = 3
SPECIFICATION FairSpec
PROPERTIES
  ImplementsWorkQueue
  EveryJobRuns
  DestroyReturns
