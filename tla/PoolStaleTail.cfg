\* One worker and a backlog: the tail main read before locking is out of date.
CONSTANTS
  Workers = {w1, w2}
  Main = main
  Jobs = {j1, j2, j3}
  NULL = NULL
  TimeOut = 0
  MaxTime = 1
  MaxAdds = 3
SPECIFICATION Spec
SYMMETRY Symmetry
INVARIANT SerializedTail
CHECK_DEADLOCK FALSE
