\* A stale job frees the slot of the connection that reused its descriptor.
CONSTANTS
  MAX_EVENTS = 2
  MAX_FDS = 2
  Workers = {w1, w2}
  Conns = {c1, c2}
  NoConn = NoConn
  TimeOut = 1
  MaxTime = 2
SPECIFICATION Spec
SYMMETRY Symmetry
INVARIANT EventIsInTable
