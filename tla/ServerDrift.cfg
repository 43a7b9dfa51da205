\* A connection and its job time out together: counted down twice.
CONSTANTS
  MAX_EVENTS = 2
  MAX_FDS = 2
  Workers = {w1, w2}
  Conns = {c1, c2}
  NoConn = NoConn
  TimeOut = 1
  MaxTime = 2
SPECIFICATION Spec
SYMMETRY Symmetry
INVARIANT TotalIsConnections
