\* Two clients, two workers, two slots, two descriptors; everything may outlive the time-out.
CONSTANTS
  MAX_EVENTS = 2
  MAX_FDS = 2
  Workers = {w1, w2}
  Conns = {c1, c2}
  NoConn = NoConn
  TimeOut = 1
  MaxTime = 2
SPECIFICATION Spec
SYMMETRY Symmetry
INVARIANTS
  TypeOK
  OneOwner
  TableExact
  CounterExact
  ReplyToAsker
  CapNeverStarves
