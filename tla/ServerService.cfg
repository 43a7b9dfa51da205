\* Nothing outlives the time-out: what clients are promised while that is so.
CONSTANTS
  MAX_EVENTS = 1
  MAX_FDS = 2
  Workers = {w1, w2}
  Conns = {c1, c2}
  NoConn = NoConn
  TimeOut = 1
  MaxTime = 1
SPECIFICATION FairSpec
PROPERTIES
  ImplementsConnectionService
  EveryAskerServed
  SigtermStops
