\* Progress of the workers and of stop.
SPECIFICATION FairSpec
CONSTANTS
  Workers = {w1, w2}
  Conns = {c1, c2}
  NoConn = NoConn
  NoProc = NoProc
  MinConnections = 1
  MaxConnections = 2
  CanStop = TRUE
PROPERTIES
  GetReturns
  ConnectionComesBack
  StopTerminates
CHECK_DEADLOCK FALSE
