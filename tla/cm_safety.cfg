\* Three workers compete for two connections with the expirer and stop.  Five
\* connection objects: each worker may be about to close one that is counted
\* off already.
SPECIFICATION Spec
CONSTANTS
  Workers = {w1, w2, w3}
  Conns = {c1, c2, c3, c4, c5}
  NoConn = NoConn
  NoProc = NoProc
  MinConnections = 1
  MaxConnections = 2
  CanStop = TRUE
SYMMETRY Symmetry
INVARIANTS
  TypeOK
  CounterMatchesPool
  ExclusiveConnection
  NoLeakWhileRunning
  NoLockCycle
PROPERTY ImplementsPool
CHECK_DEADLOCK FALSE
