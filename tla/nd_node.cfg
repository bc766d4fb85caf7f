SPECIFICATION FairNodeSpec
CONSTANTS
  Nodes = {n1}
  Workers = {w1, w2}
  Checks = {h1, h2}
  NoNode = NoNode
INVARIANTS CheckedWhileHealthChecking StopUndoneByRaceOnly
PROPERTIES ServiceResumes ChecksEnd
CHECK_DEADLOCK FALSE
