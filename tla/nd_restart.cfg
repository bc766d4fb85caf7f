SPECIFICATION Spec
CONSTANTS
  n1 = n1
  n2 = n2
  Nodes = {n1}
  Workers = {w1}
  Checks = {h1}
  NoNode = NoNode
  First <- OneNode
  Attempts = 1
  Retryable = {w1}
  Churn = FALSE
INVARIANTS StopShutsDown
CHECK_DEADLOCK FALSE
