SPECIFICATION OutageSpec
CONSTANTS
  n1 = n1
  n2 = n2
  Nodes = {n1, n2}
  Workers = {w1}
  Checks = {h1, h2}
  NoNode = NoNode
  First <- TwoNodes
  Attempts = 1
  Retryable = {w1}
  Churn = FALSE
PROPERTIES AttemptEnds
CHECK_DEADLOCK FALSE
