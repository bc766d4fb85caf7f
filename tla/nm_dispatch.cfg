SPECIFICATION Spec
CONSTANTS
  n1 = n1
  n2 = n2
  Nodes = {n1, n2}
  Workers = {w1}
  Checks = {h1}
  NoNode = NoNode
  First <- OneNode
  Attempts = 2
  Retryable = {w1}
  Churn = TRUE
INVARIANTS SliceWellFormed GivenUpAfterAll PanicExplained
PROPERTY NodeSpec
CHECK_DEADLOCK FALSE
