SPECIFICATION Spec
CONSTANTS
  Keys = {k1}
  Values = {v1, v2}
  MaxOps = 3
  MaxCalls = 4
  Half = 2
INVARIANTS TypeOK MessageMeansCalls ContextDemanded
PROPERTY RemovedForGood
CHECK_DEADLOCK FALSE
