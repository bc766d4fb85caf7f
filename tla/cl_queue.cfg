\* Three commands on a queue that is one too small, with Stop; one of them is
\* passed to Execute and may be retried.
SPECIFICATION Spec
CONSTANTS
  Cmds = {r, m1, m2}
  Retryable = {r}
  Synchronous = {r}
  Waited = {m1, m2}
  ExecutionAttempts = 2
  QueueMaxDepth = 2
  NoProc = NoProc
  CanStop = TRUE
SYMMETRY Symmetry
INVARIANTS
  OnePlace
  CompletedIsFinal
  TruthfulCompletion
  SingleShot
  DropsAtMostOne
CHECK_DEADLOCK FALSE
