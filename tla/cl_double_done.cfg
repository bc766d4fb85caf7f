\* A command that the full queue refuses is completed twice.
SPECIFICATION Spec
CONSTANTS
  Cmds = {r, s}
  Retryable = {r, s}
  Synchronous = {}
  Waited = {}
  ExecutionAttempts = 1
  QueueMaxDepth = 1
  NoProc = NoProc
  CanStop = TRUE
INVARIANT CompletedOnce
CHECK_DEADLOCK FALSE
