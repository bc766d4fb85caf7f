\* No command queue: two commands, with Stop.
SPECIFICATION FairSpec
CONSTANTS
  Cmds = {r, m}
  Retryable = {r}
  Synchronous = {}
  Waited = {m}
  ExecutionAttempts = 3
  QueueMaxDepth = 0
  NoProc = NoProc
  CanStop = TRUE
INVARIANT CompletedOnce
PROPERTY EveryCommandCompletes
CHECK_DEADLOCK FALSE
