\* A queue with room for every command, which the application does not stop.
SPECIFICATION FairSpec
CONSTANTS
  Cmds = {r, m}
  Retryable = {r}
  Synchronous = {}
  Waited = {r, m}
  ExecutionAttempts = 2
  QueueMaxDepth = 2
  NoProc = NoProc
  CanStop = FALSE
PROPERTIES
  ExecuteEnds
  QueuedRunsAgain
