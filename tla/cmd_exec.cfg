SPECIFICATION Spec
CONSTANTS
  Kinds <- AllKinds
  Followers = {"FetchValue"}
  MaxPlain = 1
  MaxReuse = 1
  MaxChunks = 2
  ExecutionAttempts = 2
  TempNetErrorRetries = 1
  UseAuth = TRUE
INVARIANTS TypeOK InSync NothingForeign StreamComplete FailureVisible Authenticated
  TimeoutCovers ResponseLocated PanicExplained
PROPERTY Terminates
