CONSTANTS
  Size = 4
  PipeCap = 2
  Timeout = 2
SPECIFICATION FairSpec
INVARIANTS
  AnswerIsWhole
  ResultHasReason
  NothingLeftRunning
PROPERTIES
  CallReturns
  WorkerNeverStuck
CHECK_DEADLOCK FALSE
