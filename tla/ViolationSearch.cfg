CONSTANTS
  NumStates = 4
  NumEvents = 2
  MaxEdges = 3
  InitialLists <- TwoInitial
  BadSets <- BadOrNone
  Inputs <- MCInputs
SPECIFICATION Spec
INVARIANTS
  SeenIsQueuedOrClosed
  RebuiltPathChecks
  ShortestPath
  NoPathMeansSafe
CHECK_DEADLOCK FALSE
