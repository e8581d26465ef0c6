CONSTANTS
  NumStates = 3
  NumEvents = 1
  MaxEdges = 1
  InitialLists <- InitialBad
  BadSets <- LastBad
  Inputs <- MCInputs
SPECIFICATION Spec
INVARIANT FoundIsComplete
CHECK_DEADLOCK FALSE
