CONSTANTS
  NumStates = 4
  MaxEdges = 3
  Plants <- MCPlants
SPECIFICATION FairSpec
INVARIANTS
  FuelSuffices
  ResultIsEnvelope
  ChainCertifies
  CrossCheckAgrees
  EnvelopesAgree
PROPERTIES
  Implements
  Terminates
CHECK_DEADLOCK FALSE
