CONSTANTS
  MaxPath = 2
  MaxChain = 3
  Plants <- MCPlants
  Certificates <- MCCertificates
SPECIFICATION Spec
INVARIANTS
  AcceptedIsTrue
  TrueChainAccepted
CHECK_DEADLOCK FALSE
