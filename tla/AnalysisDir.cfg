CONSTANTS
  Inputs <- MCInputs
  CertsOf <- MCCertsOf
  WithPlant <- MCWithPlant
  OnPlant <- MCOnPlant
  Absent = Absent
  Torn = Torn
  MaxRuns = 4
SPECIFICATION Spec
INVARIANTS
  FinishedVerifies
  OkMeansComplete
CHECK_DEADLOCK FALSE
