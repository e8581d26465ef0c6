CONSTANTS
  Inputs <- MCInputs
  CertsOf <- MCCertsOf
  WithPlant <- MCWithPlant
  OnPlant <- MCOnPlant
  Absent = Absent
  Torn = Torn
  MaxRuns = 2
SPECIFICATION Spec
INVARIANTS
  OkIsConsistent
CHECK_DEADLOCK FALSE
