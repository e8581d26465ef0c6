CONSTANTS
  c1 = c1
  c2 = c2
  Checks <- OneCheck
  Ident <- DistinctIdents
  Runs <- BaseRuns
  Truths <- MCTruths
  Certificates <- MCCertificates
  Faults <- OneWrongAnswer
SPECIFICATION Spec
INVARIANTS
  ProvenNeedsNoTrust
CHECK_DEADLOCK FALSE
