CONSTANTS
  c1 = c1
  c2 = c2
  Checks <- TwoChecks
  Ident <- DistinctIdents
  Runs <- OptionRuns
  Truths <- MCTruths
  Certificates <- MCCertificates
  Faults <- OneWrongAnswer
SYMMETRY Symmetry
SPECIFICATION Spec
INVARIANTS
  ProvenIsTrue
  ExitTellsTruth
  EveryCheckAnswered
  CutOffIsUndecided
  FourMeansRefused
  ProvenIsCertified
  WrongAnswerIsNoAnswer
CHECK_DEADLOCK FALSE
