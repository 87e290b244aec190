SPECIFICATION Spec
CONSTANTS
  Grace = 1
  Extra = 2
  Inputs <- MCInputs
  Arms = 2
  Passes = 2
  Calls1 = 2
  TotalSeconds = 3
  JobSeconds = 2
  Faults = 1
INVARIANTS
  NothingOutlives
  WorkAccounted
  VerifiedMeansWhole
PROPERTIES
  RunEnds
CHECK_DEADLOCK FALSE
