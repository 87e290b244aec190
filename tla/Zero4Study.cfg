SPECIFICATION StudySpec
CONSTANTS
  Arms <- MCArms
  Seeds = 1
  Attempts = 2
  Chunk = 1
  Budget = 2
  Costs = {1, 2}
  Mishaps = 2
  None = None
INVARIANTS
  SealedByRule
  CompletePasses
PROPERTIES
  CheckMeansWhole
CHECK_DEADLOCK FALSE
