SPECIFICATION Spec
CONSTANTS
  r1 = r1
  r2 = r2
  None = None
  Studies <- MCStudies
  Instants <- MCInstants
  Outputs <- MCOutputs
  Receivers = {r1, r2}
  MaxBytes = 8
  MaxMembers = 3
  Chunk = 4
  MaxChunks = 3
  Inventory = 1
INVARIANTS
  TerminalTruthful
  UploadsNamed
  CollectedIsWhole
  Collectable
SYMMETRY Symmetry
CHECK_DEADLOCK FALSE
