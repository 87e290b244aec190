SPECIFICATION Spec
CONSTANTS
  a1 = a1
  a2 = a2
  d1 = d1
  d2 = d2
  r1 = r1
  r2 = r2
  None = None
  Attempts = {a1, a2}
  Dirs = {d1, d2}
  Runs = {r1, r2}
  Versions = {v1}
  v1 = v1
  Instants <- MCInstants
  Studies <- MCStudies
  MaxPreflights = 1
INVARIANTS
  MachinesAccounted
  LaunchedNamesMachine
  LaunchAuthorised
SYMMETRY Symmetry
CHECK_DEADLOCK FALSE
