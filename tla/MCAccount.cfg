CONSTANTS
  Devices = {d1, d2}
  Phrases = {p1, p2}
  Dir = Dir
  Aliases = {1, 2}
  MaxOps = 3
  MaxFailures = 1
  PutRevives = TRUE
  None = None
SYMMETRY Symmetry
SPECIFICATION Spec
INVARIANTS
  OneMasterKey
  CredentialsKept
  SharedDirectory
  KeysPaired
PROPERTIES
  RootsKept
CHECK_DEADLOCK FALSE
