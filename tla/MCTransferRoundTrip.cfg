SPECIFICATION Spec
CONSTANTS
  Devices = {1, 2}
  Creator = 1
  Contents <- MCContents
  GroupSize = 2
  MaxEdits = 0
  MaxUploads = 1
  MaxFailures = 0
CHECK_DEADLOCK FALSE
INVARIANTS RoundTrip
