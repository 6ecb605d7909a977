SPECIFICATION Spec
CONSTANTS
  Devices = {1, 2}
  Creator = 1
  Contents <- MCContents
  GroupSize = 2
  MaxEdits = 1
  MaxUploads = 2
  MaxFailures = 1
CHECK_DEADLOCK FALSE
INVARIANTS TypeOK Fetchable Reassembles Converges
PROPERTY TransitEnds
