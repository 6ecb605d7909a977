CONSTANTS
  Workers = {w1, w2}
  Requests = {r1}
  MaxStarts = 3
  MaxStops = 2
SPECIFICATION Spec
INVARIANTS
  RunningReady
  OneService
  DelegatesHeld
PROPERTIES
  Answered
CHECK_DEADLOCK FALSE
