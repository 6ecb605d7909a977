SPECIFICATION Spec
CONSTANTS
  pull = pull
  again = again
  Threads = {pull, again}
  Reusers = {again}
  Ssl = FALSE
  Stride = 1
  Conns = {1, 2, 3, 4}
  MaxFaults = 2
INVARIANTS OneHolder OwnAnswer PoolBound
PROPERTIES Recovers
CHECK_DEADLOCK FALSE
