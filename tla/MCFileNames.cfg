SPECIFICATION Spec
CONSTANTS
  laptop = laptop
  desktop = desktop
  root = root
  docs = docs
  a = a
  b = b
  c = c
  w1 = w1
  w2 = w2
  Devices = {laptop, desktop}
  Files = {1, 2}
  Folders = {root, docs}
  Names = {a, b, c}
  Known <- OneKnown
  Movers = {laptop}
  Followers = {desktop}
  Workers = {w1, w2}
  Patient = TRUE
  MaxPosts = 2
  MaxChanges = 3
  MaxFailures = 1
SYMMETRY Threads
INVARIANTS TypeOK Sent Followed
CHECK_DEADLOCK FALSE
