SPECIFICATION Spec
CONSTANTS
  c1 = c1
  c2 = c2
  frame = frame
  Clients = {c1, c2}
  Endpoints = {frame}
  Capacity <- MCCapacity
  Rate <- MCRate
  Thresholds <- MCThresholds
  LockoutSeconds <- MCLockoutSeconds
  MaxTime = 3
  MaxFailures = 3
SYMMETRY MCSymmetry
CHECK_DEADLOCK FALSE
INVARIANTS
  TypeOK
  HistoryKept
  BurstBounded
PROPERTIES
  NoServiceWhileLocked
