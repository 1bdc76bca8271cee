SPECIFICATION Spec
CONSTANTS
  NoFlight = NoFlight
  BatchSize = 2
  MaxRetries = 2
  MaxEvents = 3
  MaxKey = 2
  MaxLate = 1
CHECK_DEADLOCK FALSE
INVARIANTS
  TypeOK
  SentIsStored
  RetriesCounted
  StoredBySigner
PROPERTIES
  RowsOnlyProgress
  NoEventLost
