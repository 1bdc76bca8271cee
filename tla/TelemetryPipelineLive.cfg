SPECIFICATION FairSpec
CONSTANTS
  NoFlight = NoFlight
  BatchSize = 2
  MaxRetries = 2
  MaxEvents = 3
  MaxKey = 2
  MaxLate = 0
CHECK_DEADLOCK FALSE
PROPERTIES FullBatchDrains
