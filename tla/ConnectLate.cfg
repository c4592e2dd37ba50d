SPECIFICATION Spec
CONSTANTS
  Tables <- GoodTables
  MaxServices = 3
  MaxFaults = 2
  MaxSyncs = 2
  MaxPresses = 1
PROPERTIES OwnerOutlivesAttempt
CHECK_DEADLOCK FALSE
