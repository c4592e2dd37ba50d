SPECIFICATION FairSpec
CONSTANTS
  Tables <- AllTables
  MaxServices = 3
  MaxFaults = 2
  MaxSyncs = 2
  MaxPresses = 1
INVARIANTS ConnectedMeansReady CccdBelongs PairMatches NoFalseRejection
PROPERTIES ConnectDecides
CHECK_DEADLOCK FALSE
