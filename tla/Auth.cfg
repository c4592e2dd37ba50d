SPECIFICATION FairSpec
CONSTANTS
  Timeout = 3
  QueueCap = 3
  MaxBad = 1
  MaxLost = 1
  ExtraKinds <- Undecodable
  MaxExtra = 3
INVARIANTS TypeOK SuccessMeansAccepted WaitBounded
PROPERTIES AuthEnds UnaskedIsHarmless
CHECK_DEADLOCK FALSE
