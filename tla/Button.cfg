SPECIFICATION FairSpec
CONSTANTS
  Debounce = 4
  MaxBounce = 3
  MaxReleases = 1
  Stored <- MCStored
INVARIANTS OneEventPerRelease AllOrNothing DigestFits
PROPERTIES ReleaseReported
CHECK_DEADLOCK FALSE
