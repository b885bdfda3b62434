SPECIFICATION FairSpec
CONSTANTS
  Releases = {1, 2, 3, 4}
  Empty = FALSE
  MaxFaults = 0
PROPERTIES ComesUp
CHECK_DEADLOCK FALSE
