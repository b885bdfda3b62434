SPECIFICATION FairSpec
CONSTANTS
  Releases = {5, 6, 7, 8, 9, 10, 11}
  Empty = TRUE
  MaxFaults = 3
INVARIANTS NothingSkipped
PROPERTIES ComesUp
CHECK_DEADLOCK FALSE
