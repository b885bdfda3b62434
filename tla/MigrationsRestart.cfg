SPECIFICATION Spec
CONSTANTS
  Releases = {}
  Empty = TRUE
  MaxFaults = 1
INVARIANTS StatusSurvives
CHECK_DEADLOCK FALSE
