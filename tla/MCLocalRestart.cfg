SPECIFICATION RestartSpec
CONSTANTS
  MaxStarts = 3
  MaxRestarts = 3
CHECK_DEADLOCK FALSE
INVARIANTS
  UpFindsNone
PROPERTIES
  DeadLocalIsDropped
