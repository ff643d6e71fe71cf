SPECIFICATION RestartSpec
CONSTANTS
  MaxStarts = 2
  MaxRestarts = 1
CHECK_DEADLOCK FALSE
PROPERTIES
  OldEndedNeverDropsNew
