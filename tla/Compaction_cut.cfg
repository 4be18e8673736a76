SPECIFICATION Spec
CONSTANTS
  MaxKey = 2
  MaxWrites = 4
  MaxSnapshots = 1
  LastLevel = 3
  MaxMemLevel = 2
INVARIANT LaterLevelsIrrelevant
CHECK_DEADLOCK FALSE
