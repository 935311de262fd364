SPECIFICATION Spec
CONSTANTS
  MaxTurns = 2
  MaxRecords = 3
  MaxFaults = 0
  PageSize = 2
PROPERTY SameNumbers
CHECK_DEADLOCK FALSE
