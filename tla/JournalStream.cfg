SPECIFICATION Spec
CONSTANTS
  MaxTurns = 3
  MaxRecords = 3
  MaxFaults = 2
  PageSize = 2
INVARIANTS
  TypeOK
  WindowIsLog
  NoFalseAlarm
PROPERTIES
  CatchesUp
  ShowsTheConversation
CHECK_DEADLOCK FALSE
