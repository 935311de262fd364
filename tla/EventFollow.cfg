CONSTANTS
  f1 = f1
  Followers <- MCFollower
  MaxEvents = 4
  LiveBuffer = 1
  MaxFaults = 2
  OthersAppend = TRUE
SPECIFICATION Spec
INVARIANTS
  TypeOK
  BusIsSound
  NoFalseAlarm
  ToldIsServed
PROPERTIES
  EverythingArrives
  StreamsEnd
CHECK_DEADLOCK FALSE
