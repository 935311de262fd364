CONSTANTS
  f1 = f1
  Followers <- MCFollower
  MaxEvents = 4
  LiveBuffer = 1
  MaxFaults = 0
  OthersAppend = FALSE
SPECIFICATION Spec
INVARIANT EndsWithTheEnd
CHECK_DEADLOCK FALSE
