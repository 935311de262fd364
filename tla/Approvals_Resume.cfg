SPECIFICATION Spec
CONSTANTS
  o1 = o1
  o2 = o2
  Operators <- MCOperators
  MaxCrashes = 2
  TimedInbox = FALSE
INVARIANTS
  ResumeConsumes
CHECK_DEADLOCK FALSE
