CONSTANTS
  p1 = p1
  p2 = p2
  Procs <- MCProcs
  MaxEvents = 3
  MaxFaults = 0
SPECIFICATION Spec
INVARIANT CacheIsHonest
