CONSTANTS
  p1 = p1
  p2 = p2
  Procs <- MCProcs
  MaxEvents = 3
  MaxFaults = 2
SPECIFICATION Spec
INVARIANTS
  TypeOK
  Gapless
  AckedIsKept
  CacheIsNotAhead
SYMMETRY MCSymmetry
