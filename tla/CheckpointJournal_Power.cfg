CONSTANTS
  p1 = p1
  p2 = p2
  a = a
  b = b
  Procs <- MCProcs
  Contents <- MCContents
  MaxSeq = 3
  MaxFaults = 2
  MaxPowerLosses = 1
  MaxDeletes = 0
SPECIFICATION Spec
INVARIANTS
  KnownIsKept
SYMMETRY MCSymmetry
CHECK_DEADLOCK FALSE
