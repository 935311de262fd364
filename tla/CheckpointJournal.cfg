CONSTANTS
  p1 = p1
  p2 = p2
  a = a
  b = b
  Procs <- MCProcs
  Contents <- MCContents
  MaxSeq = 3
  MaxFaults = 2
  MaxPowerLosses = 0
  MaxDeletes = 1
SPECIFICATION Spec
INVARIANTS
  TypeOK
  NewestIsNewest
  HistoryIncreases
  KnownIsKept
  RepairIsPossible
PROPERTIES KeepsPromise
SYMMETRY MCSymmetry
CHECK_DEADLOCK FALSE
