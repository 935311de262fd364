SPECIFICATION Spec
CONSTANTS
  m1 = m1
  m2 = m2
  Managers <- MCManagers
  MaxClaims = 2
  MaxCrashes = 1
  Capacity = 1
INVARIANTS
  TypeOK
  Fenced
  ClosedIsQuiet
PROPERTIES
  StolenOwnerStops
  CancelIsConsumed
CHECK_DEADLOCK FALSE
