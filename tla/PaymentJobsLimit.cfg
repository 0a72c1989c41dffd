CONSTANTS
  s1 = s1
  r1 = r1
  r2 = r2
  Purchase = {s1}
  CatalogHint = {}
  Replica = {r1, r2}
  MaxAttempts = 2
  MaxFaults = 2
SPECIFICATION Spec
INVARIANTS
  RetriesStopAtLimit
CHECK_DEADLOCK FALSE
