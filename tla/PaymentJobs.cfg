CONSTANTS
  s1 = s1
  e1 = e1
  r1 = r1
  r2 = r2
  Purchase = {s1}
  CatalogHint = {e1}
  Replica = {r1, r2}
  MaxAttempts = 2
  MaxFaults = 2
SPECIFICATION Spec
SYMMETRY ReplicaSymmetry
INVARIANTS
  TypeOK
  PaymentIsPublished
  CompleteWasPerformed
PROPERTIES
  OnlyTheClaimFinishes
  ImplementsDurableJobs
CHECK_DEADLOCK FALSE
