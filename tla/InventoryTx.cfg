CONSTANTS
  Free = Free
  ReservationId = {p1, p2}
  User = {u1}
  Variant = {shirt, shoe}
  Connection = {c1, c2}
  Rank <- AnyRank
  MaxQuantity = 1
  Requests <- EveryVariant
  MaxOnHand = 2
  HoldWindow = 1
  MaxTime = 1
  MaxAudits = 2
SPECIFICATION TxSpec
SYMMETRY TxSymmetry
INVARIANTS
  TxTypeOK
  NoLockCycle
PROPERTIES
  ImplementsInventory
