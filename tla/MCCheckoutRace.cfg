CONSTANTS
  p1 = p1
  u1 = u1
  k1 = k1
  k2 = k2
  shirt = shirt
  ReservationId = {p1}
  User = {u1}
  Owner <- MCOwner
  Variant = {shirt}
  Call = {k1, k2}
  Price = {1, 2}
  Requests <- TwoCarts
  MaxQuantity = 2
  MaxOnHand = 2
  Lifetime = 1
  HoldWindow = 1
  MaxTime = 1
  MaxAudits = 1
SPECIFICATION CoSpec
SYMMETRY MCSymmetry
INVARIANTS
  CoTypeOK
  OneSnapshot
  PaidIsHeld
  SettledAsStripeSays
  OrderedIsSold
  RecordIsTrue
