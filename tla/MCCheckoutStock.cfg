CONSTANTS
  p1 = p1
  p2 = p2
  u1 = u1
  k1 = k1
  shirt = shirt
  ReservationId = {p1, p2}
  User = {u1}
  Owner <- MCOwner
  Variant = {shirt}
  Call = {k1}
  Price = {1}
  Requests <- OneCart
  MaxQuantity = 1
  MaxOnHand = 1
  Lifetime = 1
  HoldWindow = 1
  MaxTime = 1
  MaxAudits = 2
SPECIFICATION CoSpec
SYMMETRY MCSymmetry
INVARIANTS
  PaidIsHeld
  PaidIsCovered
