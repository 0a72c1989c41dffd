CONSTANTS
  p1 = p1
  p2 = p2
  p3 = p3
  u1 = u1
  u2 = u2
  shirt = shirt
  shoe = shoe
  ReservationId = {p1, p2, p3}
  User = {u1, u2}
  Variant = {shirt, shoe}
  MaxQuantity = 2
  Requests <- MCRequests
  MaxOnHand = 3
  HoldWindow = 1
  MaxTime = 1
  MaxAudits = 2
SPECIFICATION Spec
SYMMETRY MCSymmetry
INVARIANTS
  TypeOK
  ReservedIsHeld
  NeverOversold
PROPERTIES
  CountsAreAccountedFor
  TerminalStatesStay
