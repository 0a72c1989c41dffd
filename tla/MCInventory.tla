----------------------------- MODULE MCInventory -----------------------------
(* A small inventory: two variants, three purchases, item lists that merge    *)
(* lines, take several variants, and compete for the same one.               *)
EXTENDS Inventory, TLC

CONSTANTS shirt, shoe

Line(v, q) == [variant |-> v, quantity |-> q]

\* One line, two lines of one variant (merged to two units), two variants.
MCRequests ==
  { <<Line(shirt, 1)>>,
    <<Line(shirt, 1), Line(shirt, 1)>>,
    <<Line(shirt, 1), Line(shoe, 2)>> }

MCSymmetry == Permutations(ReservationId) \cup Permutations(User)
=============================================================================
