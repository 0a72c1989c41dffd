----------------------------- MODULE MCCheckout -----------------------------
(* Small shops for module Checkout.                                        *)
EXTENDS Checkout, TLC

CONSTANTS shirt, u1

Line(v, q) == [variant |-> v, quantity |-> q]

\* One cart, or two carts that a customer may send under one attempt.
OneCart == { <<Line(shirt, 1)>> }
TwoCarts == { <<Line(shirt, 1)>>, <<Line(shirt, 2)>> }

MCOwner == [id \in ReservationId |-> u1]

MCSymmetry == Permutations(Call) \cup Permutations(ReservationId)
=============================================================================
