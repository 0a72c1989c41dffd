----------------------------- MODULE ShoppingBag -----------------------------
(***************************************************************************)
(* The storefront's bag (cartStore.ts) in one tab, filled from a product    *)
(* page (ProductInteraction.tsx), from the cards of a list                  *)
(* (ProductCardActions.tsx), and edited on the bag's page.  A variant is a  *)
(* product in a size and a color.                                           *)
(***************************************************************************)
EXTENDS Integers, FiniteSets, Functions

CONSTANTS
  Variant,
  MaxQuantity,  \* MAX_CART_ITEM_QUANTITY
  MaxLines,     \* MAX_CHECKOUT_LINE_ITEMS
  MaxStock,     \* bound on the stock
  NoTarget

\* What is asked of the constants.
ShoppingBagAssumption == {MaxQuantity, MaxLines, MaxStock} \subseteq Nat \ {0}

VARIABLES
  cart,       \* quantity by variant
  disk,       \* the cart in localStorage
  shown,      \* the product page: [variant, available], or unanswered availability
  requested,  \* requestedQuantity of the page
  target,     \* the variant a pending navigation leads to, or NoTarget
  stock,
  found       \* the stock of the page's variant when the page was loaded

vars == <<cart, disk, shown, requested, target, stock, found>>

Unanswered == -1
Empty == [v \in {} |-> 0]
Least(a, b) == IF a < b THEN a ELSE b
Most(a, b) == IF a < b THEN b ELSE a

Init ==
  /\ cart = Empty /\ disk = Empty
  /\ stock \in [Variant -> 0..MaxStock]
  /\ \E v \in Variant : shown = [variant |-> v, available |-> stock[v]] /\ found = stock[v]
  /\ requested = 1 /\ target = NoTarget

Keep(c) == cart' = c /\ disk' = c

SetLine(v, n) == [w \in (DOMAIN cart) \union {v} |-> IF w = v THEN n ELSE cart[w]]

\* There is always room for a line.
FitsByQuantity(v, n) ==
  v \in DOMAIN cart => cart[v] + n <= MaxQuantity
\* addToCart: the addition fits as a whole or the cart stays unchanged.
Fits(v, n) ==
  /\ n \in 1..MaxQuantity
  /\ IF v \in DOMAIN cart THEN cart[v] + n <= MaxQuantity ELSE Cardinality(DOMAIN cart) < MaxLines

AddToCart(v, n) ==
  /\ Fits(v, n)
  /\ Keep(SetLine(v, IF v \in DOMAIN cart THEN cart[v] + n ELSE n))

RemoveFromCart(v) == Keep(Restrict(cart, (DOMAIN cart) \ {v}))

\* setCartItemQuantity, from the buttons on the bag's page.
ChangeQuantity(v) ==
  /\ v \in DOMAIN cart
  /\ \E n \in {cart[v] - 1, cart[v] + 1} \cap 1..MaxQuantity : Keep(SetLine(v, n))

-----------------------------------------------------------------------------
\* The product page.  Its component stays while the variant changes.

MaxShown == Least(MaxQuantity, Most(0, shown.available))
Quantity == Least(requested, Most(1, MaxShown))
CanAdd == shown.available # Unanswered /\ shown.available >= Quantity
Increment ==
  /\ Quantity < MaxShown
  /\ requested' = Least(requested + 1, MaxShown)
  /\ UNCHANGED <<cart, disk, shown, target, stock, found>>
Decrement ==
  /\ Quantity > 1
  /\ requested' = Most(requested - 1, 1)
  /\ UNCHANGED <<cart, disk, shown, target, stock, found>>

\* handleAddToCart, and handleBuyNow before it leaves for the bag.
AddShown ==
  /\ CanAdd /\ target = NoTarget
  /\ AddToCart(shown.variant, Quantity)
  /\ UNCHANGED <<shown, requested, target, stock, found>>

\* A size or a color is chosen: the page for it is loaded in a transition.
Choose(v) ==
  /\ target = NoTarget
  /\ target' = v
  /\ UNCHANGED <<cart, disk, shown, requested, stock, found>>

\* LiveProductOptions: availability is asked for on every navigation, and may
\* not be answered.
Loaded ==
  /\ target # NoTarget
  /\ shown' \in [variant : {target}, available : {stock[target], Unanswered}]
  /\ found' = stock[target]
  /\ target' = NoTarget
  /\ UNCHANGED <<cart, disk, requested, stock>>

\* A card of a list adds one, whatever the stock.
AddFromCard(v) == AddToCart(v, 1) /\ UNCHANGED <<shown, requested, target, stock, found>>

Edit(v) ==
  /\ ChangeQuantity(v) \/ (v \in DOMAIN cart /\ RemoveFromCart(v))
  /\ UNCHANGED <<shown, requested, target, stock, found>>

\* persist's merge: a stored cart that does not parse is dropped whole.
Parses(c) == Cardinality(DOMAIN c) <= MaxLines /\ Range(c) \subseteq 1..MaxQuantity

Reload ==
  /\ cart' = IF Parses(disk) THEN disk ELSE Empty
  /\ requested' = 1 /\ target' = NoTarget
  /\ \E a \in {stock[shown.variant], Unanswered} : shown' = [shown EXCEPT !.available = a]
  /\ found' = stock[shown.variant]
  /\ UNCHANGED <<disk, stock>>

Clear ==
  /\ cart # Empty
  /\ Keep(Empty)
  /\ UNCHANGED <<shown, requested, target, stock, found>>

Sell(v) ==
  /\ \E n \in (0..MaxStock) \ {stock[v]} : stock' = [stock EXCEPT ![v] = n]
  /\ UNCHANGED <<cart, disk, shown, requested, target, found>>

Next ==
  \/ Increment \/ Decrement \/ AddShown \/ Loaded \/ Reload \/ Clear
  \/ \E v \in Variant : Choose(v) \/ AddFromCard(v) \/ Edit(v) \/ Sell(v)

Spec == Init /\ [][Next]_vars

-----------------------------------------------------------------------------
(* Properties *)

In(c, v) == IF v \in DOMAIN c THEN c[v] ELSE 0

TypeOK ==
  /\ DOMAIN cart \subseteq Variant /\ Range(cart) \subseteq 1..MaxQuantity
  /\ disk = cart
  /\ shown \in [variant : Variant, available : {Unanswered} \union 0..MaxStock]
  /\ requested \in 1..MaxQuantity
  /\ target \in Variant \union {NoTarget}
  /\ stock \in [Variant -> 0..MaxStock] /\ found \in 0..MaxStock

\* What the store accepts it can read again: the bag never takes a form that
\* the next visit would throw away whole, nor one the checkout refuses.
ReloadKeepsTheBag == Parses(disk)

\* Of every step: an addition from the product page is of the variant on the screen, and of no
\* more than there was when that page was loaded, whatever was asked for on a variant
\* before and while another variant is on its way.
AddsWhatIsShown ==
  \A v \in Variant :
    In(cart', v) > In(cart, v) + 1 =>
      /\ v = shown.variant /\ target = NoTarget
      /\ In(cart', v) - In(cart, v) <= found
=============================================================================
