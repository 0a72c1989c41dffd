---------------------------- MODULE ProductChoice ----------------------------
(* A product's page in the storefront.  The address names a size and a      *)
(* colour; the page reads the product, settles on a variant it offers, asks *)
(* for the units of that variant and lets the visitor choose another one, a *)
(* quantity, and put it in the bag.  Meanwhile the product is edited or     *)
(* deleted and its stock moves.                                             *)
(*                                                                          *)
(* A choice is a navigation: the old page stays, with its buttons, until    *)
(* the new one has been read.  The size and colour buttons know of it (they *)
(* are disabled); the links of the pictures are not, and a later navigation *)
(* replaces the one before.  The quantity outlives the navigation.          *)
EXTENDS Naturals, SequencesExt

CONSTANTS
  Sizes, Colors,
  Offers,            \* what the product may offer: [sizes, colors], sequences
  FirstOffer,        \* at first
  FirstStock,
  MaxUnits,          \* units of a variant
  Moving,            \* the variants whose stock moves
  MaxMoves,          \* bound on the moves
  MaxItemQuantity,   \* MAX_CART_ITEM_QUANTITY
  NoChoice           \* a parameter the address lacks

Variants == [size : Sizes, color : Colors]

\* What is asked of the constants.
ChoiceAssumption ==
  /\ FirstOffer \in Offers /\ Moving \subseteq Variants
  /\ FirstStock \in [Variants -> 0 .. MaxUnits]
  /\ Offers \subseteq [sizes : Seq(Sizes) \ {<<>>}, colors : Seq(Colors) \ {<<>>}]
  /\ NoChoice \notin Sizes \cup Colors
  /\ MaxUnits \in Nat /\ MaxMoves \in Nat /\ MaxItemQuantity \in Nat \ {0}

VARIABLES
  offer,      \* what the catalogue offers now; a deleted product offers nothing
  stocks,     \* the stock so far: its last element is the stock now
  address,    \* the size and colour of the page's address
  nav,        \* the navigation under way
  pending,    \* isPending of the buttons' transition
  view,       \* "loading", "page", "gone", or "cart" once the visitor left
  product,    \* what the shown page was told of the product
  selected,   \* the variant it settled on
  answered, available,   \* whether its units are known, and how many
  asked,      \* the stock at the moment the shown page was asked for
  requestedQuantity,
  added       \* the lines the last step put in the bag

shown == <<address, product, selected, answered, available, asked>>
vars == <<offer, stocks, nav, pending, view, shown, requestedQuantity, added>>

NothingOffered == [sizes |-> <<>>, colors |-> <<>>]
Addresses == [size : Sizes \cup {NoChoice}, color : Colors \cup {NoChoice}]

NoNav == [step |-> "none", size |-> NoChoice, color |-> NoChoice,
          product |-> NothingOffered, asked |-> 1]
Asked(a) == [step |-> "asked", size |-> a.size, color |-> a.color,
             product |-> NothingOffered, asked |-> Len(stocks)]

Init ==
  /\ offer = FirstOffer /\ stocks = <<FirstStock>>
  /\ address \in Addresses
  /\ nav = Asked(address) /\ pending = FALSE /\ view = "loading"
  /\ product = NothingOffered /\ selected = CHOOSE v \in Variants : TRUE
  /\ answered = FALSE /\ available = 0 /\ asked = 1
  /\ requestedQuantity = 1 /\ added = {}

-----------------------------------------------------------------------------
(* The shop.                                                                *)

Edit ==
  /\ offer' \in (Offers \cup {NothingOffered}) \ {offer}
  /\ added' = {}
  /\ UNCHANGED <<stocks, nav, pending, view, shown, requestedQuantity>>

MoveStock ==
  /\ Len(stocks) <= MaxMoves
  /\ \E v \in Moving, n \in 0 .. MaxUnits :
       /\ n # Last(stocks)[v]
       /\ stocks' = Append(stocks, [Last(stocks) EXCEPT ![v] = n])
  /\ added' = {}
  /\ UNCHANGED <<offer, nav, pending, view, shown, requestedQuantity>>

-----------------------------------------------------------------------------
(* The server's answer.                                                     *)

(* The requested value where the product offers it, its first one otherwise.*)
Settled(values, requested) ==
  IF requested \in ToSet(values) THEN requested ELSE Head(values)

LoadProduct ==
  /\ nav.step = "asked"
  /\ \/ /\ offer # NothingOffered
        /\ nav' = [nav EXCEPT !.step = "loaded", !.product = offer]
        /\ UNCHANGED <<view, pending>>
     \/ /\ offer = NothingOffered
        /\ nav' = NoNav /\ view' = "gone" /\ pending' = FALSE
  /\ added' = {}
  /\ UNCHANGED <<offer, stocks, shown, requestedQuantity>>

(* The row of the variant; none stands for no units.                        *)
Units(v) == Last(stocks)[v]

(* The units are read last; the page is shown with them, or without when    *)
(* they cannot be read.                                                     *)
Show ==
  /\ nav.step = "loaded"
  /\ LET v == [size  |-> Settled(nav.product.sizes, nav.size),
               color |-> Settled(nav.product.colors, nav.color)]
     IN  /\ selected' = v
         /\ \/ answered' = TRUE /\ available' = Units(v)
            \/ answered' = FALSE /\ available' = 0
  /\ product' = nav.product /\ asked' = nav.asked
  /\ address' = [size |-> nav.size, color |-> nav.color]
  /\ nav' = NoNav /\ pending' = FALSE /\ view' = "page"
  /\ added' = {}
  /\ UNCHANGED <<offer, stocks, requestedQuantity>>

-----------------------------------------------------------------------------
(* The visitor.                                                             *)

maxQuantity == IF ~answered THEN 0
               ELSE IF available < MaxItemQuantity THEN available ELSE MaxItemQuantity
AtLeastOne(n) == IF n < 1 THEN 1 ELSE n
AtMost(n, m) == IF n > m THEN m ELSE n

quantity == AtMost(requestedQuantity, AtLeastOne(maxQuantity))

canAdd == answered /\ available >= quantity

(* The address with one parameter set, the other as it is.                  *)
With(what, value) == [address EXCEPT ![what] = value]

handleTypeChange ==
  /\ view = "page" /\ ~pending
  /\ \/ \E s \in ToSet(product.sizes) : nav' = Asked(With("size", s))
     \/ \E c \in ToSet(product.colors) : nav' = Asked(With("color", c))
  /\ pending' = TRUE /\ added' = {}
  /\ UNCHANGED <<offer, stocks, view, shown, requestedQuantity>>

(* A picture's link names its colour and the size that is shown.            *)
FollowPicture ==
  /\ view = "page" /\ Len(product.colors) > 1
  /\ \E c \in ToSet(product.colors) :
       nav' = Asked([size |-> selected.size, color |-> c])
  /\ added' = {}
  /\ UNCHANGED <<offer, stocks, pending, view, shown, requestedQuantity>>

Increment ==
  /\ view = "page" /\ quantity < maxQuantity
  /\ requestedQuantity' = AtMost(requestedQuantity + 1, maxQuantity)
  /\ added' = {}
  /\ UNCHANGED <<offer, stocks, nav, pending, view, shown>>

Decrement ==
  /\ view = "page" /\ quantity > 1
  /\ requestedQuantity' = AtLeastOne(requestedQuantity - 1)
  /\ added' = {}
  /\ UNCHANGED <<offer, stocks, nav, pending, view, shown>>

Line == [size |-> selected.size, color |-> selected.color, quantity |-> quantity]

handleAddToCart ==
  /\ view = "page" /\ canAdd /\ ~pending
  /\ added' = {Line}
  /\ UNCHANGED <<offer, stocks, nav, pending, view, shown, requestedQuantity>>

(* A line the bag has room for; otherwise the visitor stays.                *)
handleBuyNow ==
  /\ view = "page" /\ canAdd /\ ~pending
  /\ added' = {Line}
  /\ view' = "cart" /\ nav' = NoNav
  /\ UNCHANGED <<offer, stocks, pending, shown, requestedQuantity>>

Next ==
  \/ Edit \/ MoveStock \/ LoadProduct \/ Show
  \/ handleTypeChange \/ FollowPicture \/ Increment \/ Decrement
  \/ handleAddToCart \/ handleBuyNow

Spec == Init /\ [][Next]_vars

-----------------------------------------------------------------------------
(* Every variable has its type; a page's variant is one its product offers. *)
TypeOK ==
  /\ offer \in Offers \cup {NothingOffered} /\ product \in Offers \cup {NothingOffered}
  /\ stocks \in Seq([Variants -> 0 .. MaxUnits]) /\ Len(stocks) <= MaxMoves + 1
  /\ address \in Addresses /\ selected \in Variants
  /\ nav.step \in {"none", "asked", "loaded"}
  /\ pending \in BOOLEAN /\ answered \in BOOLEAN
  /\ view \in {"loading", "page", "gone", "cart"}
  /\ available \in 0 .. MaxUnits /\ asked \in 1 .. Len(stocks)
  /\ requestedQuantity \in 1 .. MaxItemQuantity
  /\ view = "page" => /\ selected.size \in ToSet(product.sizes)
                      /\ selected.color \in ToSet(product.colors)

(* What goes into the bag is the variant the page shows, in a number of     *)
(* units the shop had of that very variant at some moment since the visitor *)
(* asked for it: not the units of the variant that was shown before, and    *)
(* none at all when there were none.                                        *)
AddedWasThere ==
  \A line \in added :
    \E i \in asked .. Len(stocks) :
      line.quantity \in 1 .. stocks[i][[size |-> line.size, color |-> line.color]]

(* Of every step: a choice the address holds is not lost to a choice of the other kind:   *)
(* the page that answers a button shows it wherever its product offers it,  *)
(* unless a picture was followed in the meantime, whose link names the size *)
(* that was shown.                                                          *)
OtherChoiceStays ==
  pending /\ ~pending' /\ view' = "page" =>
    \/ selected'.color = Settled(product'.colors, address.color)
    \/ selected'.size = Settled(product'.sizes, address.size)
    \/ selected'.size = Settled(product'.sizes, selected.size)

(* A server that answers the navigations answers a choice, unless the       *)
(* visitor follows pictures for ever: the buttons come back with a page or  *)
(* with the news that the product is gone.                                  *)
Chooses == pending

=============================================================================
