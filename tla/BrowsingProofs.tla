---------------------------- MODULE BrowsingProofs ----------------------------
(***************************************************************************)
(* Lemmas about the components of MCStorefront that choose, check and      *)
(* list, ProductChoice, CartCheck, OrderHistory, SitemapWalk and           *)
(* CatalogBrowse, for any catalog, page size, number of readers and edits. *)
(***************************************************************************)
EXTENDS Integers, Sequences, FiniteSetTheorems, WellFoundedInduction, TLAPS, MCStorefront

LEMMA LeastOf ==
  ASSUME NEW S \in SUBSET Nat, S # {}
  PROVE  \E n \in S : \A m \in S : n <= m
<1> DEFINE Less == {ss \in Nat \X Nat : ss[1] < ss[2]}
<1>1. Less = OpToRel(<, Nat)
  BY DEF OpToRel
<1>2. IsWellFoundedOn(Less, Nat)
  BY <1>1, NatLessThanWellFounded, Zenon
<1>3. \A m \in Nat, n \in Nat : m < n => <<m, n>> \in Less
  OBVIOUS
<1> HIDE DEF Less
<1>4. PICK n \in S : \A m \in S : ~(<<m, n>> \in Less)
  BY <1>2, WFMin, Zenon
<1>5. ASSUME NEW m \in S
      PROVE  n <= m
  <2>1. m \in Nat /\ n \in Nat /\ <<m, n>> \notin Less
    BY <1>4
  <2>2. ~(m < n)
    BY <1>3, <2>1
  <2> QED BY ONLY <2>1, <2>2
<1> QED BY <1>5

-----------------------------------------------------------------------------
(* The places of a finite set in an order *)

Ordered(M, R) ==
  /\ IsFiniteSet(M)
  /\ \A p \in M : <<p, p>> \notin R
  /\ \A p, q, r \in M : <<p, q>> \in R /\ <<q, r>> \in R => <<p, r>> \in R
  /\ \A p, q \in M : p = q \/ <<p, q>> \in R \/ <<q, p>> \in R

UpTo(M, R, p) == {q \in M : q = p \/ <<q, p>> \in R}
Rank(M, R, p) == Cardinality(UpTo(M, R, p))

LEMMA RankIsPlace ==
  ASSUME NEW M, NEW R, Ordered(M, R), NEW p \in M
  PROVE  /\ Rank(M, R, p) \in 1..Cardinality(M) /\ Cardinality(M) \in Nat
         /\ UpTo(M, R, p) \in SUBSET M /\ IsFiniteSet(UpTo(M, R, p))
<1>1. UpTo(M, R, p) \in SUBSET M /\ p \in UpTo(M, R, p)
  BY DEF UpTo
<1>2. IsFiniteSet(UpTo(M, R, p)) /\ Cardinality(UpTo(M, R, p)) <= Cardinality(M)
  BY <1>1, FS_Subset DEF Ordered
<1>3. Cardinality(UpTo(M, R, p)) \in Nat /\ Cardinality(M) \in Nat
  BY <1>2, FS_CardinalityType DEF Ordered
<1>4. Cardinality(UpTo(M, R, p)) # 0
  BY <1>1, <1>2, FS_EmptySet
<1> QED BY <1>1, <1>2, <1>3, <1>4 DEF Rank

LEMMA RankGrows ==
  ASSUME NEW M, NEW R, Ordered(M, R), NEW p \in M, NEW q \in M, <<p, q>> \in R
  PROVE  Rank(M, R, p) < Rank(M, R, q)
<1> DEFINE low == UpTo(M, R, p)
           high == UpTo(M, R, q)
<1>1. IsFiniteSet(low) /\ IsFiniteSet(high)
  BY RankIsPlace
<1>2. low \in SUBSET (high \ {q}) /\ q \in high
  BY DEF UpTo, Ordered
<1>3. IsFiniteSet(high \ {q}) /\ Cardinality(high \ {q}) = Cardinality(high) - 1
  BY <1>1, <1>2, FS_RemoveElement
<1>4. Cardinality(low) <= Cardinality(high \ {q})
  BY <1>2, <1>3, FS_Subset
<1>5. Cardinality(low) \in Nat /\ Cardinality(high) \in Nat
  BY <1>1, FS_CardinalityType
<1> HIDE DEF low, high
<1>6. Cardinality(low) < Cardinality(high)
  BY <1>3, <1>4, <1>5
<1> QED BY <1>6 DEF Rank, low, high

\* Places are the elements' own, and in their order.
LEMMA RankOrders ==
  ASSUME NEW M, NEW R, Ordered(M, R), NEW p \in M, NEW q \in M
  PROVE  /\ Rank(M, R, p) < Rank(M, R, q) <=> <<p, q>> \in R
         /\ Rank(M, R, p) = Rank(M, R, q) <=> p = q
         /\ Rank(M, R, p) <= Rank(M, R, q) <=> q = p \/ <<p, q>> \in R
<1>1. Rank(M, R, p) \in Int /\ Rank(M, R, q) \in Int
  BY RankIsPlace
<1>2. <<p, q>> \in R => Rank(M, R, p) < Rank(M, R, q)
  BY RankGrows
<1>3. <<q, p>> \in R => Rank(M, R, q) < Rank(M, R, p)
  BY RankGrows
<1>4. p = q \/ <<p, q>> \in R \/ <<q, p>> \in R
  BY DEF Ordered
<1>5. p = q => <<p, q>> \notin R
  BY DEF Ordered
<1> QED BY <1>1, <1>2, <1>3, <1>4, <1>5

LEMMA RankIsOwn ==
  ASSUME NEW M, NEW R, Ordered(M, R), NEW p \in M, NEW q \in M, Rank(M, R, p) = Rank(M, R, q)
  PROVE  p = q
<1>1. Rank(M, R, p) \in Int /\ Rank(M, R, q) \in Int
  BY RankIsPlace
<1>2. <<p, q>> \in R => Rank(M, R, p) < Rank(M, R, q)
  BY RankGrows
<1>3. <<q, p>> \in R => Rank(M, R, q) < Rank(M, R, p)
  BY RankGrows
<1> QED BY <1>1, <1>2, <1>3 DEF Ordered

\* Every place is taken.
LEMMA RankIsTaken ==
  ASSUME NEW M, NEW R, Ordered(M, R), NEW n \in 1..Cardinality(M)
  PROVE  \E p \in M : Rank(M, R, p) = n
<1>1. Cardinality(M) \in Nat /\ IsFiniteSet(M)
  BY FS_CardinalityType DEF Ordered
<1>2. SUFFICES ASSUME \A p \in M : Rank(M, R, p) # n
               PROVE  FALSE
  OBVIOUS
<1> DEFINE others == (1..Cardinality(M)) \ {n}
           f == [p \in M |-> Rank(M, R, p)]
<1>3. IsFiniteSet(1..Cardinality(M)) /\ Cardinality(1..Cardinality(M)) = Cardinality(M)
  BY <1>1, FS_Interval
<1>4. IsFiniteSet(others) /\ Cardinality(others) = Cardinality(M) - 1
  BY <1>3, FS_RemoveElement
<1>5. f \in [M -> others]
  BY <1>2, RankIsPlace
<1> HIDE DEF f, others
<1>6. Cardinality(others) < Cardinality(M)
  BY <1>1, <1>4
<1>7. PICK p \in M, q \in M : p # q /\ f[p] = f[q]
  BY <1>1, <1>4, <1>5, <1>6, FS_PigeonHole
<1>8. Rank(M, R, p) = Rank(M, R, q)
  BY <1>7 DEF f
<1>9. p \in M /\ q \in M
  BY <1>7
<1>10. p = q
  BY ONLY Ordered(M, R), <1>8, <1>9, RankIsOwn
<1> QED BY <1>7, <1>10

\* How many have a place after one and up to another.
LEMMA RanksBetween ==
  ASSUME NEW M, NEW R, Ordered(M, R), NEW a \in Nat, NEW b \in Nat, a <= b, b <= Cardinality(M)
  PROVE  /\ IsFiniteSet({p \in M : a < Rank(M, R, p) /\ Rank(M, R, p) <= b})
         /\ Cardinality({p \in M : a < Rank(M, R, p) /\ Rank(M, R, p) <= b}) = b - a
<1> DEFINE First(n) == {p \in M : Rank(M, R, p) <= n}
<1>0. IsFiniteSet(M) /\ Cardinality(M) \in Nat /\ \A p \in M : Rank(M, R, p) \in Nat /\ Rank(M, R, p) >= 1
  <2>1. IsFiniteSet(M) /\ Cardinality(M) \in Nat
    BY FS_CardinalityType DEF Ordered
  <2>2. ASSUME NEW p \in M PROVE Rank(M, R, p) \in Nat /\ Rank(M, R, p) >= 1
    <3>1. Rank(M, R, p) \in 1..Cardinality(M)
      BY RankIsPlace
    <3> QED BY <2>1, <3>1
  <2> QED BY <2>1, <2>2
<1>1. ASSUME NEW n \in Nat, n <= Cardinality(M)
      PROVE  IsFiniteSet(First(n)) /\ Cardinality(First(n)) = n
  <2>1. CASE n = 0
    <3>1. First(n) = {}
      BY <1>0, <2>1
    <3> QED BY <2>1, <3>1, FS_EmptySet
  <2>2. CASE n # 0
    <3>1. PICK p \in M : Rank(M, R, p) = n
      BY <1>0, <1>1, <2>2, RankIsTaken
    <3>2. First(n) = UpTo(M, R, p)
      BY <3>1, RankOrders DEF UpTo
    <3> QED BY <3>1, <3>2, RankIsPlace DEF Rank
  <2> QED BY <2>1, <2>2
<1>2. /\ IsFiniteSet(First(a)) /\ Cardinality(First(a)) = a
      /\ IsFiniteSet(First(b)) /\ Cardinality(First(b)) = b
  BY <1>0, <1>1
<1>3. {p \in M : a < Rank(M, R, p) /\ Rank(M, R, p) <= b} = First(b) \ First(a)
  BY <1>0
<1>4. First(b) \cap First(a) = First(a)
  BY <1>0
<1> HIDE DEF First
<1>5. IsFiniteSet(First(b) \ First(a)) /\ Cardinality(First(b) \ First(a)) = b - a
  BY <1>2, <1>4, FS_Difference
<1> QED BY <1>3, <1>5

\* The places in a set of numbers, counted up or down.
Upward(M) == {pr \in M \X M : pr[1] < pr[2]}
Downward(M) == {pr \in M \X M : pr[1] > pr[2]}

LEMMA NumbersOrdered ==
  ASSUME NEW M \in SUBSET Int, IsFiniteSet(M)
  PROVE  /\ Ordered(M, Upward(M)) /\ Ordered(M, Downward(M))
         /\ \A p \in M : /\ UpTo(M, Upward(M), p) = {q \in M : q <= p}
                         /\ UpTo(M, Downward(M), p) = {q \in M : q >= p}
<1>0. /\ \A p, q \in M : <<p, q>> \in Upward(M) <=> p < q
      /\ \A p, q \in M : <<p, q>> \in Downward(M) <=> p > q
      /\ M \subseteq Int
  BY DEF Upward, Downward
<1> HIDE DEF Upward, Downward
<1>1. Ordered(M, Upward(M))
  BY <1>0 DEF Ordered
<1>2. Ordered(M, Downward(M))
  BY <1>0 DEF Ordered
<1>3. ASSUME NEW p \in M
      PROVE  /\ UpTo(M, Upward(M), p) = {q \in M : q <= p}
             /\ UpTo(M, Downward(M), p) = {q \in M : q >= p}
  <2>1. \A q \in M : q <= p <=> q = p \/ <<q, p>> \in Upward(M)
    BY <1>0
  <2>2. \A q \in M : q >= p <=> q = p \/ <<q, p>> \in Downward(M)
    BY <1>0
  <2>3. UpTo(M, Upward(M), p) = {q \in M : q <= p}
    BY ONLY <2>1, Zenon DEF UpTo
  <2>4. UpTo(M, Downward(M), p) = {q \in M : q >= p}
    BY ONLY <2>2, Zenon DEF UpTo
  <2> QED BY <2>3, <2>4
<1> QED BY <1>1, <1>2, <1>3

-----------------------------------------------------------------------------
(* Pages *)

LEMMA PagesAdjoin ==
  ASSUME NEW n \in Nat, NEW size \in Nat
  PROVE  /\ n * size \in Nat /\ (n + 1) * size = n * size + size
         /\ n # 0 => (n - 1) * size \in Nat /\ n * size = (n - 1) * size + size
OBVIOUS

LEMMA PagesGrow ==
  ASSUME NEW m \in Nat, NEW n \in Nat, m <= n, NEW size \in Nat
  PROVE  m * size <= n * size /\ (size # 0 => m <= m * size)
OBVIOUS

LEMMA PagesSuffice ==
  ASSUME NEW total0 \in Nat, NEW size \in Nat \ {0}
  PROVE  /\ (total0 + size - 1) \div size \in Nat
         /\ total0 <= ((total0 + size - 1) \div size) * size
         /\ total0 > 0 => (((total0 + size - 1) \div size) - 1) * size < total0
OBVIOUS

\* A page holds what has the places after one and up to another, if there are so many.
LEMMA PlacesOfPage ==
  ASSUME NEW M, NEW R, Ordered(M, R), NEW a \in Nat, NEW b \in Nat, a <= b,
         NEW S, S = {p \in M : a < Rank(M, R, p) /\ Rank(M, R, p) <= b}
  PROVE  /\ IsFiniteSet(S) /\ Cardinality(S) \in Nat /\ Cardinality(S) <= b - a
         /\ Cardinality(M) <= a => Cardinality(S) = 0 /\ S = {}
         /\ a <= Cardinality(M) /\ Cardinality(M) <= b => Cardinality(S) = Cardinality(M) - a
         /\ b <= Cardinality(M) => Cardinality(S) = b - a
         /\ a < b /\ a < Cardinality(M) => S # {}
<1>0. IsFiniteSet(M) /\ Cardinality(M) \in Nat
  BY FS_CardinalityType DEF Ordered
<1>1. \A p \in M : Rank(M, R, p) \in Nat /\ Rank(M, R, p) <= Cardinality(M)
  <2>1. ASSUME NEW p \in M PROVE Rank(M, R, p) \in 1..Cardinality(M)
    BY RankIsPlace
  <2> QED BY <1>0, <2>1
<1>2. CASE Cardinality(M) <= a
  <2>1. S = {}
    BY <1>0, <1>1, <1>2
  <2>2. Cardinality(S) = 0 /\ IsFiniteSet(S)
    BY <2>1, FS_EmptySet
  <2> QED BY <1>0, <1>2, <2>1, <2>2
<1>3. CASE a < Cardinality(M)
  <2> DEFINE last == IF b <= Cardinality(M) THEN b ELSE Cardinality(M)
  <2>1. last \in Nat /\ a <= last /\ last <= Cardinality(M) /\ last <= b
    BY <1>0, <1>3
  <2>2. S = {p \in M : a < Rank(M, R, p) /\ Rank(M, R, p) <= last}
    BY <1>0, <1>1
  <2>3. IsFiniteSet(S) /\ Cardinality(S) = last - a
    BY <2>1, <2>2, RanksBetween
  <2>4. a < b => Cardinality(S) # 0
    BY <1>0, <1>3, <2>3
  <2>5. a < b => S # {}
    BY <2>4, FS_EmptySet
  <2> QED BY <1>0, <1>3, <2>1, <2>3, <2>5
<1> QED BY <1>0, <1>2, <1>3

-----------------------------------------------------------------------------
(* ProductChoice *)

ChoiceStock == [Choice!Variants -> 0..MaxUnits]
Offered == ChoiceOffers \union {Choice!NothingOffered}
Navigations ==
  [step : {"none", "asked", "loaded"}, size : Sizes \union {NoChoice}, color : Colors \union {NoChoice},
   product : Offered, asked : Nat]

\* The shop, and the page on its way.
ShopTyped ==
  /\ offer \in Offered /\ stocks \in Seq(ChoiceStock) /\ Len(stocks) \in 1..(StockMoves + 1)
  /\ nav \in Navigations /\ nav.asked \in 1..Len(stocks)
  /\ nav.step = "loaded" => nav.product \in ChoiceOffers
  /\ pending \in BOOLEAN /\ view \in {"loading", "page", "gone", "cart"}
\* The page that is shown.
ShownTyped ==
  /\ product \in Offered /\ address \in Choice!Addresses /\ selected \in Choice!Variants
  /\ answered \in BOOLEAN /\ available \in 0..MaxUnits /\ asked \in 1..Len(stocks)
  /\ requestedQuantity \in 1..MaxItemQuantity
  /\ view = "page" => /\ product \in ChoiceOffers
                      /\ selected.size \in Choice!ToSet(product.sizes)
                      /\ selected.color \in Choice!ToSet(product.colors)
\* What it says of the units was so at some moment since it was asked for.
UnitsWereThere ==
  answered => \E i \in asked..Len(stocks) : stocks[i][selected] = available
\* The page on its way keeps one of the choices, or was asked for by a picture.
ChoiceOnItsWay ==
  pending => \/ nav.color = address.color \/ nav.size = address.size \/ nav.size = selected.size
ChoiceInv == ShopTyped /\ ShownTyped /\ UnitsWereThere /\ ChoiceOnItsWay /\ Choice!AddedWasThere

LEMMA OfferType ==
  ASSUME Choice!ChoiceAssumption, NEW o \in ChoiceOffers
  PROVE  /\ o.sizes \in Seq(Sizes) /\ o.sizes # <<>> /\ o.colors \in Seq(Colors) /\ o.colors # <<>>
BY DEF Choice!ChoiceAssumption

\* A page settles on what its product offers.
LEMMA SettledType ==
  ASSUME NEW S, NEW s \in Seq(S), s # <<>>, NEW v
  PROVE  Choice!Settled(s, v) \in Choice!ToSet(s) /\ Choice!ToSet(s) \in SUBSET S
<1>1. Head(s) = s[1] /\ 1 \in DOMAIN s /\ \A i \in DOMAIN s : s[i] \in S
  OBVIOUS
<1> QED BY <1>1 DEF Choice!Settled, Choice!ToSet

LEMMA InitChoiceInv ==
  ASSUME Choice!ChoiceAssumption, Choice!Init
  PROVE  ChoiceInv
<1> USE DEF Choice!Init
<1>1. FirstStock \in ChoiceStock /\ StockMoves \in Nat /\ MaxItemQuantity \in Nat \ {0} /\ MaxUnits \in Nat
      /\ FirstOffer \in ChoiceOffers
  BY DEF Choice!ChoiceAssumption, ChoiceStock
<1>2. stocks \in Seq(ChoiceStock) /\ Len(stocks) = 1
  BY <1>1
<1>3. ShopTyped
  <2>1. nav \in Navigations /\ nav.asked = 1 /\ nav.step = "asked"
    <3>1. /\ nav = [step |-> "asked", size |-> address.size, color |-> address.color,
                    product |-> Choice!NothingOffered, asked |-> Len(stocks)]
          /\ address \in Choice!Addresses
      BY DEF Choice!Asked
    <3>2. Choice!NothingOffered \in Offered
      BY DEF Offered
    <3>3. address.size \in Sizes \union {NoChoice} /\ address.color \in Colors \union {NoChoice}
      BY <3>1 DEF Choice!Addresses
    <3> QED BY <1>2, <3>1, <3>2, <3>3 DEF Navigations
  <2>2. Len(stocks) \in 1..(StockMoves + 1) /\ nav.asked \in 1..Len(stocks)
    BY <1>1, <1>2, <2>1
  <2>3. offer \in Offered /\ pending \in BOOLEAN /\ view \in {"loading", "page", "gone", "cart"}
    BY <1>1 DEF Offered
  <2>4. ~(nav.step = "loaded")
    BY <2>1
  <2> QED BY <1>2, <2>1, <2>2, <2>3, <2>4 DEF ShopTyped
<1>4. ShownTyped
  <2>1. Choice!Variants # {}
    <3>1. /\ Head(FirstOffer.sizes) \in Sizes /\ Head(FirstOffer.colors) \in Colors
      BY <1>1, OfferType
    <3>2. [size |-> Head(FirstOffer.sizes), color |-> Head(FirstOffer.colors)] \in Choice!Variants
      BY <3>1 DEF Choice!Variants
    <3> QED BY <3>2
  <2>2. selected \in Choice!Variants
    BY <2>1
  <2>3. asked \in 1..Len(stocks) /\ requestedQuantity \in 1..MaxItemQuantity /\ available \in 0..MaxUnits
    BY <1>1, <1>2
  <2> QED BY <2>2, <2>3 DEF ShownTyped, Offered
<1>5. UnitsWereThere /\ ChoiceOnItsWay /\ Choice!AddedWasThere
  BY DEF UnitsWereThere, ChoiceOnItsWay, Choice!AddedWasThere
<1> QED BY <1>3, <1>4, <1>5 DEF ChoiceInv

\* The page that is shown stays, and the stock so far is not forgotten.
LEMMA ShownStays ==
  ASSUME ShopTyped, ShownTyped, UnitsWereThere,
         UNCHANGED <<address, product, selected, answered, available, asked, requestedQuantity>>,
         view' \in {view, "gone", "cart"}, stocks' \in Seq(ChoiceStock),
         Len(stocks') \in 1..(StockMoves + 1), Len(stocks') >= Len(stocks),
         \A i \in 1..Len(stocks) : stocks'[i] = stocks[i]
  PROVE  ShownTyped' /\ UnitsWereThere'
<1>0. /\ Len(stocks) \in Nat /\ Len(stocks') \in Nat /\ asked \in 1..Len(stocks)
      /\ \A i \in asked..Len(stocks) : i \in asked..Len(stocks') /\ i \in 1..Len(stocks)
  BY DEF ShopTyped, ShownTyped
<1>1. ShownTyped'
  BY <1>0 DEF ShownTyped, Offered, Choice!NothingOffered, Choice!Addresses, Choice!Variants, Choice!ToSet
<1>2. UnitsWereThere'
  <2> SUFFICES ASSUME answered PROVE \E i \in asked..Len(stocks') : stocks'[i][selected] = available
    BY DEF UnitsWereThere
  <2>1. PICK i \in asked..Len(stocks) : stocks[i][selected] = available
    BY DEF UnitsWereThere
  <2>2. i \in asked..Len(stocks') /\ stocks'[i] = stocks[i]
    BY <1>0
  <2> QED BY <2>1, <2>2
<1> QED BY <1>1, <1>2

\* Nothing of the shop has moved.
LEMMA StocksStay ==
  ASSUME ShopTyped, UNCHANGED stocks
  PROVE  /\ stocks' \in Seq(ChoiceStock) /\ Len(stocks') \in 1..(StockMoves + 1)
         /\ Len(stocks') >= Len(stocks) /\ \A i \in 1..Len(stocks) : stocks'[i] = stocks[i]
BY DEF ShopTyped

\* A navigation to an address.
LEMMA AskedType ==
  ASSUME ShopTyped, NEW a \in Choice!Addresses
  PROVE  /\ Choice!Asked(a) \in Navigations /\ Choice!Asked(a).asked \in 1..Len(stocks)
         /\ Choice!Asked(a).step = "asked"
         /\ Choice!Asked(a).size = a.size /\ Choice!Asked(a).color = a.color
<1>1. Len(stocks) \in Nat /\ Len(stocks) \in 1..Len(stocks)
  BY DEF ShopTyped
<1> QED BY <1>1 DEF Choice!Asked, Navigations, Offered, Choice!Addresses

LEMMA NoNavType ==
  ASSUME ShopTyped
  PROVE  Choice!NoNav \in Navigations /\ Choice!NoNav.asked \in 1..Len(stocks) /\ Choice!NoNav.step = "none"
<1>1. Len(stocks) \in Nat /\ 1 \in 1..Len(stocks)
  BY DEF ShopTyped
<1> QED BY <1>1 DEF Choice!NoNav, Navigations, Offered

\* The units a line takes.
LEMMA QuantityType ==
  ASSUME ShopTyped, ShownTyped, Choice!ChoiceAssumption
  PROVE  /\ Choice!maxQuantity \in 0..MaxItemQuantity
         /\ Choice!quantity \in 1..MaxItemQuantity
<1>1. /\ available \in Nat /\ requestedQuantity \in 1..MaxItemQuantity /\ MaxItemQuantity \in Nat \ {0}
  BY DEF ShownTyped, Choice!ChoiceAssumption
<1>2. Choice!maxQuantity \in 0..MaxItemQuantity
  BY <1>1 DEF Choice!maxQuantity
<1>3. Choice!quantity \in 1..MaxItemQuantity
  BY <1>1, <1>2 DEF Choice!quantity, Choice!AtMost, Choice!AtLeastOne
<1> QED BY <1>2, <1>3

\* The shop is edited, its stock moves, the server reads the product.
LEMMA ShopKeepsChoice ==
  ASSUME Choice!ChoiceAssumption, ChoiceInv, Choice!Edit \/ Choice!MoveStock \/ Choice!LoadProduct
  PROVE  ChoiceInv'
<1> USE DEF ChoiceInv
<1>0. UNCHANGED <<address, product, selected, answered, available, asked, requestedQuantity>> /\ added' = {}
  BY DEF Choice!Edit, Choice!MoveStock, Choice!LoadProduct, Choice!shown
<1>1. CASE Choice!Edit
  <2>1. /\ UNCHANGED <<stocks, nav, pending, view>> /\ offer' \in Offered
    BY <1>1 DEF Choice!Edit, Offered
  <2>2. ShopTyped'
    BY <2>1 DEF ShopTyped, Offered, Navigations, Choice!NothingOffered, ChoiceStock, Choice!Variants
  <2>3. ShownTyped' /\ UnitsWereThere'
    BY <1>0, <2>1, StocksStay, ShownStays
  <2>4. ChoiceOnItsWay' /\ Choice!AddedWasThere'
    BY <1>0, <2>1 DEF ChoiceOnItsWay, Choice!AddedWasThere
  <2> QED BY <2>2, <2>3, <2>4
<1>2. CASE Choice!MoveStock
  <2>0. /\ UNCHANGED <<offer, nav, pending, view>> /\ Len(stocks) <= StockMoves
    BY <1>2 DEF Choice!MoveStock
  <2>1. PICK v \in Moving, n \in 0..MaxUnits : stocks' = Append(stocks, [Choice!Last(stocks) EXCEPT ![v] = n])
    BY <1>2 DEF Choice!MoveStock
  <2>2. stocks \in Seq(ChoiceStock) /\ Len(stocks) \in Nat \ {0} /\ StockMoves \in Nat
    BY DEF ShopTyped, Choice!ChoiceAssumption
  <2>3. Choice!Last(stocks) \in ChoiceStock
    BY <2>2 DEF Choice!Last
  <2>4. [Choice!Last(stocks) EXCEPT ![v] = n] \in ChoiceStock
    BY <2>3 DEF ChoiceStock
  <2>5. /\ stocks' \in Seq(ChoiceStock) /\ Len(stocks') = Len(stocks) + 1
        /\ \A i \in 1..Len(stocks) : stocks'[i] = stocks[i]
    BY <2>1, <2>2, <2>4
  <2>6. Len(stocks') \in 1..(StockMoves + 1) /\ Len(stocks') >= Len(stocks)
    BY <2>0, <2>2, <2>5
  <2>7. ShopTyped'
    <3>1. nav' \in Navigations /\ nav'.asked \in 1..Len(stocks')
      BY <2>0, <2>2, <2>5 DEF ShopTyped
    <3> QED BY <2>0, <2>5, <2>6, <3>1 DEF ShopTyped, Offered, Navigations, Choice!NothingOffered, ChoiceStock,
                                   Choice!Variants
  <2>8. ShownTyped' /\ UnitsWereThere'
    BY <1>0, <2>0, <2>5, <2>6, ShownStays
  <2>9. ChoiceOnItsWay' /\ Choice!AddedWasThere'
    BY <1>0, <2>0 DEF ChoiceOnItsWay, Choice!AddedWasThere
  <2> QED BY <2>7, <2>8, <2>9
<1>3. CASE Choice!LoadProduct
  <2>0. UNCHANGED <<offer, stocks>>
    BY <1>3 DEF Choice!LoadProduct
  <2>1. \/ /\ offer # Choice!NothingOffered /\ UNCHANGED <<view, pending>>
           /\ nav' = [nav EXCEPT !.step = "loaded", !.product = offer]
        \/ nav' = Choice!NoNav /\ view' = "gone" /\ pending' = FALSE
    BY <1>3 DEF Choice!LoadProduct
  <2>2. /\ nav' \in Navigations /\ nav'.asked \in 1..Len(stocks)
        /\ nav'.step = "loaded" => nav'.product \in ChoiceOffers
    <3>1. CASE nav' = [nav EXCEPT !.step = "loaded", !.product = offer] /\ offer # Choice!NothingOffered
      BY <3>1 DEF ShopTyped, Navigations, Offered
    <3>2. CASE nav' = Choice!NoNav
      BY <3>2, NoNavType
    <3> QED BY <2>1, <3>1, <3>2
  <2>3. view' \in {view, "gone", "cart"} /\ pending' \in BOOLEAN /\ view' \in {"loading", "page", "gone", "cart"}
    BY <2>1 DEF ShopTyped
  <2>4. ShopTyped'
    BY <2>0, <2>2, <2>3 DEF ShopTyped, Offered, Navigations, Choice!NothingOffered, ChoiceStock, Choice!Variants
  <2>5. ShownTyped' /\ UnitsWereThere'
    BY <1>0, <2>0, <2>3, StocksStay, ShownStays
  <2>6. ChoiceOnItsWay'
    <3>1. pending' => pending /\ nav'.size = nav.size /\ nav'.color = nav.color
      BY <2>1 DEF ShopTyped, Navigations
    <3> QED BY <1>0, <3>1 DEF ChoiceOnItsWay
  <2>7. Choice!AddedWasThere'
    BY <1>0 DEF Choice!AddedWasThere
  <2> QED BY <2>4, <2>5, <2>6, <2>7
<1> QED BY <1>1, <1>2, <1>3

\* The page is shown.
LEMMA ShowKeepsChoice ==
  ASSUME Choice!ChoiceAssumption, ChoiceInv, Choice!Show
  PROVE  /\ ChoiceInv' /\ product' \in ChoiceOffers
         /\ selected'.size = Choice!Settled(product'.sizes, nav.size)
         /\ selected'.color = Choice!Settled(product'.colors, nav.color)
<1> USE DEF ChoiceInv
<1>0. /\ UNCHANGED <<offer, stocks, requestedQuantity>> /\ added' = {} /\ pending' = FALSE /\ view' = "page"
      /\ nav' = Choice!NoNav /\ product' = nav.product /\ asked' = nav.asked
      /\ address' = [size |-> nav.size, color |-> nav.color] /\ nav.product \in ChoiceOffers
      /\ selected' = [size  |-> Choice!Settled(nav.product.sizes, nav.size),
                      color |-> Choice!Settled(nav.product.colors, nav.color)]
  BY DEF Choice!Show, ShopTyped
<1>1. \/ answered' = FALSE /\ available' = 0
      \/ answered' = TRUE /\ available' = Choice!Units(selected')
  BY <1>0 DEF Choice!Show
<1>2. /\ selected'.size \in Choice!ToSet(product'.sizes) /\ selected'.size \in Sizes
      /\ selected'.color \in Choice!ToSet(product'.colors) /\ selected'.color \in Colors
  <2>1. /\ Choice!Settled(nav.product.sizes, nav.size) \in Choice!ToSet(nav.product.sizes)
        /\ Choice!ToSet(nav.product.sizes) \in SUBSET Sizes
    BY <1>0, OfferType, SettledType
  <2>2. /\ Choice!Settled(nav.product.colors, nav.color) \in Choice!ToSet(nav.product.colors)
        /\ Choice!ToSet(nav.product.colors) \in SUBSET Colors
    BY <1>0, OfferType, SettledType
  <2> QED BY <1>0, <2>1, <2>2
<1>3. selected' \in Choice!Variants
  BY <1>0, <1>2 DEF Choice!Variants
<1>4. stocks \in Seq(ChoiceStock) /\ Len(stocks) \in Nat \ {0} /\ nav.asked \in 1..Len(stocks) /\ MaxUnits \in Nat
      /\ nav \in Navigations
  BY DEF ShopTyped, Choice!ChoiceAssumption
<1>5. Choice!Units(selected') = stocks[Len(stocks)][selected'] /\ stocks[Len(stocks)][selected'] \in 0..MaxUnits
  BY <1>3, <1>4 DEF Choice!Units, Choice!Last, ChoiceStock
<1>6. UnitsWereThere'
  <2>1. Len(stocks) \in asked'..Len(stocks)
    BY <1>0, <1>4
  <2> QED BY <1>0, <1>1, <1>5, <2>1 DEF UnitsWereThere
<1>7. ShownTyped'
  <2>1. available' \in 0..MaxUnits /\ answered' \in BOOLEAN
    <3>1. CASE answered' = FALSE /\ available' = 0
      <4>1. 0 \in 0..MaxUnits
        BY <1>4
      <4>2. answered' \in BOOLEAN
        BY <3>1, Zenon
      <4> QED BY <3>1, <4>1, <4>2
    <3>2. CASE answered' = TRUE /\ available' = Choice!Units(selected')
      BY <1>5, <3>2
    <3> QED BY <1>1, <3>1, <3>2
  <2>2. address' \in Choice!Addresses
    BY <1>0, <1>4 DEF Choice!Addresses, Navigations
  <2>3. product' \in Offered /\ asked' \in 1..Len(stocks') /\ requestedQuantity' \in 1..MaxItemQuantity
    BY <1>0, <1>4 DEF Offered, ShownTyped
  <2> QED BY <1>0, <1>2, <1>3, <2>1, <2>2, <2>3
          DEF ShownTyped, Offered, Choice!NothingOffered, Choice!Addresses, Choice!Variants, Choice!ToSet
<1>8. ShopTyped'
  <2>1. nav' \in Navigations /\ nav'.asked \in 1..Len(stocks') /\ nav'.step = "none"
    BY <1>0, NoNavType
  <2> QED BY <1>0, <2>1 DEF ShopTyped, Offered, Navigations, Choice!NothingOffered, ChoiceStock, Choice!Variants
<1>9. ChoiceOnItsWay' /\ Choice!AddedWasThere'
  BY <1>0 DEF ChoiceOnItsWay, Choice!AddedWasThere
<1>10. /\ selected'.size = Choice!Settled(product'.sizes, nav.size)
       /\ selected'.color = Choice!Settled(product'.colors, nav.color)
  BY <1>0
<1> QED BY <1>0, <1>6, <1>7, <1>8, <1>9, <1>10

\* The visitor chooses, counts and puts it in the bag.
LEMMA VisitorKeepsChoice ==
  ASSUME Choice!ChoiceAssumption, ChoiceInv,
         \/ Choice!handleTypeChange \/ Choice!FollowPicture \/ Choice!Increment \/ Choice!Decrement
         \/ Choice!handleAddToCart \/ Choice!handleBuyNow
  PROVE  ChoiceInv'
<1> USE DEF ChoiceInv
<1>0. UNCHANGED <<offer, stocks, address, product, selected, answered, available, asked>>
  BY DEF Choice!handleTypeChange, Choice!FollowPicture, Choice!Increment, Choice!Decrement,
         Choice!handleAddToCart, Choice!handleBuyNow, Choice!shown
<1>1. ASSUME view' \in {view, "gone", "cart"}, UNCHANGED requestedQuantity
      PROVE  ShownTyped' /\ UnitsWereThere'
  BY <1>0, <1>1, StocksStay, ShownStays
<1>2. ASSUME nav' \in Navigations, nav'.asked \in 1..Len(stocks),
             nav'.step = "loaded" => nav'.product \in ChoiceOffers,
             pending' \in BOOLEAN, view' \in {view, "gone", "cart"}
      PROVE  ShopTyped'
  BY <1>0, <1>2 DEF ShopTyped, Offered, Navigations, Choice!NothingOffered, ChoiceStock, Choice!Variants
<1>3. CASE Choice!handleTypeChange
  <2>0. view = "page" /\ view' = view /\ pending' = TRUE /\ added' = {} /\ requestedQuantity' = requestedQuantity
    BY <1>3 DEF Choice!handleTypeChange
  <2>1. address \in Choice!Addresses /\ product \in ChoiceOffers
    BY <2>0 DEF ShownTyped
  <2>2. PICK a \in Choice!Addresses : nav' = Choice!Asked(a) /\ (a.size = address.size \/ a.color = address.color)
    <3>1. Choice!ToSet(product.sizes) \in SUBSET Sizes /\ Choice!ToSet(product.colors) \in SUBSET Colors
      BY <2>1, OfferType, SettledType
    <3>2. CASE \E s \in Choice!ToSet(product.sizes) : nav' = Choice!Asked(Choice!With("size", s))
      <4>1. PICK s \in Sizes : nav' = Choice!Asked(Choice!With("size", s))
        BY <3>1, <3>2
      <4>2. /\ Choice!With("size", s) \in Choice!Addresses
            /\ Choice!With("size", s).color = address.color
        BY <2>1 DEF Choice!With, Choice!Addresses
      <4> QED BY <4>1, <4>2
    <3>3. CASE \E c \in Choice!ToSet(product.colors) : nav' = Choice!Asked(Choice!With("color", c))
      <4>1. PICK c \in Colors : nav' = Choice!Asked(Choice!With("color", c))
        BY <3>1, <3>3
      <4>2. /\ Choice!With("color", c) \in Choice!Addresses
            /\ Choice!With("color", c).size = address.size
        BY <2>1 DEF Choice!With, Choice!Addresses
      <4> QED BY <4>1, <4>2
    <3> QED BY <1>3, <3>2, <3>3 DEF Choice!handleTypeChange
  <2>3. /\ nav' \in Navigations /\ nav'.asked \in 1..Len(stocks) /\ nav'.step = "asked"
        /\ nav'.size = a.size /\ nav'.color = a.color
    BY <2>2, AskedType
  <2>4. ChoiceOnItsWay' /\ Choice!AddedWasThere'
    BY <1>0, <2>0, <2>2, <2>3 DEF ChoiceOnItsWay, Choice!AddedWasThere
  <2> QED BY <1>1, <1>2, <2>0, <2>3, <2>4
<1>4. CASE Choice!FollowPicture
  <2>0. /\ view = "page" /\ view' = view /\ pending' = pending /\ added' = {}
        /\ requestedQuantity' = requestedQuantity
    BY <1>4 DEF Choice!FollowPicture
  <2>1. product \in ChoiceOffers /\ selected.size \in Sizes /\ pending \in BOOLEAN
    BY <2>0 DEF ShownTyped, ShopTyped, Choice!Variants
  <2>2. Choice!ToSet(product.colors) \in SUBSET Colors
    BY <2>1, OfferType, SettledType
  <2>3. PICK c \in Colors : nav' = Choice!Asked([size |-> selected.size, color |-> c])
    BY <1>4, <2>2 DEF Choice!FollowPicture
  <2>4. [size |-> selected.size, color |-> c] \in Choice!Addresses
    BY <2>1 DEF Choice!Addresses
  <2>5. /\ nav' \in Navigations /\ nav'.asked \in 1..Len(stocks) /\ nav'.step = "asked"
        /\ nav'.size = selected.size
    BY <2>3, <2>4, AskedType
  <2>6. ChoiceOnItsWay' /\ Choice!AddedWasThere'
    BY <1>0, <2>0, <2>5 DEF ChoiceOnItsWay, Choice!AddedWasThere
  <2> QED BY <1>1, <1>2, <2>0, <2>1, <2>5, <2>6
<1>5. CASE Choice!Increment \/ Choice!Decrement
  <2>1. UNCHANGED <<nav, pending, view>> /\ added' = {}
    BY <1>5 DEF Choice!Increment, Choice!Decrement
  <2>2. requestedQuantity' \in 1..MaxItemQuantity
    <3>1. requestedQuantity \in 1..MaxItemQuantity /\ MaxItemQuantity \in Nat
      BY DEF ShownTyped, Choice!ChoiceAssumption
    <3> QED BY <1>5, <3>1, QuantityType
            DEF Choice!Increment, Choice!Decrement, Choice!AtMost, Choice!AtLeastOne
  <2>3. ShopTyped'
    BY <1>2, <2>1 DEF ShopTyped
  <2>4. ShownTyped'
    BY <1>0, <2>1, <2>2
       DEF ShownTyped, Offered, Choice!NothingOffered, Choice!Addresses, Choice!Variants, Choice!ToSet
  <2>5. UnitsWereThere' /\ ChoiceOnItsWay' /\ Choice!AddedWasThere'
    BY <1>0, <2>1 DEF UnitsWereThere, ChoiceOnItsWay, Choice!AddedWasThere
  <2> QED BY <2>3, <2>4, <2>5
<1>6. CASE Choice!handleAddToCart \/ Choice!handleBuyNow
  <2>0. /\ Choice!canAdd /\ ~pending /\ added' = {Choice!Line} /\ view' \in {view, "cart"}
        /\ pending' = pending /\ nav' \in {nav, Choice!NoNav} /\ requestedQuantity' = requestedQuantity
    BY <1>6 DEF Choice!handleAddToCart, Choice!handleBuyNow
  <2>1. ShopTyped'
    <3>1. /\ nav' \in Navigations /\ nav'.asked \in 1..Len(stocks)
          /\ nav'.step = "loaded" => nav'.product \in ChoiceOffers
      BY <2>0, NoNavType DEF ShopTyped
    <3>2. pending' \in BOOLEAN
      BY <2>0 DEF ShopTyped
    <3> QED BY <1>2, <2>0, <3>1, <3>2
  <2>2. ShownTyped' /\ UnitsWereThere'
    BY <1>1, <2>0
  <2>3. ChoiceOnItsWay'
    BY <2>0 DEF ChoiceOnItsWay
  <2>4. Choice!AddedWasThere'
    <3>1. /\ Choice!Line.quantity = Choice!quantity
          /\ [size |-> Choice!Line.size, color |-> Choice!Line.color] = selected
      BY DEF Choice!Line, ShownTyped, Choice!Variants
    <3>2. PICK i \in asked..Len(stocks) : stocks[i][selected] = available
      BY <2>0 DEF UnitsWereThere, Choice!canAdd
    <3>3. Choice!quantity \in 1..available
      <4>1. Choice!quantity \in 1..MaxItemQuantity /\ available \in Nat /\ MaxItemQuantity \in Nat
        BY QuantityType DEF ShownTyped, Choice!ChoiceAssumption
      <4>2. available >= Choice!quantity
        BY <2>0 DEF Choice!canAdd
      <4> QED BY <4>1, <4>2
    <3>4. Choice!Line.quantity \in 1..stocks[i][[size |-> Choice!Line.size, color |-> Choice!Line.color]]
      BY <3>1, <3>2, <3>3
    <3> QED BY <1>0, <2>0, <3>2, <3>4 DEF Choice!AddedWasThere
  <2> QED BY <2>1, <2>2, <2>3, <2>4
<1> QED BY <1>3, <1>4, <1>5, <1>6

LEMMA NextChoiceInv ==
  ASSUME Choice!ChoiceAssumption, ChoiceInv, [Choice!Next]_(Choice!vars)
  PROVE  ChoiceInv'
<1>1. CASE UNCHANGED Choice!vars
  <2>1. UNCHANGED <<offer, stocks, nav, pending, view, address, product, selected>>
    BY <1>1 DEF Choice!vars, Choice!shown
  <2>2. UNCHANGED <<answered, available, asked, requestedQuantity, added>>
    BY <1>1 DEF Choice!vars, Choice!shown
  <2>3. ShopTyped'
    BY <2>1 DEF ChoiceInv, ShopTyped, Offered, Navigations, Choice!NothingOffered, ChoiceStock, Choice!Variants
  <2>4. ShownTyped' /\ UnitsWereThere'
    BY <2>1, <2>2, StocksStay, ShownStays DEF ChoiceInv
  <2>5. ChoiceOnItsWay' /\ Choice!AddedWasThere'
    BY <2>1, <2>2 DEF ChoiceInv, ChoiceOnItsWay, Choice!AddedWasThere
  <2> QED BY <2>3, <2>4, <2>5 DEF ChoiceInv
<1> QED BY <1>1, ShopKeepsChoice, ShowKeepsChoice, VisitorKeepsChoice DEF Choice!Next

LEMMA ChoiceTyped ==
  ASSUME ChoiceInv
  PROVE  Choice!TypeOK
<1>1. Len(stocks) <= StockMoves + 1 /\ nav.step \in {"none", "asked", "loaded"}
  BY DEF ChoiceInv, ShopTyped, Navigations
<1> QED BY <1>1 DEF ChoiceInv, ShopTyped, ShownTyped, Choice!TypeOK, Offered, ChoiceStock

LEMMA OtherChoiceKept ==
  ASSUME Choice!ChoiceAssumption, ChoiceInv, Choice!Next
  PROVE  Choice!OtherChoiceStays
<1> SUFFICES ASSUME pending, ~pending', view' = "page"
             PROVE  \/ selected'.color = Choice!Settled(product'.colors, address.color)
                    \/ selected'.size = Choice!Settled(product'.sizes, address.size)
                    \/ selected'.size = Choice!Settled(product'.sizes, selected.size)
  BY DEF Choice!OtherChoiceStays
<1>1. CASE Choice!Show
  BY <1>1, ShowKeepsChoice DEF ChoiceInv, ChoiceOnItsWay
<1>2. CASE Choice!LoadProduct
  BY <1>2 DEF Choice!LoadProduct
<1>3. ~Choice!Edit /\ ~Choice!MoveStock /\ ~Choice!handleTypeChange /\ ~Choice!FollowPicture
  BY DEF Choice!Edit, Choice!MoveStock, Choice!handleTypeChange, Choice!FollowPicture
<1>4. /\ ~Choice!Increment /\ ~Choice!Decrement /\ ~Choice!handleAddToCart /\ ~Choice!handleBuyNow
  BY DEF Choice!Increment, Choice!Decrement, Choice!handleAddToCart, Choice!handleBuyNow
<1> QED BY <1>1, <1>2, <1>3, <1>4 DEF Choice!Next

-----------------------------------------------------------------------------
(* CartCheck *)

Answers == Versions \union {Gone, Failure, NoReply}
Causes == {"unsupported", "unverified", "gone", "variant"}

\* The catalogue remembers what each product has been.
ProductsTyped ==
  /\ is \in [Products -> Versions \union {Gone}]
  /\ was \in [Products -> SUBSET (Versions \union {Gone})]
  /\ \A p \in Products : is[p] \in was[p]
CheckTyped ==
  /\ cart \in CheckCarts /\ asked \in SUBSET Check!Lines
  /\ answer \in [Check!Lines -> Answers] /\ results \in [Check!Lines -> Versions \union {NoReply}]
  /\ nextIndex \in 1..(Len(cart) + 1) /\ working \in [Check!Workers -> Check!Lines \union {0}]
  /\ outcome \in {"checking", "resolved"} \union Causes
\* An answer was so.
AnswersWere ==
  \A i \in Check!Lines : answer[i] \in was[cart[i].id] \union {Failure, NoReply}
\* A line has been checked, with the answer that its product's first line got.
Checked(i) ==
  results[i] = answer[Check!RequestOf(i)] /\ Check!Accepts(results[i], cart[i])
\* As long as none was refused, every line that was taken is checked or in a worker's hands.
LinesAccounted ==
  outcome \in {"checking", "resolved"} =>
    \A i \in Check!Lines : i < nextIndex => Checked(i) \/ \E w \in Check!Workers : working[w] = i
AllDone ==
  outcome = "resolved" => nextIndex = Len(cart) + 1 /\ \A w \in Check!Workers : working[w] = 0
CheckInv ==
  ProductsTyped /\ CheckTyped /\ AnswersWere /\ LinesAccounted /\ AllDone /\ Check!RefusedForCause

\* The first line of a product asks for it.
LEMMA RequestType ==
  ASSUME Check!CartAssumption, cart \in CheckCarts, NEW i \in Check!Lines
  PROVE  /\ Check!RequestOf(i) \in Check!Lines /\ cart[Check!RequestOf(i)].id = cart[i].id
         /\ cart[i].id \in Products /\ Check!Lines = 1..Len(cart) /\ Len(cart) \in Nat \ {0}
<1> DEFINE S == {j \in Check!Lines : cart[j].id = cart[i].id}
<1>1. Check!Lines = 1..Len(cart) /\ Len(cart) \in Nat \ {0} /\ cart[i].id \in Products
  BY DEF Check!CartAssumption, Check!Lines
<1>2. S \in SUBSET Nat /\ S # {}
  BY <1>1
<1>3. PICK n \in S : \A m \in S : n <= m
  BY <1>2, LeastOf
<1>4. Check!RequestOf(i) \in S
  BY <1>3 DEF Check!RequestOf, Check!Min
<1> QED BY <1>1, <1>4

LEMMA SameRequest ==
  ASSUME NEW i \in Check!Lines, NEW j \in Check!Lines, cart[i].id = cart[j].id
  PROVE  Check!RequestOf(i) = Check!RequestOf(j)
BY DEF Check!RequestOf

\* What the first lines are.
LEMMA FirstTaken ==
  ASSUME Check!CartAssumption, cart \in CheckCarts
  PROVE  /\ Check!Cardinality(Check!FirstLines(cart)) \in 0..Len(cart)
         /\ \A i \in Check!Lines : i < Check!Cardinality(Check!FirstLines(cart)) + 1 => i \in Check!Workers
<1>1. Check!Lines = 1..Len(cart) /\ Len(cart) \in Nat \ {0} /\ Concurrency \in Nat \ {0}
  BY DEF Check!CartAssumption, Check!Lines
<1>2. PICK n \in Nat : n <= Len(cart) /\ n <= Concurrency /\ (n = Len(cart) \/ n = Concurrency)
  <2>1. CASE Len(cart) <= Concurrency
    BY <1>1, <2>1
  <2>2. CASE ~(Len(cart) <= Concurrency)
    BY <1>1, <2>2
  <2> QED BY <2>1, <2>2
<1>3. Check!FirstLines(cart) = 1..n
  <2>1. Check!FirstLines(cart) = {i \in 1..Len(cart) : i <= Concurrency}
    BY <1>1 DEF Check!FirstLines, Check!Lines
  <2>2. \A i \in Int : i \in 1..Len(cart) /\ i <= Concurrency <=> i \in 1..n
    BY <1>1, <1>2
  <2>3. 1..Len(cart) \in SUBSET Int /\ 1..n \in SUBSET Int
    BY <1>1
  <2> QED BY <2>1, <2>2, <2>3
<1>4. Check!Cardinality(1..n) = n
  <2>1. Cardinality(1..n) = n
    BY FS_Interval
  <2>2. Check!Cardinality(1..n) = Cardinality(1..n)
    BY DEF Check!Cardinality, Cardinality
  <2> QED BY <2>1, <2>2
<1> QED BY <1>1, <1>2, <1>3, <1>4 DEF Check!Workers

LEMMA InitCheckInv ==
  ASSUME Check!CartAssumption, Check!Init
  PROVE  CheckInv
<1>1. /\ is = [p \in Products |-> FirstVersion] /\ was = [p \in Products |-> {FirstVersion}]
      /\ cart \in CheckCarts /\ answer = [i \in Check!Lines |-> NoReply]
      /\ results = [i \in Check!Lines |-> NoReply]
  BY DEF Check!Init
<1>2. ProductsTyped
  BY <1>1 DEF ProductsTyped, Check!CartAssumption
<1>3. AnswersWere
  BY <1>1 DEF AnswersWere
<1>4. /\ Check!Lines = 1..Len(cart) /\ Len(cart) \in Nat \ {0}
      /\ Check!Cardinality(Check!FirstLines(cart)) \in 0..Len(cart)
      /\ \A i \in Check!Lines : i < Check!Cardinality(Check!FirstLines(cart)) + 1 => i \in Check!Workers
  BY <1>1, FirstTaken DEF Check!CartAssumption, Check!Lines
<1>5. CASE outcome = "checking"
  <2>1. /\ working = [w \in Check!Workers |-> IF w \in Check!Lines THEN w ELSE 0]
        /\ asked = {Check!RequestOf(i) : i \in Check!FirstLines(cart)}
        /\ nextIndex = Check!Cardinality(Check!FirstLines(cart)) + 1
    BY <1>5 DEF Check!Init
  <2>2. asked \in SUBSET Check!Lines
    BY <1>1, <2>1, RequestType DEF Check!FirstLines, Check!Lines
  <2>3. nextIndex \in 1..(Len(cart) + 1)
    BY <1>4, <2>1
  <2>4. CheckTyped
    BY <1>1, <1>5, <2>1, <2>2, <2>3 DEF CheckTyped, Answers
  <2>5. LinesAccounted
    BY <1>4, <2>1 DEF LinesAccounted
  <2> QED BY <1>2, <1>3, <1>5, <2>4, <2>5 DEF CheckInv, AllDone, Check!RefusedForCause
<1>6. CASE outcome = "unsupported"
  <2>1. working = [w \in Check!Workers |-> 0] /\ asked = {} /\ nextIndex = 1
    BY <1>6 DEF Check!Init
  <2>2. nextIndex \in 1..(Len(cart) + 1)
    BY <1>4, <2>1
  <2>3. CheckTyped
    BY <1>1, <1>6, <2>1, <2>2 DEF CheckTyped, Answers, Causes
  <2> QED BY <1>2, <1>3, <1>6, <2>3 DEF CheckInv, LinesAccounted, AllDone, Check!RefusedForCause
<1> QED BY <1>5, <1>6 DEF Check!Init

\* The catalogue is edited, and what its products were it remembers.
LEMMA EditKeepsCheck ==
  ASSUME Check!CartAssumption, CheckInv, NEW p \in Products, Check!Edit(p)
  PROVE  CheckInv'
<1>1. UNCHANGED <<cart, asked, answer, nextIndex, working, results, outcome>>
  BY DEF Check!Edit
<1>2. PICK v \in Versions \union {Gone} :
        is' = [is EXCEPT ![p] = v] /\ was' = [was EXCEPT ![p] = @ \union {v}]
  BY DEF Check!Edit
<1>3. ProductsTyped' /\ \A q \in Products : was[q] \in SUBSET was'[q]
  BY <1>2 DEF CheckInv, ProductsTyped
<1>4. CheckTyped'
  BY <1>1 DEF CheckInv, CheckTyped, Check!Lines, Check!Workers, Answers, Causes
<1>5. \A i \in Check!Lines : cart[i].id \in Products
  BY DEF CheckInv, CheckTyped, Check!CartAssumption, Check!Lines
<1>6. AnswersWere'
  BY <1>1, <1>3, <1>5 DEF CheckInv, AnswersWere, Check!Lines
<1>7. LinesAccounted' /\ AllDone'
  BY <1>1 DEF CheckInv, LinesAccounted, AllDone, Checked, Check!Lines, Check!Workers, Check!Accepts,
              Check!RequestOf, Check!Min
<1>8. Check!RefusedForCause'
  BY <1>1, <1>3, <1>5 DEF CheckInv, Check!RefusedForCause, Check!Lines
<1> QED BY <1>3, <1>4, <1>6, <1>7, <1>8 DEF CheckInv

\* An answer arrives, of what the product is.
LEMMA AnswerKeepsCheck ==
  ASSUME Check!CartAssumption, CheckInv, NEW i \in Check!Lines, Check!Answer(i)
  PROVE  CheckInv'
<1>1. UNCHANGED <<was, is, edits, cart, asked, nextIndex, working, results, outcome>>
  BY DEF Check!Answer, Check!catalogue
<1>2. PICK a \in {is[cart[i].id], Failure} : answer' = [answer EXCEPT ![i] = a]
  BY DEF Check!Answer, Check!fetchCatalogProduct
<1>3. answer[i] = NoReply /\ answer \in [Check!Lines -> Answers] /\ cart[i].id \in Products
  BY DEF Check!Answer, CheckInv, CheckTyped, Check!CartAssumption, Check!Lines
<1>4. a \in was[cart[i].id] \union {Failure} /\ a \in Answers
  BY <1>2, <1>3 DEF CheckInv, ProductsTyped, Answers
<1>5. ProductsTyped'
  BY <1>1 DEF CheckInv, ProductsTyped
<1>6. CheckTyped'
  <2>1. answer' \in [Check!Lines -> Answers]
    BY <1>2, <1>3, <1>4
  <2> QED BY <1>1, <2>1 DEF CheckInv, CheckTyped, Check!Lines, Check!Workers, Answers, Causes
<1>7. AnswersWere'
  BY <1>1, <1>2, <1>3, <1>4 DEF CheckInv, AnswersWere, Check!Lines
<1>8. LinesAccounted'
  <2>1. ASSUME NEW j \in Check!Lines, Checked(j)
        PROVE  Checked(j)'
    <3>1. Check!RequestOf(j) \in Check!Lines
      BY RequestType DEF CheckInv, CheckTyped
    <3>2. answer[Check!RequestOf(j)] # NoReply
      BY <2>1 DEF Checked, Check!Accepts, Check!CartAssumption
    <3>3. answer'[Check!RequestOf(j)] = answer[Check!RequestOf(j)]
      BY <1>2, <1>3, <3>1, <3>2
    <3>4. Check!RequestOf(j)' = Check!RequestOf(j)
      BY <1>1 DEF Check!RequestOf, Check!Min, Check!Lines
    <3>5. answer'[Check!RequestOf(j)'] = answer[Check!RequestOf(j)]
      BY <3>3, <3>4
    <3> QED BY <1>1, <2>1, <3>5 DEF Checked, Check!Accepts
  <2> QED BY <1>1, <2>1 DEF CheckInv, LinesAccounted, Check!Lines, Check!Workers
<1>9. AllDone' /\ Check!RefusedForCause'
  BY <1>1 DEF CheckInv, AllDone, Check!RefusedForCause, Check!Lines, Check!Workers
<1> QED BY <1>5, <1>6, <1>7, <1>8, <1>9 DEF CheckInv

\* What a worker was told.
LEMMA ToldType ==
  ASSUME Check!CartAssumption, CheckInv, NEW w \in Check!Workers, working[w] # 0, Check!Told(w) # NoReply
  PROVE  /\ working[w] \in Check!Lines /\ cart[working[w]].id \in Products
         /\ Check!Told(w) \in was[cart[working[w]].id] \union {Failure}
         /\ Check!Told(w) \in Versions \union {Gone, Failure}
<1>1. working[w] \in Check!Lines /\ cart \in CheckCarts
  BY DEF CheckInv, CheckTyped
<1>2. /\ Check!RequestOf(working[w]) \in Check!Lines /\ cart[working[w]].id \in Products
      /\ cart[Check!RequestOf(working[w])].id = cart[working[w]].id
  BY <1>1, RequestType
<1>3. Check!Told(w) \in was[cart[working[w]].id] \union {Failure, NoReply}
  BY <1>2 DEF CheckInv, AnswersWere, Check!Told
<1>4. was[cart[working[w]].id] \in SUBSET (Versions \union {Gone})
  BY <1>2 DEF CheckInv, ProductsTyped
<1> QED BY <1>1, <1>2, <1>3, <1>4

\* A line is accepted, and its worker takes the next.
LEMMA AcceptKeepsCheck ==
  ASSUME Check!CartAssumption, CheckInv, NEW w \in Check!Workers, Check!Accept(w)
  PROVE  CheckInv'
<1>1. UNCHANGED <<was, is, edits, cart, answer>> /\ cart \in CheckCarts
  BY DEF Check!Accept, Check!catalogue, CheckInv, CheckTyped
<1>2. PICK i \in Check!Lines : i = working[w]
  BY ToldType DEF Check!Accept
<1>3. /\ results' = [results EXCEPT ![i] = answer[Check!RequestOf(i)]]
      /\ Check!Accepts(answer[Check!RequestOf(i)], cart[i]) /\ i # 0
      /\ answer[Check!RequestOf(i)] \in Versions
  BY <1>2 DEF Check!Accept, Check!Told, Check!Accepts
<1>4. /\ Check!Lines = 1..Len(cart) /\ Len(cart) \in Nat \ {0} /\ nextIndex \in 1..(Len(cart) + 1)
      /\ working \in [Check!Workers -> Check!Lines \union {0}]
      /\ asked \in SUBSET Check!Lines /\ outcome \in {"checking", "resolved"} \union Causes
  BY <1>1 DEF CheckInv, CheckTyped, Check!CartAssumption, Check!Lines
<1>5. \/ /\ nextIndex \in Check!Lines /\ working' = [working EXCEPT ![w] = nextIndex]
         /\ asked' = asked \union {Check!RequestOf(nextIndex)} /\ nextIndex' = nextIndex + 1
         /\ outcome' = outcome
      \/ /\ nextIndex \notin Check!Lines /\ working' = [working EXCEPT ![w] = 0]
         /\ outcome' = IF outcome = "checking" /\ \A v \in Check!Workers \ {w} : working[v] = 0
                         THEN "resolved" ELSE outcome
         /\ UNCHANGED <<asked, nextIndex>>
  BY DEF Check!Accept, Check!TakeNext
<1>6. outcome # "resolved"
  BY <1>2, <1>3 DEF CheckInv, AllDone
<1>7. ProductsTyped' /\ AnswersWere'
  BY <1>1 DEF CheckInv, ProductsTyped, AnswersWere, Check!Lines
<1>8. CheckTyped'
  <2>1. results' \in [Check!Lines -> Versions \union {NoReply}]
    BY <1>3 DEF CheckInv, CheckTyped
  <2>2. /\ working' \in [Check!Workers -> Check!Lines \union {0}] /\ nextIndex' \in 1..(Len(cart) + 1)
        /\ outcome' \in {"checking", "resolved"} \union Causes
    BY <1>4, <1>5
  <2>3. asked' \in SUBSET Check!Lines
    <3>1. nextIndex \in Check!Lines => Check!RequestOf(nextIndex) \in Check!Lines
      BY <1>1, RequestType
    <3> QED BY <1>4, <1>5, <3>1
  <2>4. answer' \in [Check!Lines -> Answers] /\ cart' \in CheckCarts
    BY <1>1 DEF CheckInv, CheckTyped
  <2> QED BY <1>1, <2>1, <2>2, <2>3, <2>4 DEF CheckTyped, Check!Lines, Check!Workers, Answers, Causes
<1>9. \A j \in Check!Lines : Check!RequestOf(j)' = Check!RequestOf(j)
  BY <1>1 DEF Check!RequestOf, Check!Min, Check!Lines
<1>10. \A j \in Check!Lines : (Checked(j) \/ j = i) => Checked(j)'
  <2> SUFFICES ASSUME NEW j \in Check!Lines, Checked(j) \/ j = i
               PROVE  Checked(j)'
    OBVIOUS
  <2>1. results'[j] = answer[Check!RequestOf(j)] /\ Check!Accepts(results'[j], cart[j])
    BY <1>3 DEF Checked, CheckInv, CheckTyped
  <2>2. answer'[Check!RequestOf(j)'] = answer[Check!RequestOf(j)]
    BY <1>1, <1>9
  <2> QED BY <1>1, <2>1, <2>2 DEF Checked, Check!Accepts
<1>11. LinesAccounted'
  <2> SUFFICES ASSUME outcome' \in {"checking", "resolved"}, NEW j \in Check!Lines, j < nextIndex'
               PROVE  Checked(j)' \/ \E v \in Check!Workers : working'[v] = j
    BY <1>1 DEF LinesAccounted, Check!Lines, Check!Workers
  <2>0. outcome = "checking"
    BY <1>4, <1>5, <1>6 DEF Causes
  <2>1. CASE j < nextIndex
    <3>1. Checked(j) \/ \E v \in Check!Workers : working[v] = j
      BY <2>0, <2>1 DEF CheckInv, LinesAccounted
    <3>2. CASE Checked(j) \/ j = i
      BY <1>10, <3>2
    <3>3. CASE ~Checked(j) /\ j # i
      <4>1. PICK v \in Check!Workers : working[v] = j
        BY <3>1, <3>3
      <4>2. v # w
        BY <1>2, <3>3, <4>1
      <4>3. working'[v] = j
        BY <1>4, <1>5, <4>1, <4>2
      <4> QED BY <4>3
    <3> QED BY <3>2, <3>3
  <2>2. CASE ~(j < nextIndex)
    <3>1. nextIndex \in Check!Lines /\ working' = [working EXCEPT ![w] = nextIndex] /\ nextIndex' = nextIndex + 1
      BY <1>5, <2>2
    <3>2. j = nextIndex
      BY <1>4, <2>2, <3>1
    <3>3. working'[w] = j
      BY <1>4, <3>1, <3>2
    <3> QED BY <3>3
  <2> QED BY <2>1, <2>2
<1>12. AllDone'
  <2> SUFFICES ASSUME outcome' = "resolved"
               PROVE  nextIndex' = Len(cart) + 1 /\ \A v \in Check!Workers : working'[v] = 0
    BY <1>1 DEF AllDone, Check!Workers
  <2>1. /\ nextIndex \notin Check!Lines /\ working' = [working EXCEPT ![w] = 0] /\ nextIndex' = nextIndex
        /\ \A v \in Check!Workers \ {w} : working[v] = 0
    BY <1>5, <1>6
  <2>2. nextIndex = Len(cart) + 1
    BY <1>4, <2>1
  <2> QED BY <1>4, <2>1, <2>2
<1>13. Check!RefusedForCause'
  <2>1. outcome' \in {outcome, "resolved"}
    BY <1>5
  <2> QED BY <1>1, <2>1 DEF CheckInv, Check!RefusedForCause, Check!Lines
<1> QED BY <1>7, <1>8, <1>11, <1>12, <1>13 DEF CheckInv

\* A line is refused, for what its product was.
LEMMA RefuseKeepsCheck ==
  ASSUME Check!CartAssumption, CheckInv, NEW w \in Check!Workers, Check!Refuse(w)
  PROVE  CheckInv'
<1>1. /\ UNCHANGED <<was, is, edits, cart, asked, answer, nextIndex, results>>
      /\ working' = [working EXCEPT ![w] = 0]
      /\ outcome' = IF outcome = "checking" THEN Check!Cause(Check!Told(w)) ELSE outcome
      /\ working[w] # 0 /\ Check!Told(w) # NoReply /\ ~Check!Accepts(Check!Told(w), cart[working[w]])
  BY DEF Check!Refuse, Check!catalogue
<1>2. Check!Cause(Check!Told(w)) \in Causes
  BY DEF Check!Cause, Causes
<1>3. outcome # "resolved"
  BY <1>1 DEF CheckInv, AllDone
<1>4. outcome' \in Causes
  BY <1>1, <1>2, <1>3 DEF CheckInv, CheckTyped
<1>5. ProductsTyped' /\ AnswersWere'
  BY <1>1 DEF CheckInv, ProductsTyped, AnswersWere, Check!Lines
<1>6. CheckTyped'
  <2>1. working' \in [Check!Workers -> Check!Lines \union {0}]
    BY <1>1 DEF CheckInv, CheckTyped
  <2> QED BY <1>1, <1>4, <2>1 DEF CheckInv, CheckTyped, Check!Lines, Check!Workers, Answers, Causes
<1>7. LinesAccounted' /\ AllDone'
  BY <1>4 DEF LinesAccounted, AllDone, Causes
<1>8. Check!RefusedForCause'
  <2>1. CASE outcome # "checking"
    BY <1>1, <2>1 DEF CheckInv, Check!RefusedForCause, Check!Lines
  <2>2. CASE outcome = "checking"
    <3> DEFINE told == Check!Told(w)
               i == working[w]
    <3>1. /\ i \in Check!Lines /\ told \in was[cart[i].id] \union {Failure}
          /\ told \in Versions \union {Gone, Failure} /\ outcome' = Check!Cause(told)
      BY <1>1, <2>2, ToldType
    <3>2. CASE told = Failure
      <4>1. outcome' = "unverified"
        BY <3>1, <3>2 DEF Check!Cause, Check!CartAssumption
      <4> QED BY <4>1 DEF Check!RefusedForCause
    <3>3. CASE told = Gone /\ told # Failure
      <4>1. outcome' = "gone" /\ Gone \in was[cart[i].id]
        BY <3>1, <3>3 DEF Check!Cause
      <4> QED BY <1>1, <3>1, <4>1 DEF Check!RefusedForCause, Check!Lines
    <3>4. CASE told # Gone /\ told # Failure
      <4>1. outcome' = "variant" /\ told \in was[cart[i].id] \ {Gone}
        BY <3>1, <3>4 DEF Check!Cause
      <4>2. cart[i].variant \notin Offers[told]
        BY <1>1, <3>1, <3>4 DEF Check!Accepts
      <4> HIDE DEF told, i
      <4> QED BY <1>1, <3>1, <4>1, <4>2 DEF Check!RefusedForCause, Check!Lines
    <3> QED BY <3>2, <3>3, <3>4
  <2> QED BY <2>1, <2>2
<1> QED BY <1>5, <1>6, <1>7, <1>8 DEF CheckInv

LEMMA NextCheckInv ==
  ASSUME Check!CartAssumption, CheckInv, [Check!Next]_(Check!vars)
  PROVE  CheckInv'
<1>1. CASE UNCHANGED Check!vars
  <2>1. UNCHANGED <<was, is, cart, asked, answer, nextIndex, working, results, outcome>>
    BY <1>1 DEF Check!vars, Check!catalogue
  <2>2. ProductsTyped' /\ AnswersWere'
    BY <2>1 DEF CheckInv, ProductsTyped, AnswersWere, Check!Lines
  <2>3. CheckTyped'
    BY <2>1 DEF CheckInv, CheckTyped, Check!Lines, Check!Workers, Answers, Causes
  <2>4. LinesAccounted' /\ AllDone'
    BY <2>1 DEF CheckInv, LinesAccounted, AllDone, Checked, Check!Lines, Check!Workers, Check!Accepts,
                Check!RequestOf, Check!Min
  <2>5. Check!RefusedForCause'
    BY <2>1 DEF CheckInv, Check!RefusedForCause, Check!Lines
  <2> QED BY <2>2, <2>3, <2>4, <2>5 DEF CheckInv
<1> QED BY <1>1, EditKeepsCheck, AnswerKeepsCheck, AcceptKeepsCheck, RefuseKeepsCheck DEF Check!Next

LEMMA CheckTypes ==
  ASSUME Check!CartAssumption, CheckInv
  PROVE  Check!TypeOK
<1>1. Check!Lines = 1..Len(cart) /\ Len(cart) \in Nat
  BY DEF CheckInv, CheckTyped, Check!CartAssumption, Check!Lines
<1>2. Check!Cardinality(Check!Lines) = Len(cart)
  <2>1. Cardinality(1..Len(cart)) = Len(cart)
    BY <1>1, FS_Interval
  <2>2. Check!Cardinality(1..Len(cart)) = Cardinality(1..Len(cart))
    BY DEF Check!Cardinality, Cardinality
  <2> QED BY <1>1, <2>1, <2>2
<1> QED BY <1>2 DEF CheckInv, ProductsTyped, CheckTyped, Check!TypeOK, Answers, Causes

LEMMA ResolvedAsChecked ==
  ASSUME Check!CartAssumption, CheckInv
  PROVE  Check!ResolvedIsWhole /\ Check!OneVersionPerProduct /\ Check!RefusedForCause
<1>1. ASSUME outcome = "resolved", NEW i \in Check!Lines
      PROVE  Checked(i)
  <2>1. /\ Check!Lines = 1..Len(cart) /\ Len(cart) \in Nat
    BY DEF CheckInv, CheckTyped, Check!CartAssumption, Check!Lines
  <2>2. nextIndex = Len(cart) + 1 /\ \A w \in Check!Workers : working[w] = 0
    BY <1>1 DEF CheckInv, AllDone
  <2>3. i < nextIndex /\ i # 0
    BY <2>1, <2>2
  <2> QED BY <1>1, <2>2, <2>3 DEF CheckInv, LinesAccounted
<1>2. ASSUME outcome = "resolved", NEW i \in Check!Lines
      PROVE  results[i] \in was[cart[i].id] \cap Versions /\ cart[i].variant \in Offers[results[i]]
  <2>1. Check!RequestOf(i) \in Check!Lines /\ cart[Check!RequestOf(i)].id = cart[i].id
    BY RequestType DEF CheckInv, CheckTyped
  <2>2. answer[Check!RequestOf(i)] \in was[cart[i].id] \union {Failure, NoReply}
    BY <2>1 DEF CheckInv, AnswersWere
  <2> QED BY <1>1, <1>2, <2>2 DEF Checked, Check!Accepts, Check!CartAssumption
<1>3. Check!ResolvedIsWhole
  BY <1>2 DEF Check!ResolvedIsWhole
<1>4. Check!OneVersionPerProduct
  BY <1>1, SameRequest DEF Check!OneVersionPerProduct, Checked
<1> QED BY <1>3, <1>4 DEF CheckInv

-----------------------------------------------------------------------------
(* OrderHistory *)

Place(s, o) == Cardinality({p \in History!Of(s) : p >= o})
HowMany(s) == Cardinality(History!Of(s))

\* The pages that were turned hold every order there was when the first was
\* shown, but for those whose place is still to come; a page that is shown, and
\* one that is offered, begins before the history ends.
HistoryTyped ==
  /\ orders \in SUBSET History!Order
  /\ page \in [Shopper -> Nat] /\ hasNext \in [Shopper -> BOOLEAN]
  /\ shown \in [Shopper -> SUBSET orders] /\ seen \in [Shopper -> SUBSET orders]
  /\ before \in [Shopper -> SUBSET orders]
Turned(s) ==
  /\ shown[s] \in SUBSET seen[s] /\ Cardinality(shown[s]) <= HistoryLimit
  /\ before[s] \in SUBSET History!Of(s)
  /\ page[s] > 0 => \A o \in before[s] : o \in seen[s] \/ Place(s, o) > page[s] * HistoryLimit
  /\ page[s] > 1 => HowMany(s) > (page[s] - 1) * HistoryLimit /\ shown[s] # {}
  /\ hasNext[s] => page[s] > 0 /\ HowMany(s) > page[s] * HistoryLimit
  /\ page[s] > 0 /\ ~hasNext[s] => before[s] \in SUBSET seen[s]
HistoryInv == HistoryTyped /\ \A s \in Shopper : Turned(s)

LEMMA HistoryCounts == \A S : History!Cardinality(S) = Cardinality(S)
BY DEF History!Cardinality, Cardinality

LEMMA HistoryRanks ==
  ASSUME History!OrderHistoryAssumption, orders \in SUBSET History!Order, NEW s \in Shopper,
         NEW M, M = History!Of(s)
  PROVE  /\ Ordered(M, Downward(M)) /\ M \in SUBSET Int /\ IsFiniteSet(M)
         /\ HowMany(s) = Cardinality(M) /\ HowMany(s) \in Nat /\ HowMany(s) <= MaxOrder
         /\ \A o \in M : Rank(M, Downward(M), o) = Place(s, o)
         /\ \A o \in M : Place(s, o) \in Nat /\ Place(s, o) <= HowMany(s)
<1>1. M \in SUBSET (1..MaxOrder) /\ MaxOrder \in Nat
  BY DEF History!OrderHistoryAssumption, History!Of, History!Order
<1>2. IsFiniteSet(1..MaxOrder) /\ Cardinality(1..MaxOrder) = MaxOrder
  BY <1>1, FS_Interval
<1>3. IsFiniteSet(M) /\ Cardinality(M) <= MaxOrder /\ Cardinality(M) \in Nat
  BY <1>1, <1>2, FS_Subset, FS_CardinalityType
<1>4. M \in SUBSET Int
  BY <1>1
<1>5. Ordered(M, Downward(M)) /\ \A o \in M : UpTo(M, Downward(M), o) = {p \in M : p >= o}
  BY <1>3, <1>4, NumbersOrdered
<1>6. \A o \in M : Rank(M, Downward(M), o) = Place(s, o)
  BY <1>5 DEF Rank, Place
<1>7. ASSUME NEW o \in M PROVE Rank(M, Downward(M), o) \in 1..Cardinality(M)
  BY <1>5, RankIsPlace
<1> QED BY <1>3, <1>4, <1>5, <1>6, <1>7 DEF HowMany

\* What the query finds, and what of it is the page.
LEMMA FoundPlaces ==
  ASSUME History!OrderHistoryAssumption, orders \in SUBSET History!Order, NEW s \in Shopper,
         NEW n \in Nat \ {0}
  PROVE  /\ History!FirstOf(History!Found(s, n)) =
              {o \in History!Of(s) : (n - 1) * HistoryLimit < Place(s, o) /\ Place(s, o) <= n * HistoryLimit}
         /\ Cardinality(History!FirstOf(History!Found(s, n))) <= HistoryLimit
         /\ History!HasNextPage(History!Found(s, n)) <=> HowMany(s) > n * HistoryLimit
         /\ HowMany(s) > (n - 1) * HistoryLimit => History!FirstOf(History!Found(s, n)) # {}
<1> DEFINE M == History!Of(s)
           R == Downward(M)
           L == HistoryLimit
           low == (n - 1) * L
           high == n * L
           found0 == {o \in M : low < Place(s, o) /\ Place(s, o) <= high + 1}
           first0 == {o \in M : low < Place(s, o) /\ Place(s, o) <= high}
<1>0. L \in Nat \ {0}
  BY DEF History!OrderHistoryAssumption
<1>1. low \in Nat /\ high \in Nat /\ high = low + L
  BY <1>0, PagesAdjoin
<1>2. /\ Ordered(M, R) /\ M \in SUBSET Int /\ HowMany(s) = Cardinality(M) /\ HowMany(s) \in Nat
      /\ \A o \in M : Rank(M, R, o) = Place(s, o) /\ Place(s, o) \in Nat /\ Rank(M, R, o) \in Nat
  BY HistoryRanks
<1>3. History!Found(s, n) = found0
  BY HistoryCounts DEF History!Found, Place
<1> HIDE DEF M, R, L, low, high
<1>4. /\ found0 = {o \in M : low < Rank(M, R, o) /\ Rank(M, R, o) <= high + 1}
      /\ first0 = {o \in M : low < Rank(M, R, o) /\ Rank(M, R, o) <= high}
  BY <1>2
<1>5. ASSUME NEW o \in found0
      PROVE  Cardinality({p \in found0 : p >= o}) = Place(s, o) - low
  <2>1. /\ o \in M /\ low < Rank(M, R, o) /\ Rank(M, R, o) <= high + 1
        /\ Rank(M, R, o) \in Nat /\ Rank(M, R, o) = Place(s, o)
    BY <1>2, <1>4
  <2>2. Rank(M, R, o) <= Cardinality(M)
    <3>1. Rank(M, R, o) \in 1..Cardinality(M)
      BY <1>2, <2>1, RankIsPlace
    <3> QED BY <1>2, <3>1
  <2>3. \A p \in M : p >= o <=> Rank(M, R, p) <= Rank(M, R, o)
    <3>1. ASSUME NEW p \in M
          PROVE  Rank(M, R, p) <= Rank(M, R, o) <=> o = p \/ <<p, o>> \in R
      BY <1>2, <2>1, RankOrders
    <3>2. \A p \in M : p > o <=> <<p, o>> \in R
      BY <2>1 DEF R, Downward
    <3>3. M \in SUBSET Int /\ o \in Int
      BY <1>2, <2>1
    <3>4. \A p \in M : p >= o <=> o = p \/ p > o
      BY ONLY <3>3
    <3> QED BY ONLY <3>1, <3>2, <3>4
  <2>4. {p \in found0 : p >= o} = {p \in M : low < Rank(M, R, p) /\ Rank(M, R, p) <= Rank(M, R, o)}
    <3>1. \A p \in M : Rank(M, R, p) \in Nat
      BY <1>2
    <3>2. \A p \in M : p \in found0 <=> low < Rank(M, R, p) /\ Rank(M, R, p) <= high + 1
      BY <1>4
    <3>3. found0 \in SUBSET M
      BY <1>4
    <3>4. \A p \in M : (p \in found0 /\ p >= o) <=> (low < Rank(M, R, p) /\ Rank(M, R, p) <= Rank(M, R, o))
      BY ONLY <1>1, <2>1, <2>3, <3>1, <3>2
    <3> QED BY ONLY <3>3, <3>4
  <2>5. Cardinality({p \in M : low < Rank(M, R, p) /\ Rank(M, R, p) <= Rank(M, R, o)}) = Rank(M, R, o) - low
    <3>1. low <= Rank(M, R, o)
      BY <1>1, <2>1
    <3>2. PICK e \in Nat : e = Rank(M, R, o)
      BY <2>1
    <3>3. low <= e /\ e <= Cardinality(M) /\ Ordered(M, R) /\ low \in Nat
      BY <1>1, <1>2, <2>2, <3>1, <3>2
    <3> DEFINE S == {p \in M : low < Rank(M, R, p) /\ Rank(M, R, p) <= e}
    <3>4. S = {p \in M : low < Rank(M, R, p) /\ Rank(M, R, p) <= e}
      OBVIOUS
    <3> HIDE DEF S
    <3>5. Cardinality(S) = e - low
      BY ONLY <3>2, <3>3, <3>4, PlacesOfPage
    <3> QED BY <3>2, <3>4, <3>5
  <2> QED BY <2>1, <2>4, <2>5
<1>6. History!FirstOf(found0) = first0
  <2>1. History!FirstOf(found0) = {o \in found0 : Cardinality({p \in found0 : p >= o}) <= L}
    BY HistoryCounts DEF History!FirstOf, L
  <2>2. \A o \in found0 : Cardinality({p \in found0 : p >= o}) <= L <=> Place(s, o) <= high
    <3>1. \A o \in found0 : o \in M
      BY <1>4
    <3>2. \A o \in found0 : Place(s, o) \in Nat
      BY <1>2, <3>1
    <3>3. L \in Nat
      BY <1>0 DEF L
    <3> QED BY ONLY <1>1, <1>5, <3>2, <3>3
  <2>3. \A o \in M : o \in found0 <=> low < Place(s, o) /\ Place(s, o) <= high + 1
    OBVIOUS
  <2>4. \A o \in M : o \in first0 <=> low < Place(s, o) /\ Place(s, o) <= high
    OBVIOUS
  <2>5. \A o \in M : o \in first0 <=> o \in found0 /\ Place(s, o) <= high
    BY <1>1, <1>2, <2>3, <2>4
  <2>6. found0 \in SUBSET M /\ first0 \in SUBSET M
    OBVIOUS
  <2>7. first0 = {o \in found0 : Cardinality({p \in found0 : p >= o}) <= L}
    BY ONLY <2>2, <2>5, <2>6
  <2> QED BY <2>1, <2>7
<1> HIDE DEF found0, first0
<1>7. /\ Cardinality(first0) \in Nat /\ Cardinality(first0) <= high - low
      /\ low < high /\ low < Cardinality(M) => first0 # {}
  <2>1. low <= high
    BY <1>0, <1>1 DEF L
  <2> QED BY ONLY <1>1, <1>2, <1>4, <2>1, PlacesOfPage
<1>8. Cardinality(found0) > L <=> Cardinality(M) > high
  <2>1. high + 1 \in Nat /\ low <= high + 1
    BY <1>0, <1>1 DEF L
  <2>2. /\ Cardinality(M) <= low => Cardinality(found0) = 0
        /\ low <= Cardinality(M) /\ Cardinality(M) <= high + 1 => Cardinality(found0) = Cardinality(M) - low
        /\ high + 1 <= Cardinality(M) => Cardinality(found0) = high + 1 - low
    BY <1>1, <1>2, <1>4, <2>1, PlacesOfPage
  <2> QED BY <1>0, <1>1, <1>2, <2>2 DEF L
<1>9. Cardinality(first0) <= L
  BY <1>0, <1>1, <1>7 DEF L
<1>10. HowMany(s) > low => first0 # {}
  BY <1>0, <1>1, <1>2, <1>7 DEF L
<1>11. History!HasNextPage(found0) <=> HowMany(s) > high
  BY <1>2, <1>8, HistoryCounts DEF History!HasNextPage, L
<1>12. /\ History!FirstOf(History!Found(s, n)) = first0
       /\ Cardinality(History!FirstOf(History!Found(s, n))) <= L
       /\ History!HasNextPage(History!Found(s, n)) <=> HowMany(s) > high
       /\ HowMany(s) > low => History!FirstOf(History!Found(s, n)) # {}
  BY <1>3, <1>6, <1>9, <1>10, <1>11
<1> QED BY <1>12 DEF first0, M, L, low, high

LEMMA InitHistoryInv ==
  ASSUME History!OrderHistoryAssumption, History!Init
  PROVE  HistoryInv
<1> USE DEF History!Init
<1>1. HistoryTyped
  BY DEF HistoryTyped
<1>2. ASSUME NEW s \in Shopper PROVE Turned(s)
  <2>1. shown[s] = {} /\ seen[s] = {} /\ before[s] = {} /\ page[s] = 0 /\ hasNext[s] = FALSE
    OBVIOUS
  <2>2. Cardinality({}) = 0
    BY FS_EmptySet
  <2>3. Cardinality(shown[s]) <= HistoryLimit
    BY <2>1, <2>2 DEF History!OrderHistoryAssumption
  <2> QED BY <2>1, <2>3 DEF Turned
<1> QED BY <1>1, <1>2 DEF HistoryInv

\* A page is turned to that is not past the end of the history.
LEMMA ShowKeeps ==
  ASSUME History!OrderHistoryAssumption, HistoryInv, NEW s \in Shopper, NEW n \in Nat \ {0},
         History!Show(s, n),
         n > 1 => HowMany(s) > (n - 1) * HistoryLimit /\ page[s] > 0 /\ page[s] >= n - 1
  PROVE  HistoryInv'
<1> DEFINE first == History!FirstOf(History!Found(s, n))
           more == History!HasNextPage(History!Found(s, n))
<1>0. HistoryTyped /\ orders \in SUBSET History!Order /\ HistoryLimit \in Nat \ {0}
  BY DEF HistoryInv, HistoryTyped, History!OrderHistoryAssumption
<1>1. /\ orders' = orders /\ page' = [page EXCEPT ![s] = n] /\ shown' = [shown EXCEPT ![s] = first]
      /\ hasNext' = [hasNext EXCEPT ![s] = more]
      /\ seen' = [seen EXCEPT ![s] = first \union IF n = 1 THEN {} ELSE seen[s]]
      /\ before' = IF n = 1 THEN [before EXCEPT ![s] = History!Of(s)] ELSE before
  BY <1>0 DEF History!Show, HistoryTyped
<1>2. /\ first = {o \in History!Of(s) : (n - 1) * HistoryLimit < Place(s, o) /\ Place(s, o) <= n * HistoryLimit}
      /\ Cardinality(first) <= HistoryLimit
      /\ more <=> HowMany(s) > n * HistoryLimit
      /\ HowMany(s) > (n - 1) * HistoryLimit => first # {}
  BY <1>0, FoundPlaces
<1>3. /\ HowMany(s) \in Nat
      /\ \A o \in History!Of(s) : Place(s, o) \in Nat /\ Place(s, o) <= HowMany(s) /\ Place(s, o) # 0
  <2>1. /\ HowMany(s) \in Nat
        /\ \A o \in History!Of(s) : Place(s, o) \in Nat /\ Place(s, o) <= HowMany(s)
    BY <1>0, HistoryRanks
  <2>2. ASSUME NEW o \in History!Of(s) PROVE Place(s, o) # 0
    <3>1. o \in {p \in History!Of(s) : p >= o}
      BY <1>0 DEF History!Of, History!Order
    <3>2. IsFiniteSet({p \in History!Of(s) : p >= o})
      BY <1>0, HistoryRanks, FS_Subset
    <3> QED BY <3>1, <3>2, FS_EmptySet DEF Place
  <2> QED BY <2>1, <2>2
<1>4. more \in BOOLEAN /\ first \in SUBSET orders
  BY <1>2 DEF History!HasNextPage, History!Of
<1> HIDE DEF first, more
<1>5. HistoryTyped'
  <2>1. page' \in [Shopper -> Nat] /\ hasNext' \in [Shopper -> BOOLEAN] /\ orders' \in SUBSET History!Order'
    BY <1>0, <1>1, <1>4 DEF HistoryTyped, History!Order
  <2>2. shown' \in [Shopper -> SUBSET orders] /\ seen' \in [Shopper -> SUBSET orders]
    BY <1>0, <1>1, <1>4 DEF HistoryTyped
  <2>3. before' \in [Shopper -> SUBSET orders]
    BY <1>0, <1>1 DEF HistoryTyped, History!Of
  <2> QED BY <1>1, <2>1, <2>2, <2>3 DEF HistoryTyped
<1>6. \A t \in Shopper : /\ History!Of(t)' = History!Of(t) /\ HowMany(t)' = HowMany(t)
                         /\ \A o : Place(t, o)' = Place(t, o)
  BY <1>1 DEF History!Of, HowMany, Place
<1>7. ASSUME NEW t \in Shopper, t # s
      PROVE  Turned(t)'
  <2>1. UNCHANGED <<page[t], shown[t], hasNext[t], seen[t], before[t]>>
    BY <1>0, <1>1, <1>7 DEF HistoryTyped
  <2>2. Turned(t)
    BY DEF HistoryInv
  <2> QED BY <1>6, <2>1, <2>2 DEF Turned
<1>8. Turned(s)'
  <2>1. /\ page'[s] = n /\ shown'[s] = first /\ hasNext'[s] = more
        /\ seen'[s] = first \union IF n = 1 THEN {} ELSE seen[s]
        /\ before'[s] = IF n = 1 THEN History!Of(s) ELSE before[s]
    BY <1>0, <1>1 DEF HistoryTyped
  <2>2. /\ before[s] \in SUBSET History!Of(s)
        /\ page[s] > 0 => \A o \in before[s] : o \in seen[s] \/ Place(s, o) > page[s] * HistoryLimit
    BY DEF HistoryInv, Turned
  <2>3. page[s] \in Nat
    BY <1>0 DEF HistoryTyped
  <2>4. \A o \in before'[s] : o \in seen'[s] \/ Place(s, o) > n * HistoryLimit
    <3>1. CASE n = 1
      <4>1. (n - 1) * HistoryLimit = 0
        BY <1>0, <3>1
      <4> QED BY <1>0, <1>2, <1>3, <2>1, <3>1, <4>1
    <3>2. CASE n # 1
      <4>1. page[s] > 0 /\ page[s] >= n - 1 /\ n - 1 \in Nat
        BY <3>2
      <4>2. (n - 1) * HistoryLimit <= page[s] * HistoryLimit
        BY <1>0, <2>3, <4>1, PagesGrow
      <4>3. (n - 1) * HistoryLimit \in Nat /\ page[s] * HistoryLimit \in Nat /\ n * HistoryLimit \in Nat
        BY <1>0, <2>3, <4>1, PagesAdjoin
      <4>4. ASSUME NEW o \in before[s], o \notin seen[s], ~(Place(s, o) > n * HistoryLimit)
            PROVE  o \in first
        <5>1. o \in History!Of(s) /\ Place(s, o) \in Nat /\ Place(s, o) > page[s] * HistoryLimit
          BY <1>3, <2>2, <4>1, <4>4
        <5> QED BY <1>2, <4>2, <4>3, <4>4, <5>1
      <4> QED BY <2>1, <3>2, <4>4
    <3> QED BY <3>1, <3>2
  <2>5. before'[s] \in SUBSET History!Of(s)
    BY <2>1, <2>2
  <2>6. ~more => before'[s] \in SUBSET seen'[s]
    <3>1. SUFFICES ASSUME ~more, NEW o \in before'[s], o \notin seen'[s]
                   PROVE  FALSE
      OBVIOUS
    <3>2. Place(s, o) > n * HistoryLimit /\ Place(s, o) \in Nat /\ Place(s, o) <= HowMany(s)
      BY <1>3, <2>4, <2>5, <3>1
    <3>3. n * HistoryLimit \in Nat
      BY <1>0, PagesAdjoin
    <3> QED BY <1>2, <1>3, <3>1, <3>2, <3>3
  <2>7. n > 1 => HowMany(s) > (n - 1) * HistoryLimit /\ first # {}
    BY <1>2
  <2>8. shown'[s] \in SUBSET seen'[s] /\ Cardinality(shown'[s]) <= HistoryLimit
    BY <1>2, <2>1
  <2> QED BY <1>2, <1>6, <2>1, <2>4, <2>5, <2>6, <2>7, <2>8 DEF Turned
<1> QED BY <1>5, <1>7, <1>8 DEF HistoryInv

\* An order that comes only moves the others to later places.
LEMMA ProjectKeeps ==
  ASSUME History!OrderHistoryAssumption, HistoryInv, NEW o0 \in History!Order, History!Project(o0)
  PROVE  HistoryInv'
<1>0. HistoryTyped /\ orders \in SUBSET History!Order /\ HistoryLimit \in Nat \ {0}
  BY DEF HistoryInv, HistoryTyped, History!OrderHistoryAssumption
<1>1. /\ orders' = orders \union {o0}
      /\ UNCHANGED <<page, shown, hasNext, seen, before>>
  BY DEF History!Project
<1>2. HistoryTyped'
  BY <1>0, <1>1 DEF HistoryTyped, History!Order
<1>3. ASSUME NEW s \in Shopper
      PROVE  Turned(s)'
  <2>1. History!Of(s) \in SUBSET History!Of(s)' /\ History!Of(s)' \in SUBSET (1..MaxOrder)
    BY <1>0, <1>1 DEF History!Of, History!Order
  <2>2. IsFiniteSet(History!Of(s)')
    <3>1. IsFiniteSet(1..MaxOrder)
      BY FS_Interval DEF History!OrderHistoryAssumption
    <3> QED BY <2>1, <3>1, FS_Subset
  <2>3. HowMany(s) <= HowMany(s)' /\ HowMany(s) \in Nat /\ HowMany(s)' \in Nat
    <3>1. IsFiniteSet(History!Of(s)) /\ Cardinality(History!Of(s)) <= Cardinality(History!Of(s)')
      BY <2>1, <2>2, FS_Subset
    <3> QED BY <2>2, <3>1, FS_CardinalityType DEF HowMany
  <2>4. ASSUME NEW o
        PROVE  Place(s, o) <= Place(s, o)' /\ Place(s, o) \in Nat /\ Place(s, o)' \in Nat
    <3> DEFINE few == {p \in History!Of(s) : p >= o}
               many == {p \in History!Of(s)' : p >= o}
    <3>1. few \in SUBSET many /\ many \in SUBSET History!Of(s)'
      BY <2>1
    <3>2. IsFiniteSet(many)
      BY <2>2, <3>1, FS_Subset
    <3>3. IsFiniteSet(few) /\ Cardinality(few) <= Cardinality(many)
      BY <3>1, <3>2, FS_Subset
    <3>4. Cardinality(few) \in Nat /\ Cardinality(many) \in Nat
      BY <3>2, <3>3, FS_CardinalityType
    <3> QED BY <3>3, <3>4 DEF Place
  <2>5. Turned(s) /\ page[s] \in Nat
    BY <1>0 DEF HistoryInv, HistoryTyped
  <2>6. page[s] * HistoryLimit \in Nat /\ (page[s] > 1 => (page[s] - 1) * HistoryLimit \in Nat)
    BY <1>0, <2>5, PagesAdjoin
  <2>7. page[s] > 0 => \A o \in before[s] : o \in seen[s] \/ Place(s, o)' > page[s] * HistoryLimit
    BY <2>4, <2>5, <2>6 DEF Turned
  <2>8. page[s] > 1 => HowMany(s)' > (page[s] - 1) * HistoryLimit
    BY <2>3, <2>5, <2>6 DEF Turned
  <2>9. hasNext[s] => HowMany(s)' > page[s] * HistoryLimit
    BY <2>3, <2>5, <2>6 DEF Turned
  <2> QED BY <1>1, <2>1, <2>5, <2>7, <2>8, <2>9 DEF Turned
<1> QED BY <1>2, <1>3 DEF HistoryInv

LEMMA NextHistoryInv ==
  ASSUME History!OrderHistoryAssumption, HistoryInv, [History!Next]_(History!vars)
  PROVE  HistoryInv'
<1>0. /\ HistoryLimit \in Nat \ {0} /\ page \in [Shopper -> Nat]
      /\ \A s \in Shopper : Turned(s)
  BY DEF HistoryInv, HistoryTyped, History!OrderHistoryAssumption
<1>1. ASSUME NEW s \in Shopper, History!Open(s) PROVE HistoryInv'
  BY <1>1, ShowKeeps DEF History!Open
<1>2. ASSUME NEW s \in Shopper, History!PreviousPage(s) PROVE HistoryInv'
  <2> DEFINE n == page[s] - 1
  <2>1. n \in Nat \ {0} /\ n - 1 \in Nat /\ page[s] \in Nat /\ page[s] > 1 /\ History!Show(s, n)
    BY <1>0, <1>2 DEF History!PreviousPage
  <2>2. HowMany(s) > (page[s] - 1) * HistoryLimit
    BY <1>0, <2>1 DEF Turned
  <2>3. /\ (n - 1) * HistoryLimit <= n * HistoryLimit
        /\ (n - 1) * HistoryLimit \in Nat /\ n * HistoryLimit \in Nat
    <3> HIDE DEF n
    <3>1. n - 1 \in Nat /\ n \in Nat /\ n - 1 <= n
      BY <2>1
    <3> QED BY <1>0, <3>1, PagesGrow, PagesAdjoin
  <2>4. HowMany(s) \in Nat
    BY HistoryRanks DEF HistoryInv, HistoryTyped
  <2>5. HowMany(s) > (n - 1) * HistoryLimit /\ page[s] > 0 /\ page[s] >= n - 1
    BY <2>1, <2>2, <2>3, <2>4
  <2> HIDE DEF n
  <2> QED BY <2>1, <2>5, ShowKeeps
<1>3. ASSUME NEW s \in Shopper, History!NextPage(s) PROVE HistoryInv'
  <2> DEFINE n == page[s] + 1
  <2>1. n \in Nat \ {0} /\ n - 1 = page[s] /\ page[s] \in Nat /\ History!Show(s, n) /\ hasNext[s]
    BY <1>0, <1>3 DEF History!NextPage
  <2>2. HowMany(s) > page[s] * HistoryLimit /\ page[s] > 0
    BY <1>0, <2>1 DEF Turned
  <2>3. HowMany(s) > (n - 1) * HistoryLimit /\ page[s] > 0 /\ page[s] >= n - 1
    BY <2>1, <2>2
  <2> HIDE DEF n
  <2> QED BY <2>1, <2>3, ShowKeeps
<1>4. ASSUME NEW o \in History!Order, History!Project(o) PROVE HistoryInv'
  BY <1>4, ProjectKeeps
<1>5. CASE UNCHANGED History!vars
  <2>1. UNCHANGED <<orders, page, shown, hasNext, seen, before>>
    BY <1>5 DEF History!vars
  <2> QED BY <2>1 DEF HistoryInv, HistoryTyped, Turned, HowMany, Place, History!Of, History!Order
<1> QED BY <1>1, <1>2, <1>3, <1>4, <1>5 DEF History!Next

LEMMA HistoryIsWhole ==
  ASSUME HistoryInv
  PROVE  History!HistoryIsComplete /\ History!OfferedPageHasOrders
BY DEF HistoryInv, Turned, History!HistoryIsComplete, History!OfferedPageHasOrders

LEMMA HistoryIsTyped ==
  ASSUME History!OrderHistoryAssumption, HistoryInv
  PROVE  History!TypeOK
<1>0. /\ HistoryLimit \in Nat \ {0} /\ MaxOrder \in Nat \ {0} /\ page \in [Shopper -> Nat]
      /\ orders \in SUBSET History!Order
  BY DEF HistoryInv, HistoryTyped, History!OrderHistoryAssumption
<1>1. ASSUME NEW s \in Shopper PROVE page[s] \in 0..MaxOrder
  <2>1. HowMany(s) \in Nat /\ HowMany(s) <= MaxOrder
    BY <1>0, HistoryRanks
  <2>2. page[s] > 1 => page[s] - 1 \in Nat /\ HowMany(s) > (page[s] - 1) * HistoryLimit
    <3>1. page[s] > 1 => HowMany(s) > (page[s] - 1) * HistoryLimit
      BY DEF HistoryInv, Turned
    <3> QED BY <1>0, <3>1
  <2>3. page[s] > 1 => page[s] - 1 <= (page[s] - 1) * HistoryLimit /\ (page[s] - 1) * HistoryLimit \in Nat
    BY <1>0, <2>2, PagesGrow, PagesAdjoin
  <2> QED BY <1>0, <2>1, <2>2, <2>3
<1>2. page \in [Shopper -> 0..MaxOrder]
  BY <1>0, <1>1
<1> QED BY <1>0, <1>2, HistoryCounts DEF HistoryInv, HistoryTyped, Turned, History!TypeOK

-----------------------------------------------------------------------------
(* SitemapWalk *)

\* The walk's products are those of its beginning and those added; it has asked
\* for its pages from the first on, without a gap.
WalkTyped ==
  /\ catalog \in SUBSET Sitemap!Product /\ before \in SUBSET Sitemap!Product
  /\ added \in SUBSET Sitemap!Product /\ removed \in SUBSET before /\ added \cap before = {}
  /\ walk \in {"idle", "first", "pages", "listed", "failed"}
  /\ total \in {-1} \union 0..MaxProduct
  /\ IsFiniteSet(asked) /\ Cardinality(asked) <= SitemapConcurrency
WalkFollows ==
  /\ walk = "idle" => /\ total = -1 /\ loaded = Sitemap!NoPage
                      /\ removed = {} /\ added = {} /\ before = {} /\ asked = {}
  /\ walk # "idle" => /\ catalog \in SUBSET (before \union added)
                      /\ removed = {} => before \in SUBSET catalog
                      /\ removed = {} /\ total # -1 => Cardinality(before) <= total
  /\ walk = "first" => \/ asked = {1} /\ loaded = Sitemap!NoPage
                       \/ asked = {} /\ DOMAIN loaded = {1}
  /\ walk = "pages" => \E last \in Nat \ {0} : (DOMAIN loaded) \union asked = 1..last
  /\ walk = "listed" => asked = {} /\ \A n \in 1..Sitemap!TotalPages : n \in DOMAIN loaded
  /\ walk \in {"pages", "listed"} => total # -1 /\ total <= MaxProducts

\* A product that was there all along, before which nothing left or arrived, keeps its
\* place, and is on the page of that place and on no other.
Steady(p) == p \in before /\ removed = {} /\ \A q \in added : ~(q < p)
PlaceBefore(p) == Cardinality({q \in before : q <= p})
PageKept(n) ==
  /\ n \in Nat \ {0} /\ loaded[n] \in SUBSET (before \union added)
  /\ IsFiniteSet(loaded[n]) /\ Cardinality(loaded[n]) <= SitemapPage
  /\ \A p \in Sitemap!Product : Steady(p) =>
       /\ p \in loaded[n] <=> (n - 1) * SitemapPage < PlaceBefore(p) /\ PlaceBefore(p) <= n * SitemapPage
       /\ n * SitemapPage < PlaceBefore(p) => \A q \in loaded[n] : q < p
WalkInv == WalkTyped /\ WalkFollows /\ \A n \in DOMAIN loaded : PageKept(n)

LEMMA SitemapCounts == \A S : Sitemap!Cardinality(S) = Cardinality(S)
BY DEF Sitemap!Cardinality, Cardinality

LEMMA SitemapBounds ==
  ASSUME Sitemap!SitemapWalkAssumption
  PROVE  /\ SitemapPage \in Nat \ {0} /\ SitemapConcurrency \in Nat \ {0}
         /\ MaxProduct \in Nat /\ MaxProducts \in Nat
         /\ Sitemap!Product = 1..MaxProduct /\ IsFiniteSet(Sitemap!Product)
         /\ Cardinality(Sitemap!Product) = MaxProduct
<1>1. MaxProduct \in Nat
  BY DEF Sitemap!SitemapWalkAssumption
<1>2. IsFiniteSet(1..MaxProduct) /\ Cardinality(1..MaxProduct) = MaxProduct
  BY <1>1, FS_Interval
<1> QED BY <1>2 DEF Sitemap!SitemapWalkAssumption, Sitemap!Product

LEMMA ProductSets ==
  ASSUME Sitemap!SitemapWalkAssumption, NEW S \in SUBSET Sitemap!Product
  PROVE  /\ IsFiniteSet(S) /\ S \in SUBSET Int /\ Cardinality(S) \in 0..MaxProduct
         /\ Ordered(S, Upward(S))
         /\ \A p \in S : /\ Rank(S, Upward(S), p) = Cardinality({q \in S : q <= p})
                         /\ Rank(S, Upward(S), p) \in 1..Cardinality(S)
<1>1. IsFiniteSet(S) /\ Cardinality(S) <= MaxProduct /\ Cardinality(S) \in Nat
  BY SitemapBounds, FS_Subset, FS_CardinalityType
<1>2. S \in SUBSET Int /\ MaxProduct \in Nat
  BY SitemapBounds
<1>3. Ordered(S, Upward(S)) /\ \A p \in S : UpTo(S, Upward(S), p) = {q \in S : q <= p}
  BY <1>1, <1>2, NumbersOrdered
<1>4. ASSUME NEW p \in S PROVE Rank(S, Upward(S), p) \in 1..Cardinality(S)
  BY <1>3, RankIsPlace
<1>5. \A p \in S : Rank(S, Upward(S), p) = Cardinality({q \in S : q <= p})
  BY <1>3 DEF Rank
<1>6. Cardinality(S) \in 0..MaxProduct
  BY <1>1, <1>2
<1> QED BY <1>1, <1>2, <1>3, <1>4, <1>5, <1>6

\* The page that is read now.
LEMMA PageIsKept ==
  ASSUME Sitemap!SitemapWalkAssumption, WalkTyped, WalkFollows, walk # "idle", NEW n \in Nat \ {0}
  PROVE  /\ Sitemap!PageOf(n) \in SUBSET (before \union added)
         /\ IsFiniteSet(Sitemap!PageOf(n)) /\ Cardinality(Sitemap!PageOf(n)) <= SitemapPage
         /\ \A p \in Sitemap!Product : Steady(p) =>
              /\ p \in Sitemap!PageOf(n)
                   <=> (n - 1) * SitemapPage < PlaceBefore(p) /\ PlaceBefore(p) <= n * SitemapPage
              /\ n * SitemapPage < PlaceBefore(p) => \A q \in Sitemap!PageOf(n) : q < p
<1> DEFINE M == catalog
           R == Upward(M)
           low == (n - 1) * SitemapPage
           high == n * SitemapPage
           S == Sitemap!PageOf(n)
<1>0. /\ low \in Nat /\ high \in Nat /\ high = low + SitemapPage /\ low <= high
      /\ SitemapPage \in Nat
  BY SitemapBounds, PagesAdjoin
<1>1. /\ M \in SUBSET Int /\ Ordered(M, R) /\ Cardinality(M) \in Nat
      /\ \A p \in M : /\ Rank(M, R, p) = Cardinality({q \in M : q <= p}) /\ Rank(M, R, p) \in Nat
  BY ProductSets DEF WalkTyped
<1>2. S = {p \in M : low < Cardinality({q \in M : q <= p}) /\ Cardinality({q \in M : q <= p}) <= high}
  BY SitemapCounts DEF Sitemap!PageOf
<1> HIDE DEF M, R, low, high, S
<1>3. S = {p \in M : low < Rank(M, R, p) /\ Rank(M, R, p) <= high}
  BY ONLY <1>1, <1>2
<1>4. IsFiniteSet(S) /\ Cardinality(S) <= SitemapPage
  <2>1. IsFiniteSet(S) /\ Cardinality(S) \in Nat /\ Cardinality(S) <= high - low
    BY ONLY <1>0, <1>1, <1>3, PlacesOfPage
  <2> QED BY <1>0, <2>1
<1>5. S \in SUBSET (before \union added)
  BY <1>3 DEF M, WalkFollows
<1>6. ASSUME NEW p \in Sitemap!Product, Steady(p)
      PROVE  p \in M /\ Rank(M, R, p) = PlaceBefore(p)
  <2>1. p \in M
    BY <1>6 DEF M, Steady, WalkFollows
  <2>2. {q \in M : q <= p} = {q \in before : q <= p}
    <3>1. \A q \in M : q <= p => q \in before
      <4>1. ASSUME NEW q \in M, q <= p, q \notin before PROVE FALSE
        <5>1. q \in added /\ p \in before
          BY <1>6, <4>1 DEF Steady, WalkFollows, M
        <5>2. q # p /\ q \in Int /\ p \in Int
          BY <1>1, <2>1, <5>1 DEF WalkTyped
        <5>3. ~(q < p)
          BY <1>6, <5>1 DEF Steady
        <5> QED BY <4>1, <5>2, <5>3
      <4> QED BY <4>1
    <3>2. before \in SUBSET M
      BY <1>6 DEF Steady, WalkFollows, M
    <3> QED BY <3>1, <3>2
  <2> QED BY <1>1, <2>1, <2>2 DEF PlaceBefore
<1>7. ASSUME NEW p \in Sitemap!Product, Steady(p)
      PROVE  p \in S <=> low < PlaceBefore(p) /\ PlaceBefore(p) <= high
  BY <1>3, <1>6, <1>7
<1>8. ASSUME NEW p \in Sitemap!Product, Steady(p), high < PlaceBefore(p), NEW q \in S
      PROVE  q < p
  <2>1. /\ q \in M /\ Rank(M, R, q) <= high /\ Rank(M, R, q) \in Nat /\ p \in M
        /\ Rank(M, R, p) = PlaceBefore(p) /\ Rank(M, R, p) \in Nat
    BY <1>1, <1>3, <1>6, <1>8
  <2>2. Rank(M, R, q) < Rank(M, R, p)
    BY <1>0, <1>8, <2>1
  <2>3. <<q, p>> \in R \/ <<p, q>> \in R \/ p = q
    BY <1>1, <2>1 DEF Ordered
  <2>4. ~(<<p, q>> \in R)
    <3>1. <<p, q>> \in R => Rank(M, R, p) < Rank(M, R, q)
      BY ONLY <1>1, <2>1, RankGrows
    <3> QED BY <2>1, <2>2, <3>1
  <2>5. <<q, p>> \in R
    BY <2>1, <2>2, <2>3, <2>4
  <2> QED BY <2>5 DEF R, Upward
<1>9. /\ S \in SUBSET (before \union added) /\ IsFiniteSet(S) /\ Cardinality(S) <= SitemapPage
      /\ \A p \in Sitemap!Product : Steady(p) =>
           /\ p \in S <=> low < PlaceBefore(p) /\ PlaceBefore(p) <= high
           /\ high < PlaceBefore(p) => \A q \in S : q < p
  BY <1>4, <1>5, <1>7, <1>8
<1> QED BY <1>9 DEF S, low, high

\* The next pages that are asked for.
LEMMA Batch ==
  ASSUME Sitemap!SitemapWalkAssumption, NEW from \in Nat, total \in Nat
  PROVE  /\ Sitemap!TotalPages \in Nat
         /\ IsFiniteSet(Sitemap!BatchFrom(from)) /\ Cardinality(Sitemap!BatchFrom(from)) <= SitemapConcurrency
         /\ \E last \in Int : Sitemap!BatchFrom(from) = from..last
         /\ Sitemap!BatchFrom(from) = {} <=> Sitemap!TotalPages < from
<1> DEFINE T == Sitemap!TotalPages
           far == from + SitemapConcurrency - 1
           last == IF T <= far THEN T ELSE far
<1>1. T \in Nat
  <2>1. T = (total + SitemapPage - 1) \div SitemapPage
    BY DEF Sitemap!TotalPages
  <2> QED BY <2>1, SitemapBounds, PagesSuffice
<1>2. SitemapConcurrency \in Nat \ {0}
  BY SitemapBounds
<1>3. far \in Int /\ far >= from
  BY <1>2
<1>4. Sitemap!Min({T, far}) = last
  <2> HIDE DEF T, far
  <2>1. last \in {T, far} /\ \A y \in {T, far} : last <= y
    BY <1>1, <1>3
  <2>2. \A x \in {T, far} : (\A y \in {T, far} : x <= y) => x = last
    BY <1>1, <1>3
  <2> HIDE DEF last
  <2> QED BY <2>1, <2>2 DEF Sitemap!Min
<1>5. Sitemap!BatchFrom(from) = from..last
  BY <1>4 DEF Sitemap!BatchFrom
<1> HIDE DEF T
<1>6. last \in Int /\ last <= far
  BY <1>1, <1>3
<1>7. IsFiniteSet(from..last) /\ Cardinality(from..last) = IF from > last THEN 0 ELSE last - from + 1
  BY <1>6, FS_Interval
<1>8. Cardinality(from..last) <= SitemapConcurrency
  BY <1>2, <1>6, <1>7
<1>9. from..last = {} <=> T < from
  <2>1. from..last = {} <=> last < from
    <3>1. from <= last => from \in from..last
      BY <1>6
    <3>2. last < from => from..last = {}
      BY <1>6
    <3> QED BY <1>6, <3>1, <3>2
  <2> QED BY <1>1, <1>3, <2>1
<1> HIDE DEF last
<1> QED BY <1>1, <1>5, <1>6, <1>7, <1>8, <1>9 DEF T

LEMMA InitWalkInv ==
  ASSUME Sitemap!SitemapWalkAssumption, Sitemap!Init
  PROVE  WalkInv
<1>1. /\ IsFiniteSet({}) /\ Cardinality({}) = 0
      /\ DOMAIN Sitemap!NoPage = {}
  BY FS_EmptySet DEF Sitemap!NoPage
<1>2. WalkTyped
  BY <1>1, SitemapBounds DEF Sitemap!Init, WalkTyped, Sitemap!Unknown
<1>3. WalkFollows
  BY DEF Sitemap!Init, WalkFollows, Sitemap!Unknown
<1>4. \A n \in DOMAIN loaded : PageKept(n)
  BY <1>1 DEF Sitemap!Init
<1> QED BY <1>2, <1>3, <1>4 DEF WalkInv

\* The pages that were read stay, whatever is edited since.
LEMMA PagesStay ==
  ASSUME UNCHANGED <<loaded, before>>, removed \in SUBSET removed', added \in SUBSET added',
         NEW n, PageKept(n)
  PROVE  PageKept(n)'
<1>1. \A p : Steady(p)' => Steady(p)
  BY DEF Steady
<1>2. \A p : PlaceBefore(p)' = PlaceBefore(p)
  BY DEF PlaceBefore
<1>3. Sitemap!Product' = Sitemap!Product
  BY DEF Sitemap!Product
<1> QED BY <1>1, <1>2, <1>3 DEF PageKept

\* A page is loaded into the walk.
LEMMA PageLoaded ==
  ASSUME Sitemap!SitemapWalkAssumption, WalkInv, walk # "idle", NEW n \in Nat \ {0},
         UNCHANGED <<before, removed, added>>, n \in DOMAIN loaded', loaded'[n] = Sitemap!PageOf(n)
  PROVE  PageKept(n)'
<1>1. /\ Sitemap!PageOf(n) \in SUBSET (before \union added)
      /\ IsFiniteSet(Sitemap!PageOf(n)) /\ Cardinality(Sitemap!PageOf(n)) <= SitemapPage
      /\ \A p \in Sitemap!Product : Steady(p) =>
           /\ p \in Sitemap!PageOf(n)
                <=> (n - 1) * SitemapPage < PlaceBefore(p) /\ PlaceBefore(p) <= n * SitemapPage
           /\ n * SitemapPage < PlaceBefore(p) => \A q \in Sitemap!PageOf(n) : q < p
  BY PageIsKept DEF WalkInv
<1>2. /\ \A p : Steady(p)' <=> Steady(p)
      /\ \A p : PlaceBefore(p)' = PlaceBefore(p)
      /\ Sitemap!Product' = Sitemap!Product
  BY DEF Steady, PlaceBefore, Sitemap!Product
<1> QED BY <1>1, <1>2 DEF PageKept

LEMMA SameTyped ==
  ASSUME WalkTyped, UNCHANGED <<catalog, before, added, removed, total>>,
         walk' \in {"idle", "first", "pages", "listed", "failed"},
         IsFiniteSet(asked'), Cardinality(asked') <= SitemapConcurrency
  PROVE  WalkTyped'
BY DEF WalkTyped, Sitemap!Product

LEMMA WalkStarts ==
  ASSUME Sitemap!SitemapWalkAssumption, WalkInv, Sitemap!Start
  PROVE  WalkInv'
<1>1. /\ walk = "idle" /\ walk' = "first" /\ asked' = {1} /\ before' = catalog
      /\ UNCHANGED <<catalog, total, loaded, removed, added>>
  BY DEF Sitemap!Start
<1>2. /\ total = -1 /\ loaded = Sitemap!NoPage /\ removed = {} /\ added = {} /\ DOMAIN loaded = {}
  BY <1>1 DEF WalkInv, WalkFollows, Sitemap!NoPage
<1>3. IsFiniteSet({1}) /\ Cardinality({1}) = 1
  BY FS_Singleton
<1>4. Cardinality({1}) <= SitemapConcurrency
  BY <1>3, SitemapBounds
<1>5. WalkTyped'
  BY <1>1, <1>2, <1>3, <1>4 DEF WalkInv, WalkTyped, Sitemap!Product
<1>6. WalkFollows'
  BY <1>1, <1>2 DEF WalkFollows, Sitemap!NoPage
<1>7. \A n \in DOMAIN loaded' : PageKept(n)'
  BY <1>1, <1>2
<1> QED BY <1>5, <1>6, <1>7 DEF WalkInv

LEMMA FirstItemsKeep ==
  ASSUME Sitemap!SitemapWalkAssumption, WalkInv, Sitemap!FirstItems
  PROVE  WalkInv'
<1>1. /\ walk = "first" /\ loaded' = [n \in {1} |-> Sitemap!PageOf(1)] /\ asked' = {}
      /\ UNCHANGED <<catalog, walk, total, before, removed, added>>
  BY DEF Sitemap!FirstItems
<1>2. DOMAIN loaded' = {1} /\ loaded'[1] = Sitemap!PageOf(1)
  BY <1>1
<1>3. IsFiniteSet({}) /\ Cardinality({}) <= SitemapConcurrency
  BY FS_EmptySet, SitemapBounds
<1>4. WalkTyped'
  BY <1>1, <1>3, SameTyped DEF WalkInv, WalkTyped
<1>5. WalkFollows'
  BY <1>1, <1>2 DEF WalkInv, WalkFollows
<1>6. PageKept(1)'
  BY <1>1, <1>2, PageLoaded
<1> QED BY <1>2, <1>4, <1>5, <1>6 DEF WalkInv

LEMMA FirstTotalKeeps ==
  ASSUME Sitemap!SitemapWalkAssumption, WalkInv, Sitemap!FirstTotal
  PROVE  WalkInv'
<1>1. /\ walk = "first" /\ total' = Cardinality(catalog)
      /\ UNCHANGED <<catalog, walk, loaded, asked, before, removed, added>>
  BY SitemapCounts DEF Sitemap!FirstTotal
<1>2. IsFiniteSet(catalog) /\ total' \in 0..MaxProduct
  BY <1>1, ProductSets DEF WalkInv, WalkTyped
<1>3. removed = {} => Cardinality(before) <= total'
  BY <1>1, <1>2, FS_Subset DEF WalkInv, WalkFollows
<1>4. WalkTyped'
  BY <1>1, <1>2 DEF WalkInv, WalkTyped, Sitemap!Product
<1>5. WalkFollows'
  BY <1>1, <1>3 DEF WalkInv, WalkFollows
<1>6. \A n \in DOMAIN loaded' : PageKept(n)'
  BY <1>1, PagesStay DEF WalkInv
<1> QED BY <1>4, <1>5, <1>6 DEF WalkInv

\* All that was asked for up to a page has come, and the walk goes on.
LEMMA WalkProceeds ==
  ASSUME Sitemap!SitemapWalkAssumption, WalkInv, NEW last \in Nat \ {0},
         walk \in {"first", "pages"}, total # -1, total <= MaxProducts,
         DOMAIN loaded' = 1..last, Sitemap!Proceed(last + 1),
         UNCHANGED <<catalog, total, before, removed, added>>
  PROVE  WalkTyped' /\ WalkFollows'
<1>1. total \in Nat /\ last + 1 \in Nat
  BY DEF WalkInv, WalkTyped
<1> DEFINE T == Sitemap!TotalPages
           more == Sitemap!BatchFrom(last + 1)
<1>2. /\ T \in Nat /\ IsFiniteSet(more) /\ Cardinality(more) <= SitemapConcurrency
      /\ \E far \in Int : more = (last + 1)..far
      /\ more = {} <=> T < last + 1
  BY <1>1, Batch
<1>3. asked' = more /\ walk' = IF more = {} THEN "listed" ELSE "pages"
  BY DEF Sitemap!Proceed
<1>4. T' = T
  BY DEF Sitemap!TotalPages
<1> HIDE DEF T, more
<1>5. WalkTyped'
  BY <1>2, <1>3, SameTyped DEF WalkInv
<1>6. walk' = "listed" => asked' = {} /\ \A n \in 1..T : n \in DOMAIN loaded'
  BY <1>2, <1>3
<1>7. walk' = "pages" => \E far \in Nat \ {0} : (DOMAIN loaded') \union asked' = 1..far
  <2>1. SUFFICES ASSUME walk' = "pages" PROVE \E far \in Nat \ {0} : (DOMAIN loaded') \union asked' = 1..far
    OBVIOUS
  <2>2. PICK far \in Int : more = (last + 1)..far
    BY <1>2
  <2>3. more # {}
    BY <1>3, <2>1
  <2>4. far >= last + 1
    BY <2>2, <2>3
  <2>5. (1..last) \union ((last + 1)..far) = 1..far
    BY <2>4
  <2> QED BY <1>3, <2>2, <2>4, <2>5
<1>8. WalkFollows'
  <2>1. walk # "idle" /\ walk' \in {"pages", "listed"}
    BY <1>3
  <2> QED BY <1>4, <1>6, <1>7, <2>1 DEF WalkInv, WalkFollows, T
<1> QED BY <1>5, <1>8

LEMMA FirstPageKeeps ==
  ASSUME Sitemap!SitemapWalkAssumption, WalkInv, Sitemap!FirstPage
  PROVE  WalkInv'
<1>1. /\ walk = "first" /\ asked = {} /\ total # -1
      /\ UNCHANGED <<catalog, total, loaded, before, removed, added>>
      /\ IF total > MaxProducts THEN walk' = "failed" /\ UNCHANGED asked ELSE Sitemap!Proceed(2)
  BY DEF Sitemap!FirstPage, Sitemap!Unknown
<1>2. DOMAIN loaded = {1}
  BY <1>1 DEF WalkInv, WalkFollows
<1>3. CASE total > MaxProducts
  <2>1. WalkTyped'
    BY <1>1, <1>3 DEF WalkInv, WalkTyped, Sitemap!Product
  <2>2. WalkFollows'
    BY <1>1, <1>3 DEF WalkInv, WalkFollows
  <2> QED BY <1>1, <2>1, <2>2, PagesStay DEF WalkInv
<1>4. CASE ~(total > MaxProducts)
  <2>1. total <= MaxProducts
    BY <1>1, <1>4, SitemapBounds DEF WalkInv, WalkTyped
  <2>2. DOMAIN loaded' = 1..1 /\ 1 + 1 = 2 /\ 1 \in Nat \ {0}
    BY <1>1, <1>2
  <2>3. Sitemap!Proceed(1 + 1)
    BY <1>1, <1>4, <2>2
  <2>4. WalkTyped' /\ WalkFollows'
    BY <1>1, <2>1, <2>2, <2>3, WalkProceeds
  <2> QED BY <1>1, <2>4, PagesStay DEF WalkInv
<1> QED BY <1>3, <1>4

LEMMA PageKeeps ==
  ASSUME Sitemap!SitemapWalkAssumption, WalkInv, NEW n \in 2..MaxProduct, Sitemap!Page(n)
  PROVE  WalkInv'
<1>0. n \in Nat \ {0}
  BY SitemapBounds
<1>1. /\ walk = "pages" /\ n \in asked
      /\ loaded' = [m \in (DOMAIN loaded) \union {n} |-> IF m = n THEN Sitemap!PageOf(n) ELSE loaded[m]]
      /\ IF asked = {n} THEN Sitemap!Proceed(Sitemap!Max(DOMAIN loaded') + 1)
         ELSE asked' = asked \ {n} /\ UNCHANGED walk
      /\ UNCHANGED <<catalog, total, before, removed, added>>
  BY DEF Sitemap!Page
<1>2. /\ DOMAIN loaded' = (DOMAIN loaded) \union {n} /\ loaded'[n] = Sitemap!PageOf(n)
      /\ \A m \in DOMAIN loaded : m # n => loaded'[m] = loaded[m]
  BY <1>1
<1>3. PICK last \in Nat \ {0} : (DOMAIN loaded) \union asked = 1..last
  BY <1>1 DEF WalkInv, WalkFollows
<1>4. total # -1 /\ total <= MaxProducts
  BY <1>1 DEF WalkInv, WalkFollows
<1>5. ASSUME NEW m \in DOMAIN loaded'
      PROVE  PageKept(m)'
  <2>1. CASE m = n
    BY <1>0, <1>1, <1>2, <2>1, PageLoaded
  <2>2. CASE m # n
    <3>1. PageKept(m) /\ loaded'[m] = loaded[m]
      BY <1>2, <1>5, <2>2 DEF WalkInv
    <3>2. /\ \A p : Steady(p)' <=> Steady(p)
          /\ \A p : PlaceBefore(p)' = PlaceBefore(p)
          /\ Sitemap!Product' = Sitemap!Product
      BY <1>1 DEF Steady, PlaceBefore, Sitemap!Product
    <3> QED BY <1>1, <3>1, <3>2 DEF PageKept
  <2> QED BY <2>1, <2>2
<1>6. CASE asked = {n}
  <2>1. DOMAIN loaded' = 1..last
    BY <1>2, <1>3, <1>6
  <2>2. Sitemap!Max(1..last) = last
    <3>1. last \in 1..last /\ \A y \in 1..last : last >= y
      OBVIOUS
    <3>2. \A x \in 1..last : (\A y \in 1..last : x >= y) => x = last
      BY <3>1
    <3> QED BY ONLY <3>1, <3>2, Zenon DEF Sitemap!Max
  <2>3. Sitemap!Proceed(last + 1)
    BY <1>1, <1>6, <2>1, <2>2
  <2>4. WalkTyped' /\ WalkFollows'
    BY <1>1, <1>4, <2>1, <2>3, WalkProceeds
  <2> QED BY <1>5, <2>4 DEF WalkInv
<1>7. CASE asked # {n}
  <2>1. asked' = asked \ {n} /\ walk' = walk
    BY <1>1, <1>7
  <2>2. IsFiniteSet(asked) /\ Cardinality(asked) <= SitemapConcurrency
    BY DEF WalkInv, WalkTyped
  <2>3. IsFiniteSet(asked') /\ Cardinality(asked') <= Cardinality(asked)
    BY <2>1, <2>2, FS_Subset
  <2>4. Cardinality(asked') <= SitemapConcurrency
    BY <2>2, <2>3, SitemapBounds, FS_CardinalityType
  <2>5. WalkTyped'
    BY <1>1, <2>1, <2>3, <2>4, SameTyped DEF WalkInv, WalkTyped
  <2>6. (DOMAIN loaded') \union asked' = 1..last
    BY <1>1, <1>2, <1>3, <2>1
  <2>7. WalkFollows'
    BY <1>1, <2>1, <2>6 DEF WalkInv, WalkFollows
  <2> QED BY <1>5, <2>5, <2>7 DEF WalkInv
<1> QED BY <1>6, <1>7

LEMMA FailureKeeps ==
  ASSUME Sitemap!SitemapWalkAssumption, WalkInv, Sitemap!PageFails
  PROVE  WalkInv'
<1>1. /\ walk \in {"first", "pages"} /\ walk' = "failed" /\ asked' = {}
      /\ UNCHANGED <<catalog, total, loaded, before, removed, added>>
  BY DEF Sitemap!PageFails
<1>2. IsFiniteSet({}) /\ Cardinality({}) <= SitemapConcurrency
  BY FS_EmptySet, SitemapBounds
<1>3. WalkTyped'
  BY <1>1, <1>2, SameTyped DEF WalkInv
<1>4. WalkFollows'
  BY <1>1 DEF WalkInv, WalkFollows
<1> QED BY <1>1, <1>3, <1>4, PagesStay DEF WalkInv

LEMMA CreateKeeps ==
  ASSUME WalkInv, NEW p \in Sitemap!Product, Sitemap!Create(p)
  PROVE  WalkInv'
<1>1. /\ walk \in {"first", "pages"} /\ p \notin before
      /\ catalog' = catalog \union {p} /\ added' = added \union {p}
      /\ UNCHANGED <<walk, total, loaded, asked, before, removed>>
  BY DEF Sitemap!Create
<1>2. WalkTyped'
  BY <1>1 DEF WalkInv, WalkTyped, Sitemap!Product
<1>3. WalkFollows'
  BY <1>1 DEF WalkInv, WalkFollows
<1>4. added \in SUBSET added'
  BY <1>1
<1> QED BY <1>1, <1>2, <1>3, <1>4, PagesStay DEF WalkInv

LEMMA DeleteKeeps ==
  ASSUME WalkInv, NEW p \in Sitemap!Product, Sitemap!Delete(p)
  PROVE  WalkInv'
<1>1. /\ walk \in {"first", "pages"} /\ p \in catalog /\ p \notin added
      /\ catalog' = catalog \ {p} /\ removed' = removed \union {p}
      /\ UNCHANGED <<walk, total, loaded, asked, before, added>>
  BY DEF Sitemap!Delete
<1>2. p \in before /\ removed' # {}
  BY <1>1 DEF WalkInv, WalkFollows
<1>3. WalkTyped'
  BY <1>1, <1>2 DEF WalkInv, WalkTyped, Sitemap!Product
<1>4. WalkFollows'
  BY <1>1, <1>2 DEF WalkInv, WalkFollows
<1>5. removed \in SUBSET removed'
  BY <1>1
<1> QED BY <1>1, <1>3, <1>4, <1>5, PagesStay DEF WalkInv

LEMMA NextWalkInv ==
  ASSUME Sitemap!SitemapWalkAssumption, WalkInv, [Sitemap!Next]_(Sitemap!vars)
  PROVE  WalkInv'
<1>1. CASE UNCHANGED Sitemap!vars
  <2>1. UNCHANGED <<catalog, walk, total, loaded, asked, before, removed, added>>
    BY <1>1 DEF Sitemap!vars
  <2>2. WalkTyped'
    BY <2>1 DEF WalkInv, WalkTyped, Sitemap!Product
  <2>3. WalkFollows'
    BY <2>1 DEF WalkInv, WalkFollows, Sitemap!TotalPages
  <2> QED BY <2>1, <2>2, <2>3, PagesStay DEF WalkInv
<1> QED BY <1>1, WalkStarts, FirstItemsKeep, FirstTotalKeeps, FirstPageKeeps, PageKeeps, FailureKeeps,
           CreateKeeps, DeleteKeeps DEF Sitemap!Next

LEMMA SitemapTyped ==
  ASSUME Sitemap!SitemapWalkAssumption, WalkInv
  PROVE  Sitemap!TypeOK
<1>1. \A n \in DOMAIN loaded : loaded[n] \subseteq Sitemap!Product /\ Cardinality(loaded[n]) <= SitemapPage
  BY DEF WalkInv, WalkTyped, PageKept
<1> QED BY <1>1, SitemapCounts DEF WalkInv, WalkTyped, Sitemap!TypeOK, Sitemap!Unknown

\* Fewer products come before one that kept its place than the walk admits.
LEMMA KeptIsListed ==
  ASSUME Sitemap!SitemapWalkAssumption, WalkInv, walk = "listed", NEW p \in before, Steady(p)
  PROVE  p \in Sitemap!Listed
<1> DEFINE k == PlaceBefore(p)
           T == Sitemap!TotalPages
           n0 == (k + SitemapPage - 1) \div SitemapPage
           first(q) == Sitemap!Min({n \in DOMAIN loaded : q \in loaded[n]})
           earlier(q) == first(q) < first(p) \/ (first(q) = first(p) /\ q < p)
<1>0. /\ SitemapPage \in Nat \ {0} /\ MaxProducts \in Nat /\ p \in Sitemap!Product
      /\ before \in SUBSET Sitemap!Product
  BY SitemapBounds DEF WalkInv, WalkTyped
<1>1. /\ IsFiniteSet(before) /\ Cardinality(before) \in Nat /\ before \in SUBSET Int
      /\ k \in 1..Cardinality(before)
  <2>1. /\ IsFiniteSet(before) /\ before \in SUBSET Int /\ Cardinality(before) \in 0..MaxProduct
        /\ Rank(before, Upward(before), p) = Cardinality({q \in before : q <= p})
        /\ Rank(before, Upward(before), p) \in 1..Cardinality(before)
    BY <1>0, ProductSets
  <2>2. Cardinality(before) \in Nat
    BY <2>1, SitemapBounds
  <2> QED BY <2>1, <2>2 DEF PlaceBefore
<1>2. /\ total \in Nat /\ total <= MaxProducts /\ Cardinality(before) <= total
      /\ \A n \in 1..T : n \in DOMAIN loaded
  BY DEF WalkInv, WalkFollows, WalkTyped, Steady
<1>3. T \in Nat /\ total <= T * SitemapPage /\ T * SitemapPage \in Nat
  <2>1. T = (total + SitemapPage - 1) \div SitemapPage
    BY DEF Sitemap!TotalPages
  <2> HIDE DEF T
  <2>2. T \in Nat /\ total <= T * SitemapPage
    BY ONLY <1>0, <1>2, <2>1, PagesSuffice
  <2> QED BY <1>0, <2>2, PagesAdjoin
<1> HIDE DEF T
<1>4. /\ n0 \in Nat \ {0} /\ k <= n0 * SitemapPage /\ (n0 - 1) * SitemapPage < k
      /\ (n0 - 1) * SitemapPage \in Nat /\ n0 * SitemapPage \in Nat
  <2> HIDE DEF k
  <2>1. k \in Nat /\ k > 0
    BY <1>1
  <2>2. n0 \in Nat /\ k <= n0 * SitemapPage /\ (n0 - 1) * SitemapPage < k
    BY <1>0, <2>1, PagesSuffice
  <2>3. n0 # 0
    <3> HIDE DEF n0
    <3>1. n0 = 0 => n0 * SitemapPage = 0
      BY <1>0
    <3> QED BY <2>1, <2>2, <3>1
  <2> HIDE DEF n0
  <2> QED BY <1>0, <2>2, <2>3, PagesAdjoin
<1> HIDE DEF n0
<1>5. n0 <= T
  <2>1. SUFFICES ASSUME T <= n0 - 1 PROVE FALSE
    BY <1>3, <1>4
  <2>2. n0 - 1 \in Nat
    BY <1>4
  <2>3. T * SitemapPage <= (n0 - 1) * SitemapPage
    BY <1>0, <1>3, <2>1, <2>2, PagesGrow
  <2> HIDE DEF k
  <2> QED BY <1>1, <1>2, <1>3, <1>4, <2>3
<1>6. n0 \in DOMAIN loaded
  BY <1>2, <1>3, <1>4, <1>5
<1>7. \A n \in DOMAIN loaded :
        /\ n \in Nat \ {0} /\ loaded[n] \in SUBSET (before \union added)
        /\ p \in loaded[n] <=> (n - 1) * SitemapPage < k /\ k <= n * SitemapPage
        /\ n * SitemapPage < k => \A q \in loaded[n] : q < p
  BY <1>0 DEF WalkInv, PageKept
<1> HIDE DEF k
<1>8. p \in loaded[n0]
  BY <1>4, <1>6, <1>7
<1>9. ASSUME NEW q, NEW m \in DOMAIN loaded, q \in loaded[m]
      PROVE  /\ first(q) \in DOMAIN loaded /\ q \in loaded[first(q)]
             /\ \A n \in DOMAIN loaded : q \in loaded[n] => first(q) <= n
  <2> DEFINE S == {n \in DOMAIN loaded : q \in loaded[n]}
  <2>1. S \in SUBSET Nat /\ S # {}
    BY <1>7, <1>9
  <2>2. first(q) = Sitemap!Min(S)
    OBVIOUS
  <2>3. (\E n \in S : \A l \in S : n <= l) => Sitemap!Min(S) \in S /\ \A l \in S : Sitemap!Min(S) <= l
    <3> HIDE DEF S, first
    <3> QED BY ONLY Zenon DEF Sitemap!Min
  <2>4. \E n \in S : \A l \in S : n <= l
    <3> HIDE DEF S
    <3> QED BY <2>1, LeastOf
  <2> QED BY <2>2, <2>3, <2>4
<1>10. first(p) \in Nat \ {0} /\ first(p) <= n0 /\ first(p) \in DOMAIN loaded /\ p \in loaded[first(p)]
  <2>1. /\ first(p) \in DOMAIN loaded /\ p \in loaded[first(p)]
        /\ \A n \in DOMAIN loaded : p \in loaded[n] => first(p) <= n
    BY <1>6, <1>8, <1>9
  <2> HIDE DEF first
  <2> QED BY <1>6, <1>7, <1>8, <2>1
<1>11. /\ Sitemap!Entries = UNION {loaded[n] : n \in DOMAIN loaded}
       /\ \A q \in Sitemap!Entries : \E m \in DOMAIN loaded : q \in loaded[m]
       /\ p \in Sitemap!Entries
  <2>1. Sitemap!Entries = UNION {loaded[n] : n \in DOMAIN loaded}
    BY DEF Sitemap!Entries, Sitemap!Range
  <2> QED BY <1>6, <1>8, <2>1
<1>12. Sitemap!Listed = {r \in Sitemap!Entries : Cardinality({q \in Sitemap!Entries :
           \/ Sitemap!Min({n \in DOMAIN loaded : q \in loaded[n]}) < Sitemap!Min({n \in DOMAIN loaded : r \in loaded[n]})
           \/ /\ Sitemap!Min({n \in DOMAIN loaded : q \in loaded[n]}) = Sitemap!Min({n \in DOMAIN loaded : r \in loaded[n]})
              /\ q < r}) < MaxProducts}
  BY SitemapCounts DEF Sitemap!Listed
<1>13. p \in Sitemap!Listed <=> Cardinality({q \in Sitemap!Entries : earlier(q)}) < MaxProducts
  BY ONLY <1>11, <1>12
<1> HIDE DEF first
<1>14. ASSUME NEW q \in Sitemap!Entries, earlier(q)
       PROVE  q \in before /\ q < p
  <2>1. PICK m \in DOMAIN loaded : q \in loaded[m]
    BY <1>11
  <2>2. first(q) \in DOMAIN loaded /\ q \in loaded[first(q)]
    BY <1>9, <2>1
  <2>3. q < p
    <3>1. CASE first(q) < first(p)
      <4>1. first(q) \in Nat \ {0} /\ first(q) <= n0 - 1 /\ n0 - 1 \in Nat
        BY <1>4, <1>7, <1>10, <2>2, <3>1
      <4>2. first(q) * SitemapPage <= (n0 - 1) * SitemapPage /\ first(q) * SitemapPage \in Nat
        BY <1>0, <4>1, PagesGrow, PagesAdjoin
      <4>3. first(q) * SitemapPage < k
        BY <1>1, <1>4, <4>2
      <4> QED BY <1>7, <2>2, <4>3
    <3>2. CASE ~(first(q) < first(p))
      BY <1>14, <3>2
    <3> QED BY <3>1, <3>2
  <2>4. q \in before \union added
    BY <1>7, <2>1
  <2> QED BY <2>3, <2>4 DEF Steady
<1>15. Cardinality({q \in Sitemap!Entries : earlier(q)}) < MaxProducts
  <2> DEFINE E0 == {q \in Sitemap!Entries : earlier(q)}
  <2>1. E0 \in SUBSET (before \ {p})
    <3>1. \A q \in E0 : q \in before /\ q < p
      BY <1>14
    <3>2. p \in Int /\ ~(p < p)
      BY <1>1
    <3> QED BY <3>1, <3>2
  <2>2. IsFiniteSet(before \ {p}) /\ Cardinality(before \ {p}) = Cardinality(before) - 1
    BY <1>1, FS_RemoveElement
  <2> HIDE DEF E0
  <2>3. IsFiniteSet(E0) /\ Cardinality(E0) <= Cardinality(before \ {p})
    BY <2>1, <2>2, FS_Subset
  <2>4. Cardinality(E0) \in Nat
    BY <2>3, FS_CardinalityType
  <2>5. Cardinality(E0) < MaxProducts
    BY <1>0, <1>1, <1>2, <2>2, <2>3, <2>4
  <2> QED BY <2>5 DEF E0
<1> QED BY <1>13, <1>15

LEMMA MissesHaveCauses ==
  ASSUME Sitemap!SitemapWalkAssumption, WalkInv
  PROVE  Sitemap!MissesAreExplained
<1> SUFFICES ASSUME walk = "listed", NEW p \in before, p \notin Sitemap!Listed,
                    removed = {}, ~(\E q \in added : q < p)
             PROVE  FALSE
  BY DEF Sitemap!MissesAreExplained
<1>1. Steady(p)
  BY DEF Steady
<1> QED BY <1>1, KeptIsListed

-----------------------------------------------------------------------------
(* CatalogBrowse *)

\* What an address may hold, and what the server makes of it.
Paths == {"home", "products", "admin"}
KnownCategories == Browse!Categories \union {"all"} \union {u.category : u \in Landings}
Addresses ==
  [path : Paths, category : KnownCategories \union {"none"},
   search : {"none", "coat", "padded", "blank"} \union {u.search : u \in Landings},
   sort : {"none"} \union Browse!Sorts \union {u.sort : u \in Landings}, page : Int]
Selections ==
  {q \in [path : Paths, category : KnownCategories, search : {"none", "coat"},
          sort : Browse!Sorts, page : Nat \ {0}] :
     q.category # "none" /\ (q.path = "home" => q.page = 1)}
\* The selection of an answer, or of none.
Screens ==
  [path : Paths \union {"nothing"}, category : KnownCategories, search : {"none", "coat"},
   sort : Browse!Sorts, page : Nat \ {0}]

LEMMA QueryRead ==
  ASSUME NEW u \in Addresses
  PROVE  /\ Browse!Query(u) \in Selections
         /\ Browse!Query(u).path = u.path
         /\ Browse!Query(u).category = (IF u.category = "none" THEN "all" ELSE u.category)
         /\ Browse!Query(u).search = Browse!Search(u.search)
         /\ Browse!Query(u).sort = Browse!Sort(u.sort)
         /\ u.path # "home" => Browse!Query(u).page = Browse!Page(u.page)
<1>0. u.path \in Paths /\ u.category \in KnownCategories \union {"none"} /\ u.page \in Int
  BY DEF Addresses
<1>1. /\ Browse!Search(u.search) \in {"none", "coat"} /\ Browse!Sort(u.sort) \in Browse!Sorts
      /\ Browse!Page(u.page) \in Nat \ {0}
  BY <1>0 DEF Browse!Search, Browse!Sort, Browse!Page, Browse!Sorts, Browse!None
<1>2. Browse!Query(u) =
        [path |-> u.path, category |-> IF u.category = "none" THEN "all" ELSE u.category,
         search |-> Browse!Search(u.search), sort |-> Browse!Sort(u.sort),
         page |-> IF u.path = "home" THEN 1 ELSE Browse!Page(u.page)]
  BY DEF Browse!Query, Browse!None
<1>3. "all" \in KnownCategories
  BY DEF KnownCategories
<1> QED BY <1>0, <1>1, <1>2, <1>3 DEF Selections

\* A link leads to the selection it was made for.
LEMMA LinkRead ==
  ASSUME NEW q \in Selections
  PROVE  Browse!Href(q) \in Addresses /\ Browse!Query(Browse!Href(q)) = q
<1> DEFINE u == Browse!Href(q)
<1>0. /\ q.path \in Paths /\ q.category \in KnownCategories /\ q.category # "none"
      /\ q.search \in {"none", "coat"} /\ q.sort \in Browse!Sorts /\ q.page \in Nat \ {0}
      /\ q.path = "home" => q.page = 1
      /\ q = [path |-> q.path, category |-> q.category, search |-> q.search, sort |-> q.sort,
              page |-> q.page]
  BY DEF Selections
<1>1. u = [path |-> q.path, category |-> IF q.category = "all" THEN "none" ELSE q.category,
           search |-> q.search, sort |-> IF q.sort = "newest" THEN "none" ELSE q.sort,
           page |-> IF q.page = 1 THEN 0 ELSE q.page]
  BY DEF Browse!Href, Browse!None, Browse!NoPage
<1> HIDE DEF u
<1>2. u \in Addresses
  BY <1>0, <1>1 DEF Addresses
<1>3. /\ Browse!Search(q.search) = q.search
      /\ Browse!Sort(IF q.sort = "newest" THEN "none" ELSE q.sort) = q.sort
      /\ Browse!Page(IF q.page = 1 THEN 0 ELSE q.page) = q.page
  BY <1>0 DEF Browse!Search, Browse!Sort, Browse!Page, Browse!Sorts, Browse!None
<1>4. Browse!Query(u) =
        [path |-> q.path, category |-> q.category, search |-> q.search, sort |-> q.sort,
         page |-> IF q.path = "home" THEN 1 ELSE q.page]
  <2>1. /\ u.path = q.path /\ u.category = (IF q.category = "all" THEN "none" ELSE q.category)
        /\ u.search = q.search /\ u.sort = (IF q.sort = "newest" THEN "none" ELSE q.sort)
        /\ u.page = (IF q.page = 1 THEN 0 ELSE q.page)
    BY <1>1
  <2>2. (IF u.category = "none" THEN "all" ELSE u.category) = q.category
    BY <1>0, <2>1
  <2>3. Browse!Search(u.search) = q.search /\ Browse!Sort(u.sort) = q.sort /\ Browse!Page(u.page) = q.page
    BY <1>3, <2>1
  <2> QED BY <2>1, <2>2, <2>3 DEF Browse!Query, Browse!None
<1>5. Browse!Query(u) = q
  BY <1>0, <1>4
<1> QED BY <1>2, <1>5 DEF u

LEMMA LandingsRead ==
  ASSUME Browse!CatalogBrowseAssumption
  PROVE  /\ Landings \in SUBSET Addresses
         /\ Browse!Nothing \in Screens /\ Browse!Nothing.path = "nothing"
<1>1. ASSUME NEW u \in Landings PROVE u \in Addresses
  <2>1. u \in [path : {"home", "products", "admin"}, category : {u.category},
               search : {u.search}, sort : {u.sort}, page : Int]
    BY DEF Browse!CatalogBrowseAssumption
  <2>2. /\ u.category \in KnownCategories
        /\ u.search \in {"none", "coat", "padded", "blank"} \union {w.search : w \in Landings}
        /\ u.sort \in {"none"} \union Browse!Sorts \union {w.sort : w \in Landings}
    BY DEF KnownCategories
  <2> QED BY <2>1, <2>2 DEF Addresses, Paths
<1>2. (CHOOSE u \in Landings : TRUE) \in Landings
  BY DEF Browse!CatalogBrowseAssumption
<1>3. PICK u0 \in Landings : u0 = CHOOSE u \in Landings : TRUE
  BY <1>2
<1>4. Browse!Nothing = [Browse!Query(u0) EXCEPT !.path = "nothing"]
  BY <1>3 DEF Browse!Nothing
<1>5. Browse!Query(u0) \in Selections
  BY <1>1, QueryRead
<1>6. Browse!Nothing \in Screens /\ Browse!Nothing.path = "nothing"
  BY <1>4, <1>5 DEF Selections, Screens
<1> QED BY <1>1, <1>6

\* The same selection, and no later page.
Within(q, w) ==
  /\ q.path = w.path /\ q.category = w.category /\ q.search = w.search /\ q.sort = w.sort
  /\ q.page <= w.page
BrowseTyped ==
  /\ catalog \in SUBSET BrowseProduct /\ IsFiniteSet(catalog) /\ price \in [BrowseProduct -> Nat]
  /\ edits \in 0..BrowseEdits /\ clicks \in 0..MaxClicks
  /\ url \in Addresses /\ want \in Selections
  /\ pending \in [on : BOOLEAN, sorting : BOOLEAN, url : Addresses, read : SUBSET {"items", "total"},
                  items : Seq(BrowseProduct), total : Nat, calm : BOOLEAN]
  /\ shown \in [q : Screens, ok : BOOLEAN, items : Seq(BrowseProduct), total : Nat, calm : BOOLEAN]
  /\ walk \in [page : Nat, q : Screens, seen : Seq(BrowseProduct)]
\* Where the visitor is going is what he asked for, and so is where he is; the
\* screen is of the address.
OnTheWay ==
  /\ pending.on => Within(Browse!Query(pending.url), want)
  /\ ~pending.on => shown.q = Browse!Query(url) /\ Within(shown.q, want)
  /\ shown.q.path # "nothing" => shown.q = Browse!Query(url)
TripInv == BrowseTyped /\ OnTheWay

LEMMA BrowseBounds ==
  ASSUME Browse!CatalogBrowseAssumption
  PROVE  /\ BrowseProduct \in SUBSET Nat /\ Initial \in SUBSET BrowseProduct /\ IsFiniteSet(Initial)
         /\ HomeLimit \in Nat \ {0} /\ PageSize \in Nat \ {0} /\ MaxClicks \in Nat /\ BrowseEdits \in Nat
         /\ Prices \in SUBSET Nat /\ FirstPrices \in SUBSET [BrowseProduct -> Nat]
         /\ \A p \in BrowseProduct : Kind[p] # "none"
<1>1. \A S : Browse!IsFiniteSet(S) <=> IsFiniteSet(S)
  BY DEF Browse!IsFiniteSet, IsFiniteSet
<1> QED BY <1>1 DEF Browse!CatalogBrowseAssumption

\* The pages of a selection.
LEMMA TotalPagesOf ==
  ASSUME Browse!CatalogBrowseAssumption, NEW n \in Nat, NEW q
  PROVE  /\ Browse!Limit(q) \in Nat \ {0} /\ Browse!TotalPages(n, q) \in Nat \ {0}
         /\ n <= Browse!TotalPages(n, q) * Browse!Limit(q)
         /\ n > 0 => (Browse!TotalPages(n, q) - 1) * Browse!Limit(q) < n
<1> DEFINE L == Browse!Limit(q)
           T == (n + L - 1) \div L
           most == IF T >= 1 THEN T ELSE 1
<1>1. L \in Nat \ {0}
  BY BrowseBounds DEF Browse!Limit
<1>2. Browse!TotalPages(n, q) = Browse!Max({1, T})
  BY DEF Browse!TotalPages
<1> HIDE DEF L
<1>3. T \in Nat /\ n <= T * L /\ (n > 0 => (T - 1) * L < n)
  BY <1>1, PagesSuffice
<1>4. n > 0 => T # 0
  <2>1. T = 0 => T * L = 0
    <3> HIDE DEF T
    <3> QED BY <1>1
  <2> QED BY <1>3, <2>1
<1> HIDE DEF T
<1>5. Browse!Max({1, T}) = most
  <2>1. most \in {1, T} /\ \A y \in {1, T} : most >= y
    BY <1>3
  <2>2. \A x \in {1, T} : (\A y \in {1, T} : x >= y) => x = most
    BY <1>3
  <2> HIDE DEF most
  <2> QED BY ONLY <2>1, <2>2, Zenon DEF Browse!Max
<1>6. CASE T >= 1
  BY <1>1, <1>2, <1>3, <1>5, <1>6 DEF L
<1>7. CASE ~(T >= 1)
  <2>1. T = 0 /\ n = 0 /\ most = 1
    BY <1>3, <1>4, <1>7
  <2>2. n <= 1 * L
    BY <1>1, <2>1
  <2> QED BY <1>1, <1>2, <1>5, <2>1, <2>2 DEF L
<1> QED BY <1>6, <1>7

LEMMA InitTripInv ==
  ASSUME Browse!CatalogBrowseAssumption, Browse!Init
  PROVE  TripInv
<1>1. /\ catalog = Initial /\ price \in FirstPrices /\ edits = 0 /\ clicks = 0 /\ url \in Landings
      /\ pending = [on |-> TRUE, sorting |-> FALSE, url |-> url, read |-> {}, items |-> <<>>,
                    total |-> 0, calm |-> TRUE]
      /\ shown = [q |-> Browse!Nothing, ok |-> FALSE, items |-> <<>>, total |-> 0, calm |-> TRUE]
      /\ want = Browse!Query(url) /\ walk = [page |-> 0, q |-> Browse!Nothing, seen |-> <<>>]
  BY DEF Browse!Init, Browse!Request, Browse!Blank, Browse!NoWalk
<1>2. url \in Addresses /\ Browse!Nothing \in Screens /\ Browse!Nothing.path = "nothing"
  BY <1>1, LandingsRead
<1>3. want \in Selections
  BY <1>1, <1>2, QueryRead
<1>4. BrowseTyped
  <2>1. <<>> \in Seq(BrowseProduct)
    OBVIOUS
  <2>2. /\ pending \in [on : BOOLEAN, sorting : BOOLEAN, url : Addresses, read : SUBSET {"items", "total"},
                        items : Seq(BrowseProduct), total : Nat, calm : BOOLEAN]
        /\ shown \in [q : Screens, ok : BOOLEAN, items : Seq(BrowseProduct), total : Nat, calm : BOOLEAN]
        /\ walk \in [page : Nat, q : Screens, seen : Seq(BrowseProduct)]
    BY <1>1, <1>2, <2>1
  <2> QED BY <1>1, <1>2, <1>3, <2>2, BrowseBounds DEF BrowseTyped
<1>5. want.page \in Nat
  BY <1>3 DEF Selections
<1>6. OnTheWay
  BY <1>1, <1>2, <1>5 DEF OnTheWay, Within
<1> QED BY <1>4, <1>6 DEF TripInv

-----------------------------------------------------------------------------
(* The listings of CatalogBrowse *)

MatchOrder(q) == {pr \in Browse!Matches(q) \X Browse!Matches(q) : Browse!Before(q.sort, pr[1], pr[2])}
MatchRank(q, p) == Rank(Browse!Matches(q), MatchOrder(q), p)
HowManyMatch(q) == Cardinality(Browse!Matches(q))
\* The matches from a place on.
Placed(s, q, low) == \A i \in 1..Len(s) : s[i] \in Browse!Matches(q) /\ MatchRank(q, s[i]) = low + i
\* A page of them.
Sliced(s, q) ==
  /\ s \in Seq(BrowseProduct) /\ Placed(s, q, (q.page - 1) * Browse!Limit(q))
  /\ HowManyMatch(q) <= (q.page - 1) * Browse!Limit(q) => Len(s) = 0
  /\ (q.page - 1) * Browse!Limit(q) <= HowManyMatch(q) /\ HowManyMatch(q) <= q.page * Browse!Limit(q)
       => Len(s) = HowManyMatch(q) - (q.page - 1) * Browse!Limit(q)
  /\ q.page * Browse!Limit(q) <= HowManyMatch(q) => Len(s) = Browse!Limit(q)

LEMMA BeforeIs ==
  ASSUME NEW p, NEW r
  PROVE  /\ Browse!Before("asc", p, r) <=> price[p] < price[r] \/ (price[p] = price[r] /\ p < r)
         /\ Browse!Before("desc", p, r) <=> price[p] > price[r] \/ (price[p] = price[r] /\ p > r)
         /\ Browse!Before("oldest", p, r) <=> p < r
         /\ Browse!Before("newest", p, r) <=> p > r
<1>1. Browse!Before("asc", p, r) <=> price[p] < price[r] \/ (price[p] = price[r] /\ p < r)
  BY DEF Browse!Before
<1>2. Browse!Before("desc", p, r) <=> price[p] > price[r] \/ (price[p] = price[r] /\ p > r)
  BY DEF Browse!Before
<1>3. Browse!Before("oldest", p, r) <=> p < r
  BY DEF Browse!Before
<1>4. Browse!Before("newest", p, r) <=> p > r
  BY DEF Browse!Before
<1> QED BY <1>1, <1>2, <1>3, <1>4

\* Every choice of the sort box is an order, ties being broken.
LEMMA BeforeOrders ==
  ASSUME NEW M, \A p \in M : p \in Int /\ price[p] \in Int, NEW sort \in Browse!Sorts,
         NEW p \in M, NEW r \in M, NEW t \in M
  PROVE  /\ ~Browse!Before(sort, p, p)
         /\ p = r \/ Browse!Before(sort, p, r) \/ Browse!Before(sort, r, p)
         /\ Browse!Before(sort, p, r) /\ Browse!Before(sort, r, t) => Browse!Before(sort, p, t)
<1>0. /\ p \in Int /\ r \in Int /\ t \in Int
      /\ price[p] \in Int /\ price[r] \in Int /\ price[t] \in Int
  OBVIOUS
<1>1. CASE sort = "asc"
  BY ONLY <1>0, <1>1, BeforeIs
<1>2. CASE sort = "desc"
  BY ONLY <1>0, <1>2, BeforeIs
<1>3. CASE sort = "oldest"
  BY ONLY <1>0, <1>3, BeforeIs
<1>4. CASE sort = "newest"
  BY ONLY <1>0, <1>4, BeforeIs
<1> QED BY <1>1, <1>2, <1>3, <1>4 DEF Browse!Sorts

LEMMA MatchesOrdered ==
  ASSUME Browse!CatalogBrowseAssumption, BrowseTyped, NEW q, q.sort \in Browse!Sorts
  PROVE  /\ Ordered(Browse!Matches(q), MatchOrder(q)) /\ Browse!Matches(q) \in SUBSET BrowseProduct
         /\ IsFiniteSet(Browse!Matches(q)) /\ HowManyMatch(q) \in Nat
         /\ \A p, r \in Browse!Matches(q) : <<p, r>> \in MatchOrder(q) <=> Browse!Before(q.sort, p, r)
<1> DEFINE M == Browse!Matches(q)
           R == MatchOrder(q)
<1>1. M \in SUBSET catalog /\ IsFiniteSet(M) /\ M \in SUBSET BrowseProduct
  BY FS_Subset DEF BrowseTyped, Browse!Matches
<1>2. Cardinality(M) \in Nat
  BY <1>1, FS_CardinalityType
<1>3. \A p \in M : p \in Int /\ price[p] \in Int
  BY <1>1, BrowseBounds DEF BrowseTyped
<1>4. \A p, r \in M : <<p, r>> \in R <=> Browse!Before(q.sort, p, r)
  BY DEF MatchOrder
<1> HIDE DEF M, R
<1>5. ASSUME NEW p \in M, NEW r \in M
      PROVE  /\ ~Browse!Before(q.sort, p, p)
             /\ p = r \/ Browse!Before(q.sort, p, r) \/ Browse!Before(q.sort, r, p)
  BY <1>3, BeforeOrders
<1>6. ASSUME NEW p \in M, NEW r \in M, NEW t \in M,
             Browse!Before(q.sort, p, r), Browse!Before(q.sort, r, t)
      PROVE  Browse!Before(q.sort, p, t)
  BY <1>3, <1>6, BeforeOrders
<1>7. Ordered(M, R)
  BY <1>1, <1>4, <1>5, <1>6 DEF Ordered
<1> QED BY <1>1, <1>2, <1>4, <1>7 DEF M, R, HowManyMatch

\* Whoever lists a set in an order gives each its place.
LEMMA ListingPlaces ==
  ASSUME NEW M, NEW R, Ordered(M, R), NEW f \in [1..Cardinality(M) -> M],
         \A i, j \in 1..Cardinality(M) : i # j => f[i] # f[j],
         \A i, j \in 1..Cardinality(M) : i < j => <<f[j], f[i]>> \notin R
  PROVE  \A i \in 1..Cardinality(M) : Rank(M, R, f[i]) = i
<1> DEFINE n == Cardinality(M)
           h(i) == Rank(M, R, f[i])
<1>0. n \in Nat /\ IsFiniteSet(M)
  BY FS_CardinalityType DEF Ordered
<1> HIDE DEF n
<1>1. ASSUME NEW i \in 1..n, NEW j \in 1..n, i < j
      PROVE  h(i) < h(j)
  <2>1. f[i] \in M /\ f[j] \in M /\ f[i] # f[j] /\ <<f[j], f[i]>> \notin R
    BY <1>0, <1>1 DEF n
  <2>2. <<f[i], f[j]>> \in R
    BY <2>1 DEF Ordered
  <2> QED BY <2>1, <2>2, RankGrows
<1>2. ASSUME NEW i \in 1..n
      PROVE  h(i) \in 1..n
  <2>1. f[i] \in M
    BY DEF n
  <2> QED BY <2>1, RankIsPlace DEF n
<1>3. ASSUME NEW p \in M, \A i \in 1..n : f[i] # p
      PROVE  FALSE
  <2>1. f \in [1..n -> M \ {p}]
    BY <1>3 DEF n
  <2>2. IsFiniteSet(M \ {p}) /\ Cardinality(M \ {p}) = n - 1
    BY <1>0, FS_RemoveElement DEF n
  <2>3. IsFiniteSet(1..n) /\ Cardinality(1..n) = n
    BY <1>0, FS_Interval
  <2>4. Cardinality(M \ {p}) < Cardinality(1..n)
    BY <1>0, <2>2, <2>3
  <2>5. \E i, j \in 1..n : i # j /\ f[i] = f[j]
    BY <2>1, <2>2, <2>3, <2>4, FS_PigeonHole
  <2> QED BY <2>5 DEF n
<1> HIDE DEF h
<1>4. SUFFICES ASSUME \E i \in 1..n : h(i) # i
               PROVE  FALSE
  BY DEF n, h
<1> DEFINE Wrong == {i \in 1..n : h(i) # i}
<1>5. Wrong \in SUBSET Nat /\ Wrong # {}
  BY <1>0, <1>4
<1>6. PICK k \in Wrong : \A m \in Wrong : k <= m
  <2> HIDE DEF Wrong
  <2> QED BY <1>5, LeastOf
<1>7. k \in 1..n /\ h(k) # k /\ \A m \in 1..n : m < k => h(m) = m
  BY <1>0, <1>6
<1>8. h(k) > k
  <2>1. CASE k = 1
    BY <1>0, <1>2, <1>7, <2>1
  <2>2. CASE k # 1
    <3>1. k - 1 \in 1..n /\ k - 1 < k
      BY <1>0, <1>7, <2>2
    <3>2. h(k - 1) = k - 1 /\ h(k - 1) < h(k) /\ h(k) \in 1..n
      BY <1>1, <1>2, <1>7, <3>1
    <3> QED BY <1>0, <1>7, <3>2
  <2> QED BY <2>1, <2>2
<1>9. PICK p \in M : Rank(M, R, p) = k
  BY <1>7, RankIsTaken DEF n
<1>10. PICK m \in 1..n : f[m] = p
  BY <1>3
<1>11. h(m) = k
  BY <1>9, <1>10 DEF h
<1>12. CASE m < k
  BY <1>0, <1>7, <1>11, <1>12
<1>13. CASE m = k
  BY <1>7, <1>11, <1>13
<1>14. CASE m > k
  <2>1. h(k) < h(m)
    BY <1>1, <1>7, <1>14
  <2> QED BY <1>0, <1>2, <1>7, <1>8, <1>11, <2>1
<1> QED BY <1>0, <1>7, <1>12, <1>13, <1>14

\* What is sliced of a listing is the page.
LEMMA ListingSliced ==
  ASSUME Browse!CatalogBrowseAssumption, BrowseTyped, NEW q \in Selections, NEW s \in Browse!Listings(q)
  PROVE  Sliced(Browse!Slice(s, q), q)
<1> DEFINE M == Browse!Matches(q)
           R == MatchOrder(q)
           n == Cardinality(M)
           L == Browse!Limit(q)
           low == (q.page - 1) * L
           high == q.page * L
           last == IF n <= high THEN n ELSE high
           t == Browse!Slice(s, q)
<1>0. q.sort \in Browse!Sorts /\ q.page \in Nat \ {0}
  BY DEF Selections
<1>1. /\ Ordered(M, R) /\ M \in SUBSET BrowseProduct /\ n \in Nat
      /\ \A p, r \in M : <<p, r>> \in R <=> Browse!Before(q.sort, p, r)
  BY <1>0, MatchesOrdered DEF HowManyMatch
<1>2. \A S : Browse!Cardinality(S) = Cardinality(S)
  BY DEF Browse!Cardinality, Cardinality
<1>3. /\ s \in [1..n -> M] /\ \A i, j \in 1..n : i # j => s[i] # s[j]
      /\ \A i, j \in DOMAIN s : i < j => ~Browse!Before(q.sort, s[j], s[i])
  <2>1. Browse!SetToSeqs(M) = {f \in [1..n -> M] : \A i, j \in 1..n : i # j => f[i] # f[j]}
    BY <1>2 DEF Browse!SetToSeqs
  <2>2. s \in Browse!SetToSeqs(M) /\ \A i, j \in DOMAIN s : i < j => ~Browse!Before(q.sort, s[j], s[i])
    BY DEF Browse!Listings
  <2> QED BY <2>1, <2>2
<1>4. L \in Nat \ {0}
  BY <1>1, TotalPagesOf
<1> HIDE DEF L
<1>5. low \in Nat /\ high \in Nat /\ high = low + L
  BY <1>0, <1>4, PagesAdjoin
<1> HIDE DEF low, high, M, R
<1>6. \A i \in 1..n : Rank(M, R, s[i]) = i /\ s[i] \in M
  <2>1. \A i, j \in 1..n : i < j => <<s[j], s[i]>> \notin R
    BY <1>1, <1>3
  <2>2. \A i \in 1..n : Rank(M, R, s[i]) = i
    BY ONLY <1>1, <1>3, <2>1, ListingPlaces
  <2> QED BY <1>3, <2>2
<1> HIDE DEF n
<1>7. s \in Seq(M) /\ Len(s) = n
  BY <1>1, <1>3
<1>8. Browse!Min({n, high}) = last
  <2>1. last \in {n, high} /\ \A y \in {n, high} : last <= y
    BY <1>1, <1>5
  <2>2. \A x \in {n, high} : (\A y \in {n, high} : x <= y) => x = last
    BY <1>1, <1>5
  <2> HIDE DEF last
  <2> QED BY ONLY <2>1, <2>2, Zenon DEF Browse!Min
<1>9. t = SubSeq(s, low + 1, last)
  BY <1>7, <1>8 DEF Browse!Slice, low, high, L
<1> HIDE DEF t
<1>10. last \in Nat /\ last <= n
  BY <1>1, <1>5
<1>11. /\ t \in Seq(M) /\ Len(t) = (IF low <= last THEN last - low ELSE 0)
       /\ \A i \in 1..Len(t) : t[i] = s[low + i] /\ low + i \in 1..n
  <2> HIDE DEF last
  <2> QED BY <1>1, <1>5, <1>7, <1>9, <1>10
<1>12. \A i \in 1..Len(t) : t[i] \in M /\ Rank(M, R, t[i]) = low + i
  BY <1>6, <1>11
<1>13. t \in Seq(BrowseProduct)
  BY <1>1, <1>11
<1>14. /\ n <= low => Len(t) = 0
       /\ low <= n /\ n <= high => Len(t) = n - low
       /\ high <= n => Len(t) = L
  BY <1>1, <1>4, <1>5, <1>11
<1> QED BY <1>12, <1>13, <1>14 DEF Sliced, Placed, MatchRank, HowManyMatch, M, R, n, L, low, high, t

\* A selection or an address with some of its fields set.
LEMMA FieldsSet ==
  ASSUME NEW A, NEW B, NEW C, NEW D, NEW E, NEW a \in A, NEW b \in B, NEW c \in C, NEW d \in D, NEW e \in E,
         NEW q \in [path : A, category : B, search : C, sort : D, page : E]
  PROVE  /\ [q EXCEPT !.category = b, !.page = e] \in [path : A, category : B, search : C, sort : D, page : E]
         /\ [q EXCEPT !.search = c, !.page = e] \in [path : A, category : B, search : C, sort : D, page : E]
         /\ [q EXCEPT !.sort = d, !.page = e] \in [path : A, category : B, search : C, sort : D, page : E]
         /\ [q EXCEPT !.path = a, !.search = c, !.page = e] \in [path : A, category : B, search : C, sort : D, page : E]
         /\ [q EXCEPT !.search = c, !.category = b, !.sort = d, !.page = e]
              \in [path : A, category : B, search : C, sort : D, page : E]
<1>1. [q EXCEPT !.category = b, !.page = e] \in [path : A, category : B, search : C, sort : D, page : E]
  OBVIOUS
<1>2. [q EXCEPT !.search = c, !.page = e] \in [path : A, category : B, search : C, sort : D, page : E]
  OBVIOUS
<1>3. [q EXCEPT !.sort = d, !.page = e] \in [path : A, category : B, search : C, sort : D, page : E]
  OBVIOUS
<1>4. [q EXCEPT !.path = a, !.search = c, !.page = e] \in [path : A, category : B, search : C, sort : D, page : E]
  OBVIOUS
<1>5. [q EXCEPT !.search = c, !.category = b, !.sort = d, !.page = e]
        \in [path : A, category : B, search : C, sort : D, page : E]
  OBVIOUS
<1> QED BY <1>1, <1>2, <1>3, <1>4, <1>5

LEMMA SelectionSet ==
  ASSUME NEW q \in Selections, NEW b \in KnownCategories, b # "none", NEW c \in {"none", "coat"},
         NEW d \in Browse!Sorts
  PROVE  /\ [q EXCEPT !.category = b, !.page = 1] \in Selections
         /\ [q EXCEPT !.search = c, !.page = 1] \in Selections
         /\ [q EXCEPT !.search = c, !.category = b, !.sort = d, !.page = 1] \in Selections
<1> DEFINE Fields == [path : Paths, category : KnownCategories, search : {"none", "coat"},
                      sort : Browse!Sorts, page : Nat \ {0}]
<1>0. q \in Fields /\ q.category # "none" /\ 1 \in Nat \ {0}
  BY DEF Selections
<1>1. /\ [q EXCEPT !.category = b, !.page = 1] \in Fields
      /\ [q EXCEPT !.search = c, !.page = 1] \in Fields
      /\ [q EXCEPT !.search = c, !.category = b, !.sort = d, !.page = 1] \in Fields
  BY <1>0, FieldsSet
<1>2. [q EXCEPT !.category = b, !.page = 1].category = b /\ [q EXCEPT !.category = b, !.page = 1].page = 1
  BY <1>0
<1>3. /\ [q EXCEPT !.search = c, !.page = 1].category = q.category
      /\ [q EXCEPT !.search = c, !.page = 1].page = 1
  BY <1>0
<1>4. /\ [q EXCEPT !.search = c, !.category = b, !.sort = d, !.page = 1].category = b
      /\ [q EXCEPT !.search = c, !.category = b, !.sort = d, !.page = 1].page = 1
  BY <1>0
<1>5. Selections = {r \in Fields : r.category # "none" /\ (r.path = "home" => r.page = 1)}
  BY DEF Selections
<1> HIDE DEF Fields
<1>6. \A r \in Fields : r.category # "none" /\ r.page = 1 => r \in Selections
  BY <1>5
<1> QED BY <1>0, <1>1, <1>2, <1>3, <1>4, <1>6

Resorted(q, d, n) == [q EXCEPT !.sort = d, !.page = n]
Researched(q, c, n) == [q EXCEPT !.path = "products", !.search = c, !.page = n]

LEMMA SelectionSorted ==
  ASSUME NEW q \in Selections, NEW d \in Browse!Sorts
  PROVE  /\ Resorted(q, d, 1) \in Selections
         /\ Resorted(q, d, 1).path = q.path
         /\ Resorted(q, d, 1).category = q.category
         /\ Resorted(q, d, 1).search = q.search
         /\ Resorted(q, d, 1).sort = d
         /\ Resorted(q, d, 1).page = 1
<1> DEFINE Fields == [path : Paths, category : KnownCategories, search : {"none", "coat"},
                      sort : Browse!Sorts, page : Nat \ {0}]
<1>0. q \in Fields /\ q.category # "none" /\ 1 \in Nat \ {0}
  BY DEF Selections
<1>1. Resorted(q, d, 1) \in Fields
  BY <1>0, FieldsSet DEF Resorted, Researched
<1>2. /\ Resorted(q, d, 1).path = q.path
      /\ Resorted(q, d, 1).category = q.category
      /\ Resorted(q, d, 1).search = q.search
      /\ Resorted(q, d, 1).sort = d
      /\ Resorted(q, d, 1).page = 1
  BY <1>0 DEF Resorted, Researched
<1> QED BY <1>0, <1>1, <1>2 DEF Selections

LEMMA SelectionSearched ==
  ASSUME NEW q \in Selections, NEW c \in {"none", "coat"}
  PROVE  /\ Researched(q, c, 1) \in Selections
         /\ Researched(q, c, 1).path = "products"
         /\ Researched(q, c, 1).category = q.category
         /\ Researched(q, c, 1).search = c
         /\ Researched(q, c, 1).sort = q.sort
         /\ Researched(q, c, 1).page = 1
<1> DEFINE Fields == [path : Paths, category : KnownCategories, search : {"none", "coat"},
                      sort : Browse!Sorts, page : Nat \ {0}]
<1>0. q \in Fields /\ q.category # "none" /\ 1 \in Nat \ {0} /\ "products" \in Paths
  BY DEF Selections, Paths
<1>1. Researched(q, c, 1) \in Fields
  BY <1>0, FieldsSet DEF Resorted, Researched
<1>2. /\ Researched(q, c, 1).path = "products"
      /\ Researched(q, c, 1).category = q.category
      /\ Researched(q, c, 1).search = c
      /\ Researched(q, c, 1).sort = q.sort
      /\ Researched(q, c, 1).page = 1
  BY <1>0 DEF Resorted, Researched
<1> QED BY <1>0, <1>1, <1>2 DEF Selections

LEMMA AddressSorted ==
  ASSUME NEW v \in Addresses, NEW srt \in {"none"} \union Browse!Sorts
  PROVE  /\ Resorted(v, srt, 0) \in Addresses
         /\ Resorted(v, srt, 0).path = v.path
         /\ Resorted(v, srt, 0).category = v.category
         /\ Resorted(v, srt, 0).search = v.search
         /\ Resorted(v, srt, 0).sort = srt /\ Resorted(v, srt, 0).page = 0
<1> DEFINE B == KnownCategories \union {"none"}
           C == {"none", "coat", "padded", "blank"} \union {u.search : u \in Landings}
           D == {"none"} \union Browse!Sorts \union {u.sort : u \in Landings}
<1>0. /\ Addresses = [path : Paths, category : B, search : C, sort : D, page : Int]
      /\ srt \in D /\ 0 \in Int
  BY DEF Addresses, Paths
<1> HIDE DEF B, C, D
<1>1. Resorted(v, srt, 0) \in Addresses
  BY <1>0, FieldsSet DEF Resorted, Researched
<1>2. /\ Resorted(v, srt, 0).path = v.path
      /\ Resorted(v, srt, 0).category = v.category
      /\ Resorted(v, srt, 0).search = v.search
      /\ Resorted(v, srt, 0).sort = srt /\ Resorted(v, srt, 0).page = 0
  BY <1>0 DEF Resorted, Researched
<1> QED BY <1>1, <1>2

LEMMA AddressSearched ==
  ASSUME NEW v \in Addresses, NEW raw \in {"coat", "padded", "blank"}
  PROVE  /\ Researched(v, raw, 0) \in Addresses
         /\ Researched(v, raw, 0).path = "products"
         /\ Researched(v, raw, 0).category = v.category
         /\ Researched(v, raw, 0).search = raw
         /\ Researched(v, raw, 0).sort = v.sort /\ Researched(v, raw, 0).page = 0
<1> DEFINE B == KnownCategories \union {"none"}
           C == {"none", "coat", "padded", "blank"} \union {u.search : u \in Landings}
           D == {"none"} \union Browse!Sorts \union {u.sort : u \in Landings}
<1>0. /\ Addresses = [path : Paths, category : B, search : C, sort : D, page : Int]
      /\ raw \in C /\ 0 \in Int /\ "products" \in Paths
  BY DEF Addresses, Paths
<1> HIDE DEF B, C, D
<1>1. Researched(v, raw, 0) \in Addresses
  BY <1>0, FieldsSet DEF Resorted, Researched
<1>2. /\ Researched(v, raw, 0).path = "products"
      /\ Researched(v, raw, 0).category = v.category
      /\ Researched(v, raw, 0).search = raw
      /\ Researched(v, raw, 0).sort = v.sort /\ Researched(v, raw, 0).page = 0
  BY <1>0 DEF Resorted, Researched
<1> QED BY <1>1, <1>2

-----------------------------------------------------------------------------
(* The visitor's steps *)

\* Every link, box and form sends for an address that is read as the change the
\* visitor made to the selection on his screen.
LEMMA VisitLeads ==
  ASSUME Browse!CatalogBrowseAssumption, TripInv, Browse!Visit
  PROVE  \E u \in Addresses, wanted \in Selections, sorting \in BOOLEAN :
           Browse!Query(u) = wanted /\ Browse!Visited(u, wanted, sorting)
<1>0. /\ url \in Addresses /\ shown.q \in Screens /\ Browse!Here = shown.q
      /\ shown.q.path # "nothing" => shown.q = Browse!Query(url)
      /\ ~pending.on => shown.q = Browse!Query(url)
  BY DEF TripInv, BrowseTyped, OnTheWay, Browse!Here
<1>1. ASSUME NEW q \in Selections, Browse!Click(Browse!Href(q), q)
      PROVE  \E u \in Addresses, wanted \in Selections, sorting \in BOOLEAN :
               Browse!Query(u) = wanted /\ Browse!Visited(u, wanted, sorting)
  BY <1>1, LinkRead DEF Browse!Click
<1>2. ASSUME Browse!Shop \/ Browse!Admin
      PROVE  shown.q \in Selections /\ shown.q = Browse!Query(url)
  <2>1. shown.q.path # "nothing"
    BY <1>0, <1>2 DEF Browse!Shop, Browse!Admin
  <2> QED BY <1>0, <2>1, QueryRead
<1>3. ASSUME Browse!Shop \/ Browse!Admin
      PROVE  /\ shown.q.path \in Paths /\ shown.q.category \in KnownCategories /\ shown.q.category # "none"
             /\ shown.q.search \in {"none", "coat"} /\ shown.q.sort \in Browse!Sorts
             /\ shown.q.page \in Nat \ {0} /\ (shown.q.path = "home" => shown.q.page = 1)
             /\ shown.q = [path |-> shown.q.path, category |-> shown.q.category,
                           search |-> shown.q.search, sort |-> shown.q.sort, page |-> shown.q.page]
  BY <1>2, <1>3 DEF Selections
<1>4. \A c \in Browse!Categories \union {"all"} : c \in KnownCategories /\ c # "none"
  BY BrowseBounds DEF KnownCategories, Browse!Categories
<1>5. ASSUME NEW c \in Browse!Categories \union {"all"}, Browse!Category(c)
      PROVE  \E q \in Selections : Browse!Click(Browse!Href(q), q)
  <2>1. Browse!Shop /\ Browse!Click(Browse!Href([shown.q EXCEPT !.category = c, !.page = 1]),
                                    [shown.q EXCEPT !.category = c, !.page = 1])
    BY <1>0, <1>5 DEF Browse!Category
  <2>2. [shown.q EXCEPT !.category = c, !.page = 1] \in Selections
    BY <1>2, <1>4, <2>1, SelectionSet DEF Browse!Sorts
  <2> QED BY <2>1, <2>2
<1>6. ASSUME Browse!RemoveSearch
      PROVE  \E q \in Selections : Browse!Click(Browse!Href(q), q)
  <2>1. Browse!Shop /\ Browse!Click(Browse!Href([shown.q EXCEPT !.search = "none", !.page = 1]),
                                    [shown.q EXCEPT !.search = "none", !.page = 1])
    BY <1>0, <1>6 DEF Browse!RemoveSearch, Browse!None
  <2>2. [shown.q EXCEPT !.search = "none", !.page = 1] \in Selections
    BY <1>2, <1>4, <2>1, SelectionSet DEF Browse!Sorts
  <2> QED BY <2>1, <2>2
<1>7. ASSUME Browse!ClearAll
      PROVE  \E q \in Selections : Browse!Click(Browse!Href(q), q)
  <2> DEFINE cleared == [shown.q EXCEPT !.search = "none", !.category = "all", !.sort = "newest", !.page = 1]
  <2>1. (Browse!Shop \/ Browse!Admin) /\ Browse!Click(Browse!Href(cleared), cleared)
    BY <1>0, <1>7 DEF Browse!ClearAll, Browse!None
  <2>2. cleared \in Selections
    BY <1>2, <1>4, <2>1, SelectionSet DEF Browse!Sorts
  <2> HIDE DEF cleared
  <2> QED BY <2>1, <2>2
<1>8. ASSUME Browse!ViewAll
      PROVE  \E q \in Selections : Browse!Click(Browse!Href(q), q)
  <2>1. Browse!Shop /\ Browse!Click(Browse!Href([shown.q EXCEPT !.path = "products"]),
                                    [shown.q EXCEPT !.path = "products"])
    BY <1>0, <1>8 DEF Browse!ViewAll
  <2>2. [shown.q EXCEPT !.path = "products"] \in Selections
    BY <1>3, <2>1 DEF Selections, Paths
  <2> QED BY <2>1, <2>2
<1>9. ASSUME Browse!NextPage
      PROVE  \E q \in Selections : Browse!Click(Browse!Href(q), q)
  <2>1. /\ Browse!Shop \/ Browse!Admin
        /\ shown.q.path # "home"
        /\ Browse!Click(Browse!Href([shown.q EXCEPT !.page = shown.q.page + 1]),
                        [shown.q EXCEPT !.page = shown.q.page + 1])
    BY <1>0, <1>3, <1>9 DEF Browse!NextPage, Browse!PageLink
  <2>2. [shown.q EXCEPT !.page = shown.q.page + 1] \in Selections
    BY <1>3, <2>1 DEF Selections
  <2> QED BY <2>1, <2>2
<1>10. ASSUME Browse!PreviousPage
       PROVE  \E q \in Selections : Browse!Click(Browse!Href(q), q)
  <2>1. /\ Browse!Shop \/ Browse!Admin
        /\ shown.q.path # "home" /\ shown.q.page > 1
        /\ Browse!Click(Browse!Href([shown.q EXCEPT !.page = shown.q.page - 1]),
                        [shown.q EXCEPT !.page = shown.q.page - 1])
    BY <1>0, <1>3, <1>10 DEF Browse!PreviousPage, Browse!PageLink
  <2>2. [shown.q EXCEPT !.page = shown.q.page - 1] \in Selections
    BY <1>3, <2>1 DEF Selections
  <2> QED BY <2>1, <2>2
<1>11. ASSUME Browse!Refresh
       PROVE  \E u \in Addresses, wanted \in Selections, sorting \in BOOLEAN :
                Browse!Query(u) = wanted /\ Browse!Visited(u, wanted, sorting)
  <2>1. ~pending.on /\ Browse!Visited(url, shown.q, FALSE)
    BY <1>0, <1>11 DEF Browse!Refresh, Browse!Settled, Browse!Click
  <2>2. shown.q = Browse!Query(url) /\ shown.q \in Selections
    BY <1>0, <2>1, QueryRead
  <2> QED BY <1>0, <2>1, <2>2
<1>12. ASSUME NEW s \in Browse!Sorts, Browse!SortBy(s)
       PROVE  \E u \in Addresses, wanted \in Selections, sorting \in BOOLEAN :
                Browse!Query(u) = wanted /\ Browse!Visited(u, wanted, sorting)
  <2> DEFINE text == IF s = "newest" THEN "none" ELSE s
             u == Resorted(url, text, 0)
             wanted == Resorted(shown.q, s, 1)
  <2>1. Browse!Shop /\ shown.q.path = "products" /\ Browse!Visited(u, wanted, TRUE)
    BY <1>0, <1>12 DEF Browse!SortBy, Browse!Sorted, Browse!None, Browse!NoPage, Resorted
  <2>2. text \in {"none"} \union Browse!Sorts
    OBVIOUS
  <2>3. /\ u \in Addresses /\ u.path = url.path /\ u.category = url.category /\ u.search = url.search
        /\ u.sort = text /\ u.page = 0
    <3> HIDE DEF text
    <3> QED BY <1>0, <2>2, AddressSorted
  <2>4. /\ wanted \in Selections /\ wanted.path = shown.q.path /\ wanted.category = shown.q.category
        /\ wanted.search = shown.q.search /\ wanted.sort = s /\ wanted.page = 1
    BY <1>2, <2>1, SelectionSorted
  <2>5. Browse!Sort(text) = s
    BY DEF Browse!Sort, Browse!Sorts
  <2> HIDE DEF u, wanted, text
  <2>6. /\ Browse!Query(u) \in Selections /\ Browse!Query(u).path = u.path
        /\ Browse!Query(u).category = (IF u.category = "none" THEN "all" ELSE u.category)
        /\ Browse!Query(u).search = Browse!Search(u.search) /\ Browse!Query(u).sort = Browse!Sort(u.sort)
        /\ u.path # "home" => Browse!Query(u).page = Browse!Page(u.page)
    BY <2>3, QueryRead
  <2>7. /\ shown.q = Browse!Query(url) /\ Browse!Query(url).path = url.path
        /\ Browse!Query(url).category = (IF url.category = "none" THEN "all" ELSE url.category)
        /\ Browse!Query(url).search = Browse!Search(url.search)
    BY <1>0, <1>2, <2>1, QueryRead
  <2>8. Browse!Page(0) = 1
    BY DEF Browse!Page
  <2>9. Browse!Query(u) = wanted
    <3>1. /\ Browse!Query(u).path = wanted.path /\ Browse!Query(u).category = wanted.category
          /\ Browse!Query(u).search = wanted.search /\ Browse!Query(u).sort = wanted.sort
          /\ Browse!Query(u).page = wanted.page
      BY <2>1, <2>3, <2>4, <2>5, <2>6, <2>7, <2>8
    <3> QED BY <2>4, <2>6, <3>1 DEF Selections
  <2> QED BY <2>1, <2>3, <2>4, <2>9
<1>13. ASSUME NEW text \in {"blank", "coat", "padded"}, Browse!SearchFor(text)
       PROVE  \E u \in Addresses, wanted \in Selections, sorting \in BOOLEAN :
                Browse!Query(u) = wanted /\ Browse!Visited(u, wanted, sorting)
  <2> DEFINE u == Researched(url, text, 0)
             wanted == Researched(shown.q, Browse!Search(text), 1)
  <2>1. Browse!Shop /\ Browse!Visited(u, wanted, FALSE)
    BY <1>0, <1>13 DEF Browse!SearchFor, Browse!Searched, Browse!Click, Browse!NoPage, Researched
  <2>2. Browse!Search(text) \in {"none", "coat"}
    BY DEF Browse!Search, Browse!None
  <2>3. /\ u \in Addresses /\ u.path = "products" /\ u.category = url.category /\ u.search = text
        /\ u.sort = url.sort /\ u.page = 0
    BY <1>0, AddressSearched
  <2>4. /\ wanted \in Selections /\ wanted.path = "products" /\ wanted.category = shown.q.category
        /\ wanted.search = Browse!Search(text) /\ wanted.sort = shown.q.sort /\ wanted.page = 1
    BY <1>2, <2>1, <2>2, SelectionSearched
  <2> HIDE DEF u, wanted
  <2>6. /\ Browse!Query(u) \in Selections /\ Browse!Query(u).path = u.path
        /\ Browse!Query(u).category = (IF u.category = "none" THEN "all" ELSE u.category)
        /\ Browse!Query(u).search = Browse!Search(u.search) /\ Browse!Query(u).sort = Browse!Sort(u.sort)
        /\ u.path # "home" => Browse!Query(u).page = Browse!Page(u.page)
    BY <2>3, QueryRead
  <2>7. /\ shown.q = Browse!Query(url) /\ Browse!Query(url).sort = Browse!Sort(url.sort)
        /\ Browse!Query(url).category = (IF url.category = "none" THEN "all" ELSE url.category)
    BY <1>0, <1>2, <2>1, QueryRead
  <2>8. Browse!Page(0) = 1
    BY DEF Browse!Page
  <2>9. Browse!Query(u) = wanted
    <3>1. /\ Browse!Query(u).path = wanted.path /\ Browse!Query(u).category = wanted.category
          /\ Browse!Query(u).search = wanted.search /\ Browse!Query(u).sort = wanted.sort
          /\ Browse!Query(u).page = wanted.page
      BY <2>3, <2>4, <2>6, <2>7, <2>8
    <3> QED BY <2>4, <2>6, <3>1 DEF Selections
  <2> QED BY <2>1, <2>3, <2>4, <2>9
<1>14. ASSUME NEW c \in Browse!Categories \union {"all"}, NEW text \in {"blank", "coat"},
              NEW s \in {"newest", "asc"}, Browse!Apply(c, text, s)
       PROVE  \E u \in Addresses, wanted \in Selections, sorting \in BOOLEAN :
                Browse!Query(u) = wanted /\ Browse!Visited(u, wanted, sorting)
  <2> DEFINE u == [path |-> "admin", category |-> c, search |-> text, sort |-> s, page |-> 0]
             wanted == [path |-> "admin", category |-> c, search |-> Browse!Search(text), sort |-> s, page |-> 1]
  <2>1. Browse!Visited(u, wanted, FALSE)
    BY <1>14 DEF Browse!Apply, Browse!Click, Browse!NoPage
  <2>2. c \in KnownCategories /\ c # "none"
    BY <1>4
  <2>3. Browse!Search(text) \in {"none", "coat"} /\ Browse!Sort(s) = s /\ s \in Browse!Sorts /\ Browse!Page(0) = 1
    BY DEF Browse!Search, Browse!None, Browse!Sort, Browse!Sorts, Browse!Page
  <2>4. u \in Addresses /\ wanted \in Selections
    BY <2>2, <2>3 DEF Addresses, Selections, Paths
  <2>5. Browse!Query(u) = wanted
    BY <2>2, <2>3 DEF Browse!Query, Browse!None
  <2> HIDE DEF u, wanted
  <2> QED BY <2>1, <2>4, <2>5
<1> QED BY <1>1, <1>5, <1>6, <1>7, <1>8, <1>9, <1>10, <1>11, <1>12, <1>13, <1>14 DEF Browse!Visit

-----------------------------------------------------------------------------
(* What is read, shown and walked through *)

\* While nobody edits, what a request has read is so still.
ReadSoFar ==
  pending.on /\ pending.calm =>
    /\ "items" \in pending.read => Sliced(pending.items, Browse!Query(pending.url))
    /\ "total" \in pending.read => pending.total = HowManyMatch(Browse!Query(pending.url))
\* The walk has seen the matches from the first on, page after page.
Walked ==
  walk.page > 0 =>
    /\ walk.q \in Selections /\ walk.q.page = 1 /\ Placed(walk.seen, walk.q, 0)
    /\ HowManyMatch(walk.q) <= walk.page * Browse!Limit(walk.q) => Len(walk.seen) = HowManyMatch(walk.q)
    /\ walk.page * Browse!Limit(walk.q) <= HowManyMatch(walk.q) => Len(walk.seen) = walk.page * Browse!Limit(walk.q)
WalkedTo ==
  ~pending.on /\ walk.page > 0 =>
    /\ walk.page = shown.q.page /\ walk.q.path = shown.q.path /\ walk.q.category = shown.q.category
    /\ walk.q.search = shown.q.search /\ walk.q.sort = shown.q.sort
    /\ shown.total = HowManyMatch(walk.q)
NotEmpty == shown.ok /\ shown.calm /\ shown.total > 0 => Len(shown.items) > 0
BrowseInv == TripInv /\ ReadSoFar /\ Walked /\ WalkedTo /\ NotEmpty

LEMMA InitBrowseInv ==
  ASSUME Browse!CatalogBrowseAssumption, Browse!Init
  PROVE  BrowseInv
<1>1. TripInv
  BY InitTripInv
<1>2. pending.read = {} /\ pending.on = TRUE /\ walk.page = 0 /\ shown.ok = FALSE
  BY DEF Browse!Init, Browse!Request, Browse!Blank, Browse!NoWalk
<1> QED BY <1>1, <1>2 DEF BrowseInv, ReadSoFar, Walked, WalkedTo, NotEmpty

\* The listings are what they were when nobody edits.
LEMMA SameListings ==
  ASSUME UNCHANGED <<catalog, price>>, NEW q, NEW s, NEW low
  PROVE  /\ HowManyMatch(q)' = HowManyMatch(q)
         /\ Placed(s, q, low)' <=> Placed(s, q, low)
         /\ Sliced(s, q)' <=> Sliced(s, q)
<1>1. Browse!Matches(q)' = Browse!Matches(q)
  BY DEF Browse!Matches
<1>2. MatchOrder(q)' = MatchOrder(q)
  BY <1>1 DEF MatchOrder, Browse!Before
<1>3. HowManyMatch(q)' = HowManyMatch(q)
  BY <1>1 DEF HowManyMatch
<1>4. \A p : MatchRank(q, p)' = MatchRank(q, p)
  BY <1>1, <1>2 DEF MatchRank
<1>5. Placed(s, q, low)' <=> Placed(s, q, low)
  BY <1>1, <1>4 DEF Placed
<1>6. Placed(s, q, (q.page - 1) * Browse!Limit(q))' <=> Placed(s, q, (q.page - 1) * Browse!Limit(q))
  BY <1>1, <1>4 DEF Placed, Browse!Limit
<1>7. Browse!Limit(q)' = Browse!Limit(q)
  BY DEF Browse!Limit
<1> QED BY <1>3, <1>5, <1>6, <1>7 DEF Sliced

\* Two pages of one selection list the same.
LEMMA SameSelection ==
  ASSUME NEW q, NEW w, q.path = w.path, q.category = w.category, q.search = w.search, q.sort = w.sort
  PROVE  /\ HowManyMatch(q) = HowManyMatch(w) /\ Browse!Limit(q) = Browse!Limit(w)
         /\ Browse!Matches(q) = Browse!Matches(w)
         /\ \A p : MatchRank(q, p) = MatchRank(w, p)
<1>1. Browse!Matches(q) = Browse!Matches(w)
  BY DEF Browse!Matches
<1>2. MatchOrder(q) = MatchOrder(w)
  BY <1>1 DEF MatchOrder
<1>3. Browse!Limit(q) = Browse!Limit(w)
  BY DEF Browse!Limit
<1> QED BY <1>1, <1>2, <1>3 DEF HowManyMatch, MatchRank

\* The walk stays what it is while nobody edits.
LEMMA WalkStays ==
  ASSUME Walked, UNCHANGED <<catalog, price, walk>>
  PROVE  Walked'
<1> SUFFICES ASSUME walk.page > 0 PROVE Walked'
  BY DEF Walked
<1>1. PICK q, s : q = walk.q /\ s = walk.seen
  OBVIOUS
<1>2. /\ HowManyMatch(q)' = HowManyMatch(q) /\ (Placed(s, q, 0)' <=> Placed(s, q, 0))
      /\ Browse!Limit(q)' = Browse!Limit(q)
  BY SameListings DEF Browse!Limit
<1>3. /\ q \in Selections /\ q.page = 1 /\ Placed(s, q, 0)
      /\ HowManyMatch(q) <= walk.page * Browse!Limit(q) => Len(s) = HowManyMatch(q)
      /\ walk.page * Browse!Limit(q) <= HowManyMatch(q) => Len(s) = walk.page * Browse!Limit(q)
  BY <1>1 DEF Walked
<1>4. Selections' = Selections
  BY DEF Selections, KnownCategories, Browse!Categories, Browse!Sorts, Paths
<1>5. walk.q' = q /\ walk.seen' = s /\ walk.page' = walk.page
  BY <1>1
<1>6. /\ Placed(s, q, 0)'
      /\ HowManyMatch(q)' <= walk.page * Browse!Limit(q)' => Len(s) = HowManyMatch(q)'
      /\ walk.page * Browse!Limit(q)' <= HowManyMatch(q)' => Len(s) = walk.page * Browse!Limit(q)'
  BY <1>2, <1>3
<1> QED BY <1>3, <1>4, <1>5, <1>6 DEF Walked

LEMMA BrowseConstants ==
  Addresses' = Addresses /\ Selections' = Selections /\ Screens' = Screens
<1>1. KnownCategories' = KnownCategories /\ Browse!Sorts' = Browse!Sorts /\ Paths' = Paths
  BY DEF KnownCategories, Browse!Categories, Browse!Sorts, Paths
<1> QED BY <1>1 DEF Addresses, Selections, Screens

LEMMA NoWalkTyped ==
  ASSUME Browse!CatalogBrowseAssumption
  PROVE  /\ Browse!NoWalk \in [page : Nat, q : Screens, seen : Seq(BrowseProduct)]
         /\ Browse!NoWalk.page = 0
<1>1. Browse!NoWalk = [page |-> 0, q |-> Browse!Nothing, seen |-> <<>>]
  BY DEF Browse!NoWalk
<1> QED BY <1>1, LandingsRead

\* Nothing of the walk is said of a walk that did not begin.
LEMMA NoWalkKept ==
  ASSUME walk' = Browse!NoWalk, Browse!CatalogBrowseAssumption
  PROVE  Walked' /\ WalkedTo'
<1>1. walk'.page = 0
  BY NoWalkTyped
<1> QED BY <1>1 DEF Walked, WalkedTo

LEMMA VisitKeeps ==
  ASSUME Browse!CatalogBrowseAssumption, BrowseInv, Browse!Visit
  PROVE  BrowseInv'
<1>0. TripInv
  BY DEF BrowseInv
<1>1. PICK u \in Addresses, wanted \in Selections, sorting \in BOOLEAN :
        Browse!Query(u) = wanted /\ Browse!Visited(u, wanted, sorting)
  BY <1>0, VisitLeads
<1>2. /\ clicks < MaxClicks /\ clicks' = clicks + 1 /\ want' = wanted
      /\ pending' = [on |-> TRUE, sorting |-> sorting, url |-> u, read |-> {}, items |-> <<>>,
                     total |-> 0, calm |-> TRUE]
      /\ UNCHANGED <<catalog, price, edits, url, shown, walk>>
  BY <1>1 DEF Browse!Visited, Browse!Request
<1>3. /\ pending'.on = TRUE /\ pending'.url = u /\ pending'.read = {}
      /\ pending' \in [on : BOOLEAN, sorting : BOOLEAN, url : Addresses, read : SUBSET {"items", "total"},
                       items : Seq(BrowseProduct), total : Nat, calm : BOOLEAN]
  BY <1>2
<1>4. BrowseTyped'
  <2>1. clicks' \in 0..MaxClicks
    BY <1>0, <1>2, BrowseBounds DEF TripInv, BrowseTyped
  <2> QED BY <1>0, <1>2, <1>3, <2>1, BrowseConstants DEF TripInv, BrowseTyped
<1>5. OnTheWay'
  <2>1. wanted.page \in Nat
    BY DEF Selections
  <2>2. /\ pending'.on /\ Browse!Query(pending'.url) = wanted /\ want' = wanted
        /\ shown' = shown /\ url' = url
    BY <1>1, <1>2, <1>3
  <2> QED BY <1>0, <2>1, <2>2 DEF TripInv, OnTheWay, Within, Browse!Query, Browse!Search, Browse!Sort, Browse!Page
<1>6. Walked'
  BY <1>2, WalkStays DEF BrowseInv
<1> QED BY <1>2, <1>3, <1>4, <1>5, <1>6 DEF BrowseInv, TripInv, ReadSoFar, WalkedTo, NotEmpty

\* Whatever is edited, no request is calm any more that is on its way, and no walk goes on.
LEMMA EditKeeps ==
  ASSUME Browse!CatalogBrowseAssumption, BrowseInv, Browse!Edit
  PROVE  BrowseInv'
<1>0. TripInv /\ BrowseTyped /\ OnTheWay
  BY DEF BrowseInv, TripInv
<1>1. /\ Browse!Edited
      /\ catalog' \in SUBSET BrowseProduct /\ IsFiniteSet(catalog') /\ price' \in [BrowseProduct -> Nat]
  <2>1. catalog \in SUBSET BrowseProduct /\ IsFiniteSet(catalog) /\ price \in [BrowseProduct -> Nat]
    BY <1>0 DEF BrowseTyped
  <2>2. PICK p \in BrowseProduct : Browse!Delete(p) \/ Browse!Create(p) \/ \E a \in Prices : Browse!Reprice(p, a)
    BY DEF Browse!Edit
  <2>3. CASE Browse!Delete(p)
    <3>1. Browse!Edited /\ catalog' = catalog \ {p} /\ price' = price
      BY <2>3 DEF Browse!Delete
    <3>2. IsFiniteSet(catalog \ {p})
      BY <2>1, FS_Subset
    <3> QED BY <2>1, <3>1, <3>2
  <2>4. CASE Browse!Create(p)
    <3>1. Browse!Edited /\ catalog' = catalog \union {p} /\ price' = price
      BY <2>4 DEF Browse!Create
    <3>2. IsFiniteSet(catalog \union {p})
      BY <2>1, FS_AddElement
    <3> QED BY <2>1, <3>1, <3>2
  <2>5. ASSUME NEW a \in Prices, Browse!Reprice(p, a)
        PROVE  /\ Browse!Edited
               /\ catalog' \in SUBSET BrowseProduct /\ IsFiniteSet(catalog') /\ price' \in [BrowseProduct -> Nat]
    <3>1. Browse!Edited /\ catalog' = catalog /\ price' = [price EXCEPT ![p] = a]
      BY <2>5 DEF Browse!Reprice
    <3>2. a \in Nat
      BY BrowseBounds
    <3> QED BY <2>1, <3>1, <3>2
  <2> QED BY <2>2, <2>3, <2>4, <2>5
<1>2. /\ edits < BrowseEdits /\ edits' = edits + 1 /\ pending' = [pending EXCEPT !.calm = ~pending.on]
      /\ walk' = Browse!NoWalk /\ UNCHANGED <<url, shown, clicks, want>>
  BY <1>1 DEF Browse!Edited
<1>3. /\ pending' \in [on : BOOLEAN, sorting : BOOLEAN, url : Addresses, read : SUBSET {"items", "total"},
                       items : Seq(BrowseProduct), total : Nat, calm : BOOLEAN]
      /\ pending'.on = pending.on /\ pending'.url = pending.url /\ pending'.calm = ~pending.on
  <2>1. pending \in [on : BOOLEAN, sorting : BOOLEAN, url : Addresses, read : SUBSET {"items", "total"},
                     items : Seq(BrowseProduct), total : Nat, calm : BOOLEAN]
    BY <1>0 DEF BrowseTyped
  <2>2. (~pending.on) \in BOOLEAN
    OBVIOUS
  <2> QED BY <1>2, <2>1, <2>2
<1>4. BrowseTyped'
  <2>1. edits' \in 0..BrowseEdits
    BY <1>0, <1>2, BrowseBounds DEF BrowseTyped
  <2> QED BY <1>0, <1>1, <1>2, <1>3, <2>1, BrowseConstants, NoWalkTyped DEF BrowseTyped
<1>5. OnTheWay'
  BY <1>0, <1>2, <1>3 DEF OnTheWay, Within, Browse!Query, Browse!Search, Browse!Sort, Browse!Page
<1>6. ReadSoFar'
  BY <1>3 DEF ReadSoFar
<1>7. Walked' /\ WalkedTo'
  BY <1>2, NoWalkKept
<1>8. NotEmpty'
  BY <1>2 DEF BrowseInv, NotEmpty
<1> QED BY <1>4, <1>5, <1>6, <1>7, <1>8 DEF BrowseInv, TripInv

\* Both statements of a request read what is there.
LEMMA ReadKeeps ==
  ASSUME Browse!CatalogBrowseAssumption, BrowseInv, Browse!ReadItems \/ Browse!ReadTotal
  PROVE  BrowseInv'
<1>0. TripInv /\ BrowseTyped /\ OnTheWay
  BY DEF BrowseInv, TripInv
<1> DEFINE Typed == [on : BOOLEAN, sorting : BOOLEAN, url : Addresses, read : SUBSET {"items", "total"},
                     items : Seq(BrowseProduct), total : Nat, calm : BOOLEAN]
<1>1. pending \in Typed /\ UNCHANGED <<catalog, price, edits, url, shown, clicks, want, walk>>
  BY <1>0 DEF BrowseTyped, Browse!ReadItems, Browse!ReadTotal
<1>2. PICK q \in Selections : q = Browse!Query(pending.url)
  BY <1>1, QueryRead
<1>3. q.sort \in Browse!Sorts
  BY DEF Selections
<1>4. /\ pending' \in Typed /\ pending'.on = pending.on /\ pending'.url = pending.url
      /\ pending'.calm = pending.calm
      /\ "items" \in pending'.read => Sliced(pending'.items, q) \/ ("items" \in pending.read /\ pending'.items = pending.items)
      /\ "total" \in pending'.read => pending'.total = HowManyMatch(q) \/ ("total" \in pending.read /\ pending'.total = pending.total)
  <2>1. CASE Browse!ReadItems
    <3>1. PICK s \in Browse!Listings(q) :
            pending' = [pending EXCEPT !.items = Browse!Slice(s, q), !.read = pending.read \union {"items"}]
      BY <1>1, <1>2, <2>1 DEF Browse!ReadItems
    <3>2. PICK t : t = Browse!Slice(s, q)
      OBVIOUS
    <3>3. Sliced(t, q) /\ t \in Seq(BrowseProduct)
      BY <1>0, <3>2, ListingSliced DEF Sliced
    <3>4. pending' = [pending EXCEPT !.items = t, !.read = pending.read \union {"items"}]
      BY <3>1, <3>2
    <3>5. pending.read \union {"items"} \in SUBSET {"items", "total"}
      BY <1>1
    <3>6. /\ pending' \in Typed /\ pending'.on = pending.on /\ pending'.url = pending.url
          /\ pending'.calm = pending.calm /\ pending'.items = t /\ pending'.total = pending.total
          /\ pending'.read = pending.read \union {"items"}
      BY ONLY <1>1, <3>3, <3>4, <3>5
    <3> HIDE DEF Typed
    <3> QED BY <3>3, <3>6
  <2>2. CASE Browse!ReadTotal
    <3>1. HowManyMatch(q) \in Nat
      BY <1>0, <1>3, MatchesOrdered
    <3>2. PICK n \in Nat : n = HowManyMatch(q)
      BY <3>1
    <3>3. \A S : Browse!Cardinality(S) = Cardinality(S)
      BY DEF Browse!Cardinality, Cardinality
    <3>4. pending' = [pending EXCEPT !.total = n, !.read = pending.read \union {"total"}]
      BY <1>1, <1>2, <2>2, <3>2, <3>3 DEF Browse!ReadTotal, HowManyMatch
    <3>5. pending.read \union {"total"} \in SUBSET {"items", "total"}
      BY <1>1
    <3>6. /\ pending' \in Typed /\ pending'.on = pending.on /\ pending'.url = pending.url
          /\ pending'.calm = pending.calm /\ pending'.items = pending.items /\ pending'.total = n
          /\ pending'.read = pending.read \union {"total"}
      BY ONLY <1>1, <3>2, <3>4, <3>5
    <3> HIDE DEF Typed
    <3> QED BY <3>2, <3>6
  <2> QED BY <2>1, <2>2
<1>5. BrowseTyped'
  <2>1. catalog' \in SUBSET BrowseProduct /\ IsFiniteSet(catalog') /\ price' \in [BrowseProduct -> Nat]
    BY <1>0, <1>1 DEF BrowseTyped
  <2> QED BY <1>0, <1>1, <1>4, <2>1, BrowseConstants DEF BrowseTyped
<1> HIDE DEF Typed
<1>6. OnTheWay'
  BY <1>0, <1>1, <1>4 DEF OnTheWay, Within, Browse!Query, Browse!Search, Browse!Sort, Browse!Page
<1>7. ReadSoFar'
  <2>1. SUFFICES ASSUME pending'.on, pending'.calm PROVE ReadSoFar'
    BY DEF ReadSoFar
  <2>2. /\ "items" \in pending.read => Sliced(pending.items, q)
        /\ "total" \in pending.read => pending.total = HowManyMatch(q)
    BY <1>2, <1>4, <2>1 DEF BrowseInv, ReadSoFar
  <2>3. PICK its, n, q1 : its = pending'.items /\ n = pending'.total /\ q1 = Browse!Query(pending'.url)
    OBVIOUS
  <2>4. q1 = q
    BY <1>2, <1>4, <2>3
  <2>5. /\ "items" \in pending'.read => Sliced(its, q1)
        /\ "total" \in pending'.read => n = HowManyMatch(q1)
    BY <1>4, <2>2, <2>3, <2>4
  <2>6. /\ Sliced(its, q1)' <=> Sliced(its, q1)
        /\ HowManyMatch(q1)' = HowManyMatch(q1)
    BY <1>1, SameListings
  <2>7. /\ "items" \in pending'.read => Sliced(its, q1)'
        /\ "total" \in pending'.read => n = HowManyMatch(q1)'
    BY <2>5, <2>6
  <2>8. Browse!Query(pending.url)' = q1
    BY <2>3 DEF Browse!Query, Browse!Search, Browse!Sort, Browse!Page, Browse!None, Browse!Sorts
  <2> QED BY <2>3, <2>7, <2>8 DEF ReadSoFar
<1>8. Walked'
  BY <1>1, WalkStays DEF BrowseInv
<1>9. WalkedTo'
  <2>1. PICK q2 : q2 = walk.q
    OBVIOUS
  <2>2. HowManyMatch(q2)' = HowManyMatch(q2)
    BY <1>1, SameListings
  <2>3. HowManyMatch(walk.q)' = HowManyMatch(walk.q)
    BY <1>1, <2>1, <2>2
  <2> QED BY <1>1, <1>4, <2>3 DEF BrowseInv, WalkedTo
<1>10. NotEmpty'
  BY <1>1 DEF BrowseInv, NotEmpty
<1> QED BY <1>5, <1>6, <1>7, <1>8, <1>9, <1>10 DEF BrowseInv, TripInv

\* Past the end the server leads to the last page of the same selection.
LEMMA RedirectKeeps ==
  ASSUME Browse!CatalogBrowseAssumption, BrowseInv, Browse!Redirect
  PROVE  BrowseInv'
<1>0. TripInv /\ BrowseTyped /\ OnTheWay
  BY DEF BrowseInv, TripInv
<1> DEFINE Typed == [on : BOOLEAN, sorting : BOOLEAN, url : Addresses, read : SUBSET {"items", "total"},
                     items : Seq(BrowseProduct), total : Nat, calm : BOOLEAN]
<1>1. pending \in Typed /\ pending.on /\ UNCHANGED <<catalog, price, edits, url, shown, clicks, want, walk>>
  BY <1>0 DEF BrowseTyped, Browse!Redirect, Browse!Read
<1>2. PICK q \in Selections : q = Browse!Query(pending.url)
  BY <1>1, QueryRead
<1>3. PICK n : n = Browse!TotalPages(pending.total, q)
  OBVIOUS
<1>4. n \in Nat \ {0}
  BY <1>1, <1>3, TotalPagesOf
<1>5. q.path # "home" /\ q.page > n
  BY <1>2, <1>3 DEF Browse!Redirect, Browse!PastTheEnd
<1>6. PICK w : w = [q EXCEPT !.page = n]
  OBVIOUS
<1>7. /\ w \in Selections /\ w.path = q.path /\ w.category = q.category /\ w.search = q.search
      /\ w.sort = q.sort /\ w.page = n
  BY <1>4, <1>5, <1>6 DEF Selections
<1>8. PICK u : u = Browse!Href(w)
  OBVIOUS
<1>9. u \in Addresses /\ Browse!Query(u) = w
  BY <1>7, <1>8, LinkRead
<1>10. pending' = Browse!Request(u, pending.sorting)
  BY <1>2, <1>3, <1>6, <1>8 DEF Browse!Redirect, Browse!LastPage
<1>11. pending' = [on |-> TRUE, sorting |-> pending.sorting, url |-> u, read |-> {}, items |-> <<>>,
                   total |-> 0, calm |-> TRUE]
  BY <1>10 DEF Browse!Request
<1>12. pending' \in Typed /\ pending'.on = TRUE /\ pending'.url = u /\ pending'.read = {}
  BY <1>1, <1>9, <1>11
<1>13. BrowseTyped'
  BY <1>0, <1>1, <1>12, BrowseConstants DEF BrowseTyped
<1> HIDE DEF Typed
<1>14. OnTheWay'
  <2>1. Within(q, want)
    BY <1>0, <1>1, <1>2 DEF OnTheWay
  <2>2. q.page \in Nat /\ want.page \in Nat
    BY <1>0 DEF Selections, BrowseTyped
  <2>3. Within(w, want)
    BY <1>4, <1>5, <1>7, <2>1, <2>2 DEF Within
  <2>4. Browse!Query(pending'.url) = w /\ pending'.on /\ shown' = shown /\ url' = url /\ want' = want
    BY <1>1, <1>9, <1>12
  <2> QED BY <1>0, <2>3, <2>4 DEF OnTheWay, Within, Browse!Query, Browse!Search, Browse!Sort, Browse!Page
<1>15. ReadSoFar'
  BY <1>12 DEF ReadSoFar
<1>16. Walked'
  BY <1>1, WalkStays DEF BrowseInv
<1>17. WalkedTo'
  BY <1>12 DEF WalkedTo
<1>18. NotEmpty'
  BY <1>1 DEF BrowseInv, NotEmpty
<1> QED BY <1>13, <1>14, <1>15, <1>16, <1>17, <1>18 DEF BrowseInv, TripInv

\* An answer, or none, settles the navigation at its address.
LEMMA Settles ==
  ASSUME Browse!CatalogBrowseAssumption, TripInv, pending.on, url' = pending.url, pending' = Browse!Answered
  PROVE  /\ pending' \in [on : BOOLEAN, sorting : BOOLEAN, url : Addresses, read : SUBSET {"items", "total"},
                          items : Seq(BrowseProduct), total : Nat, calm : BOOLEAN]
         /\ pending'.on = FALSE /\ url' \in Addresses
         /\ Browse!Query(url') \in Selections /\ Within(Browse!Query(url'), want)
<1> DEFINE Typed == [on : BOOLEAN, sorting : BOOLEAN, url : Addresses, read : SUBSET {"items", "total"},
                     items : Seq(BrowseProduct), total : Nat, calm : BOOLEAN]
<1>1. pending \in Typed
  BY DEF TripInv, BrowseTyped
<1>2. pending' = [pending EXCEPT !.on = FALSE, !.read = {}, !.items = <<>>, !.total = 0, !.calm = TRUE]
  BY DEF Browse!Answered
<1>3. <<>> \in Seq(BrowseProduct) /\ {} \in SUBSET {"items", "total"}
  OBVIOUS
<1>4. pending' \in Typed /\ pending'.on = FALSE
  BY ONLY <1>1, <1>2, <1>3
<1>5. url' \in Addresses
  BY <1>1
<1>6. Browse!Query(url') \in Selections
  BY <1>5, QueryRead
<1>7. Within(Browse!Query(url'), want)
  BY DEF TripInv, OnTheWay
<1> QED BY <1>4, <1>5, <1>6, <1>7

LEMMA FailKeeps ==
  ASSUME Browse!CatalogBrowseAssumption, BrowseInv, Browse!Fail
  PROVE  BrowseInv'
<1>0. TripInv /\ BrowseTyped /\ OnTheWay
  BY DEF BrowseInv, TripInv
<1>1. /\ pending.on /\ shown' = [Browse!Blank EXCEPT !.q = Browse!Query(pending.url)]
      /\ url' = pending.url /\ pending' = Browse!Answered /\ walk' = Browse!NoWalk
      /\ UNCHANGED <<catalog, price, edits, clicks, want>>
  BY DEF Browse!Fail
<1>2. /\ pending' \in [on : BOOLEAN, sorting : BOOLEAN, url : Addresses, read : SUBSET {"items", "total"},
                       items : Seq(BrowseProduct), total : Nat, calm : BOOLEAN]
      /\ pending'.on = FALSE /\ url' \in Addresses
      /\ Browse!Query(url') \in Selections /\ Within(Browse!Query(url'), want)
  BY <1>0, <1>1, Settles
<1>3. PICK q \in Selections : q = Browse!Query(url')
  BY <1>2
<1>4. shown' = [q |-> q, ok |-> FALSE, items |-> <<>>, total |-> 0, calm |-> TRUE]
  BY <1>1, <1>3 DEF Browse!Blank
<1>5. q \in Screens
  BY DEF Selections, Screens
<1>6. /\ shown' \in [q : Screens, ok : BOOLEAN, items : Seq(BrowseProduct), total : Nat, calm : BOOLEAN]
      /\ shown'.q = q /\ shown'.ok = FALSE
  BY <1>4, <1>5
<1>7. BrowseTyped'
  BY <1>0, <1>1, <1>2, <1>6, BrowseConstants, NoWalkTyped DEF BrowseTyped
<1>8. OnTheWay'
  <2>1. Within(q, want) /\ want' = want /\ shown'.q = q /\ pending'.on = FALSE /\ Browse!Query(url') = q
    BY <1>1, <1>2, <1>3, <1>6
  <2> QED BY <2>1 DEF OnTheWay, Within, Browse!Query, Browse!Search, Browse!Sort, Browse!Page
<1>9. ReadSoFar'
  BY <1>2 DEF ReadSoFar
<1>10. Walked' /\ WalkedTo'
  BY <1>1, NoWalkKept
<1>11. NotEmpty'
  BY <1>6 DEF NotEmpty
<1> QED BY <1>7, <1>8, <1>9, <1>10, <1>11 DEF BrowseInv, TripInv

\* A page that is shown while nobody edits is the next of the walk, or its first.
LEMMA WalkGoesOn ==
  ASSUME Browse!CatalogBrowseAssumption, BrowseInv, pending.on, pending.read = {"items", "total"},
         NEW q \in Selections, q = Browse!Query(pending.url), NEW w, w = Browse!Walked(q, pending.items)
  PROVE  /\ w \in [page : Nat, q : Screens, seen : Seq(BrowseProduct)]
         /\ w.page > 0 =>
              /\ w.page = q.page /\ w.q \in Selections /\ w.q.page = 1 /\ w.q.path = q.path
              /\ w.q.category = q.category /\ w.q.search = q.search /\ w.q.sort = q.sort
              /\ pending.total = HowManyMatch(w.q) /\ Placed(w.seen, w.q, 0)
              /\ HowManyMatch(w.q) <= w.page * Browse!Limit(w.q) => Len(w.seen) = HowManyMatch(w.q)
              /\ w.page * Browse!Limit(w.q) <= HowManyMatch(w.q) => Len(w.seen) = w.page * Browse!Limit(w.q)
<1>0. BrowseTyped /\ pending.items \in Seq(BrowseProduct) /\ walk.page \in Nat /\ walk.seen \in Seq(BrowseProduct)
  BY DEF BrowseInv, TripInv, BrowseTyped
<1>1. PICK s \in Seq(BrowseProduct) : s = pending.items
  BY <1>0
<1>2. PICK old \in Seq(BrowseProduct) : old = walk.seen
  BY <1>0
<1>3. PICK a : a = [q EXCEPT !.page = 1]
  OBVIOUS
<1>4. /\ a \in Selections /\ a.page = 1 /\ a.path = q.path /\ a.category = q.category
      /\ a.search = q.search /\ a.sort = q.sort /\ a \in Screens
  BY <1>3 DEF Selections, Screens
<1>5. PICK n, L : n = HowManyMatch(a) /\ L = Browse!Limit(a)
  OBVIOUS
<1>6. n = HowManyMatch(q) /\ L = Browse!Limit(q) /\ \A p : MatchRank(q, p) = MatchRank(a, p)
  BY <1>4, <1>5, SameSelection
<1>7. Browse!Matches(q) = Browse!Matches(a)
  BY <1>4, SameSelection
<1>8. n \in Nat /\ L \in Nat \ {0}
  <2>1. a.sort \in Browse!Sorts
    BY <1>4 DEF Selections
  <2>2. n \in Nat
    BY <1>0, <1>5, <2>1, MatchesOrdered
  <2> QED BY <1>5, <2>2, TotalPagesOf
<1>9. q.page \in Nat \ {0}
  BY DEF Selections
<1>10. PICK low, high : low = (q.page - 1) * L /\ high = q.page * L
  OBVIOUS
<1>11. low \in Nat /\ high \in Nat /\ high = low + L /\ (q.page = 1 => low = 0)
  <2>1. q.page = 1 => low = 0
    BY <1>8, <1>10
  <2>2. low \in Nat /\ high = low + L
    BY <1>8, <1>9, <1>10, PagesAdjoin
  <2> QED BY <1>8, <2>1, <2>2
<1>12. ASSUME pending.calm
       PROVE  /\ pending.total = n /\ Placed(s, q, low) /\ (n <= low => Len(s) = 0)
              /\ low <= n /\ n <= high => Len(s) = n - low
              /\ high <= n => Len(s) = L
  <2>1. Sliced(s, q) /\ pending.total = HowManyMatch(q)
    BY <1>1, <1>12 DEF BrowseInv, ReadSoFar
  <2> QED BY <1>6, <1>10, <2>1 DEF Sliced
<1>13. CASE pending.calm /\ q.page = 1
  <2>1. w = [page |-> 1, q |-> a, seen |-> s]
    BY <1>1, <1>3, <1>13 DEF Browse!Walked
  <2>2. Placed(s, a, 0)
    BY <1>6, <1>7, <1>11, <1>12, <1>13 DEF Placed
  <2>3. 1 * L = high
    BY <1>10, <1>13
  <2>4. (n <= 1 * L => Len(s) = n) /\ (1 * L <= n => Len(s) = 1 * L)
    BY <1>8, <1>11, <1>12, <1>13, <2>3
  <2>5. w.page = 1 /\ w.q = a /\ w.seen = s /\ w \in [page : Nat, q : Screens, seen : Seq(BrowseProduct)]
    BY <1>4, <2>1
  <2> QED BY <1>4, <1>5, <1>12, <1>13, <2>2, <2>4, <2>5
<1>14. CASE pending.calm /\ q.page > 1 /\ walk.page = q.page - 1 /\ walk.q = a
  <2>1. w = [walk EXCEPT !.page = q.page, !.seen = old \o s]
    BY <1>1, <1>2, <1>3, <1>9, <1>14 DEF Browse!Walked
  <2>2. PICK t : t = old \o s
    OBVIOUS
  <2>3. /\ t \in Seq(BrowseProduct) /\ Len(t) = Len(old) + Len(s)
        /\ Len(old) \in Nat /\ Len(s) \in Nat
        /\ \A i \in 1..Len(t) : t[i] = IF i <= Len(old) THEN old[i] ELSE s[i - Len(old)]
    BY ONLY old \in Seq(BrowseProduct), s \in Seq(BrowseProduct), <2>2
  <2>4. walk \in [page : Nat, q : Screens, seen : Seq(BrowseProduct)]
    BY <1>0 DEF BrowseTyped
  <2>5. /\ w.page = q.page /\ w.q = a /\ w.seen = t
        /\ w \in [page : Nat, q : Screens, seen : Seq(BrowseProduct)]
    BY <1>4, <1>9, <1>14, <2>1, <2>2, <2>3, <2>4
  <2>6. Placed(old, a, 0) /\ (n <= low => Len(old) = n) /\ (low <= n => Len(old) = low)
    BY <1>2, <1>5, <1>9, <1>10, <1>14 DEF BrowseInv, Walked
  <2>7. (n <= high => Len(t) = n) /\ (high <= n => Len(t) = high)
    <3>1. /\ n <= low => Len(s) = 0
          /\ low <= n /\ n <= high => Len(s) = n - low
          /\ high <= n => Len(s) = L
      BY <1>12, <1>14
    <3>2. PICK lt, lo, ls : lt = Len(t) /\ lo = Len(old) /\ ls = Len(s)
      OBVIOUS
    <3>3. /\ lt = lo + ls /\ (n <= low => lo = n /\ ls = 0) /\ (low <= n => lo = low)
          /\ low <= n /\ n <= high => ls = n - low
          /\ high <= n => ls = L
      BY ONLY <2>3, <2>6, <3>1, <3>2
    <3>4. (n <= high => lt = n) /\ (high <= n => lt = high)
      BY ONLY <1>8, <1>11, <3>3
    <3> QED BY <3>2, <3>4
  <2>8. ASSUME NEW i \in 1..Len(t)
        PROVE  t[i] \in Browse!Matches(a) /\ MatchRank(a, t[i]) = 0 + i
    <3>1. CASE i <= Len(old)
      <4>1. i \in 1..Len(old) /\ t[i] = old[i]
        BY <2>3, <3>1
      <4> QED BY <2>6, <4>1 DEF Placed
    <3>2. CASE ~(i <= Len(old))
      <4>1. i - Len(old) \in 1..Len(s) /\ t[i] = s[i - Len(old)]
        BY <2>3, <3>2
      <4>2. t[i] \in Browse!Matches(q) /\ MatchRank(q, t[i]) = low + (i - Len(old))
        BY <1>12, <1>14, <4>1 DEF Placed
      <4>3. Len(old) = low
        BY <1>8, <1>11, <1>12, <1>14, <2>3, <2>6, <4>1
      <4>4. low + (i - Len(old)) = 0 + i
        BY <1>11, <4>3
      <4> QED BY <1>6, <1>7, <4>2, <4>4
    <3> QED BY <3>1, <3>2
  <2>9. Placed(t, a, 0)
    BY <2>8 DEF Placed
  <2>10. w.page * L = high
    BY <1>10, <2>5
  <2> QED BY <1>4, <1>5, <1>12, <1>14, <2>5, <2>7, <2>9, <2>10
<1>15. CASE ~(pending.calm /\ q.page = 1) /\ ~(pending.calm /\ q.page > 1 /\ walk.page = q.page - 1 /\ walk.q = a)
  <2>1. w = Browse!NoWalk
    BY <1>1, <1>3, <1>15 DEF Browse!Walked
  <2> QED BY <2>1, NoWalkTyped
<1> QED BY <1>13, <1>14, <1>15

\* What is shown is the page that was read.
LEMMA ShowBrowseKeeps ==
  ASSUME Browse!CatalogBrowseAssumption, BrowseInv, Browse!Show
  PROVE  BrowseInv'
<1>0. TripInv /\ BrowseTyped /\ OnTheWay
  BY DEF BrowseInv, TripInv
<1>1. /\ pending.on /\ pending.read = {"items", "total"} /\ url' = pending.url /\ pending' = Browse!Answered
      /\ UNCHANGED <<catalog, price, edits, clicks, want>>
  BY DEF Browse!Show, Browse!Read
<1>2. /\ pending' \in [on : BOOLEAN, sorting : BOOLEAN, url : Addresses, read : SUBSET {"items", "total"},
                       items : Seq(BrowseProduct), total : Nat, calm : BOOLEAN]
      /\ pending'.on = FALSE /\ url' \in Addresses
      /\ Browse!Query(url') \in Selections /\ Within(Browse!Query(url'), want)
  BY <1>0, <1>1, Settles
<1>3. PICK q \in Selections : q = Browse!Query(url')
  BY <1>2
<1>4. q = Browse!Query(pending.url)
  BY <1>1, <1>3
<1>5. PICK w : w = Browse!Walked(q, pending.items)
  OBVIOUS
<1>6. walk' = w
  BY <1>4, <1>5 DEF Browse!Show
<1>7. w \in [page : Nat, q : Screens, seen : Seq(BrowseProduct)]
  BY <1>1, <1>4, <1>5, WalkGoesOn
<1>8. w.page > 0 =>
        /\ w.page = q.page /\ w.q \in Selections /\ w.q.page = 1 /\ w.q.path = q.path
        /\ w.q.category = q.category /\ w.q.search = q.search /\ w.q.sort = q.sort
        /\ pending.total = HowManyMatch(w.q) /\ Placed(w.seen, w.q, 0)
        /\ HowManyMatch(w.q) <= w.page * Browse!Limit(w.q) => Len(w.seen) = HowManyMatch(w.q)
        /\ w.page * Browse!Limit(w.q) <= HowManyMatch(w.q) => Len(w.seen) = w.page * Browse!Limit(w.q)
  BY <1>1, <1>4, <1>5, WalkGoesOn
<1>9. shown' = [q |-> q, ok |-> TRUE, items |-> pending.items, total |-> pending.total,
                calm |-> pending.calm]
  BY <1>4 DEF Browse!Show
<1>10. q \in Screens
  BY DEF Selections, Screens
<1>11. /\ shown' \in [q : Screens, ok : BOOLEAN, items : Seq(BrowseProduct), total : Nat, calm : BOOLEAN]
       /\ shown'.q = q /\ shown'.items = pending.items /\ shown'.total = pending.total
       /\ shown'.calm = pending.calm
  <2>1. pending.items \in Seq(BrowseProduct) /\ pending.total \in Nat /\ pending.calm \in BOOLEAN
    BY <1>0 DEF BrowseTyped
  <2>2. TRUE \in BOOLEAN
    OBVIOUS
  <2> QED BY <1>9, <1>10, <2>1, <2>2
<1>12. BrowseTyped'
  BY <1>0, <1>1, <1>2, <1>6, <1>7, <1>11, BrowseConstants DEF BrowseTyped
<1>13. OnTheWay'
  <2>1. Within(q, want) /\ want' = want /\ shown'.q = q /\ pending'.on = FALSE /\ Browse!Query(url') = q
    BY <1>1, <1>2, <1>3, <1>11
  <2> QED BY <2>1 DEF OnTheWay, Within, Browse!Query, Browse!Search, Browse!Sort, Browse!Page
<1>14. ReadSoFar'
  BY <1>2 DEF ReadSoFar
<1>15. PICK ws, wq : ws = w.seen /\ wq = w.q
  OBVIOUS
<1>16. /\ HowManyMatch(wq)' = HowManyMatch(wq)
       /\ Placed(ws, wq, 0)' <=> Placed(ws, wq, 0)
       /\ Browse!Limit(wq)' = Browse!Limit(wq)
  BY <1>1, SameListings DEF Browse!Limit
<1>17. walk'.page = w.page /\ walk'.q = wq /\ walk'.seen = ws
  BY <1>6, <1>15
<1>18. Walked'
  <2>1. SUFFICES ASSUME w.page > 0 PROVE Walked'
    BY <1>17 DEF Walked
  <2>2. /\ wq \in Selections /\ wq.page = 1 /\ Placed(ws, wq, 0)'
        /\ HowManyMatch(wq)' <= w.page * Browse!Limit(wq)' => Len(ws) = HowManyMatch(wq)'
        /\ w.page * Browse!Limit(wq)' <= HowManyMatch(wq)' => Len(ws) = w.page * Browse!Limit(wq)'
    BY <1>8, <1>15, <1>16, <2>1
  <2> QED BY <1>17, <2>2, BrowseConstants DEF Walked
<1>19. WalkedTo'
  <2>1. w.page > 0 =>
          /\ w.page = q.page /\ wq.path = q.path
          /\ wq.category = q.category /\ wq.search = q.search /\ wq.sort = q.sort
          /\ pending.total = HowManyMatch(wq)'
    BY <1>8, <1>15, <1>16
  <2>2. HowManyMatch(walk.q)' = HowManyMatch(wq)'
    BY <1>17
  <2> QED BY <1>11, <1>17, <2>1, <2>2 DEF WalkedTo
<1>20. NotEmpty'
  <2>1. SUFFICES ASSUME pending.calm, pending.total > 0 PROVE Len(pending.items) > 0
    BY <1>11 DEF NotEmpty
  <2>2. PICK n, L, s : n = HowManyMatch(q) /\ L = Browse!Limit(q) /\ s = pending.items
    OBVIOUS
  <2>3. Sliced(s, q) /\ pending.total = n
    BY <1>1, <1>4, <2>1, <2>2 DEF BrowseInv, ReadSoFar
  <2>4. n \in Nat /\ n > 0
    BY <1>0, <2>1, <2>3 DEF BrowseTyped
  <2>5. PICK T : T = Browse!TotalPages(n, q)
    OBVIOUS
  <2>6. L \in Nat \ {0} /\ T \in Nat \ {0} /\ (T - 1) * L < n
    BY <2>2, <2>4, <2>5, TotalPagesOf
  <2>7. q.page \in Nat \ {0} /\ q.page <= T
    <3>1. ~Browse!PastTheEnd
      BY DEF Browse!Show
    <3>2. q.path = "home" \/ ~(q.page > T)
      BY <1>4, <2>3, <2>5, <3>1 DEF Browse!PastTheEnd
    <3>3. q.page \in Nat \ {0} /\ (q.path = "home" => q.page = 1)
      BY DEF Selections
    <3> QED BY <2>6, <3>2, <3>3
  <2>8. PICK low, high : low = (q.page - 1) * L /\ high = q.page * L
    OBVIOUS
  <2>9. low \in Nat /\ high = low + L
    BY <2>6, <2>7, <2>8, PagesAdjoin
  <2>10. low < n
    <3>1. low <= (T - 1) * L
      <4>1. q.page - 1 \in Nat /\ T - 1 \in Nat /\ q.page - 1 <= T - 1
        BY <2>6, <2>7
      <4> QED BY <2>6, <2>8, <4>1, PagesGrow
    <3>2. (T - 1) * L \in Nat
      BY <2>6, PagesAdjoin
    <3> QED BY <2>4, <2>6, <2>9, <3>1, <3>2
  <2>11. /\ low <= n /\ n <= high => Len(s) = n - low
         /\ high <= n => Len(s) = L
    BY <2>2, <2>3, <2>8 DEF Sliced
  <2>12. CASE n <= high
    <3>1. Len(s) = n - low
      BY <2>4, <2>9, <2>10, <2>11, <2>12
    <3> QED BY <2>2, <2>4, <2>9, <2>10, <3>1
  <2>13. CASE high <= n
    <3>1. Len(s) = L
      BY <2>11, <2>13
    <3> QED BY <2>2, <2>6, <3>1
  <2> QED BY <2>4, <2>6, <2>9, <2>12, <2>13
<1> QED BY <1>12, <1>13, <1>14, <1>18, <1>19, <1>20 DEF BrowseInv, TripInv

LEMMA NextBrowseInv ==
  ASSUME Browse!CatalogBrowseAssumption, BrowseInv, Browse!Next \/ UNCHANGED Browse!vars
  PROVE  BrowseInv'
<1>1. CASE Browse!Serve
  BY <1>1, ReadKeeps, RedirectKeeps, ShowBrowseKeeps, FailKeeps DEF Browse!Serve
<1>2. CASE Browse!Visit
  BY <1>2, VisitKeeps
<1>3. CASE Browse!Edit
  BY <1>3, EditKeeps
<1>4. CASE UNCHANGED Browse!vars
  <2>1. UNCHANGED <<catalog, price, edits, url, shown, pending, clicks, want, walk>>
    BY <1>4 DEF Browse!vars
  <2>2. BrowseTyped'
    BY <2>1, BrowseConstants DEF BrowseInv, TripInv, BrowseTyped
  <2>3. OnTheWay'
    BY <2>1 DEF BrowseInv, TripInv, OnTheWay, Within, Browse!Query, Browse!Search, Browse!Sort, Browse!Page
  <2>4. Walked'
    BY <2>1, WalkStays DEF BrowseInv
  <2>5. PICK its, n, q1, q2 : its = pending.items /\ n = pending.total /\ q1 = Browse!Query(pending.url) /\ q2 = walk.q
    OBVIOUS
  <2>6. /\ Sliced(its, q1)' <=> Sliced(its, q1)
        /\ HowManyMatch(q1)' = HowManyMatch(q1) /\ HowManyMatch(q2)' = HowManyMatch(q2)
    BY <2>1, SameListings
  <2>7. Browse!Query(pending.url)' = q1 /\ pending' = pending /\ walk' = walk
    BY <2>1, <2>5 DEF Browse!Query, Browse!Search, Browse!Sort, Browse!Page, Browse!None, Browse!Sorts
  <2>8. ReadSoFar'
    BY <2>5, <2>6, <2>7 DEF BrowseInv, ReadSoFar
  <2>9. HowManyMatch(walk.q)' = HowManyMatch(walk.q)
    BY <2>5, <2>6, <2>7
  <2>10. WalkedTo'
    BY <2>1, <2>9 DEF BrowseInv, WalkedTo
  <2>11. NotEmpty'
    BY <2>1 DEF BrowseInv, NotEmpty
  <2> QED BY <2>2, <2>3, <2>4, <2>8, <2>10, <2>11 DEF BrowseInv, TripInv
<1> QED BY <1>1, <1>2, <1>3, <1>4 DEF Browse!Next

LEMMA BrowseIsTyped ==
  ASSUME Browse!CatalogBrowseAssumption, BrowseInv
  PROVE  Browse!TypeOK
<1>1. /\ catalog \in SUBSET BrowseProduct /\ edits \in 0..BrowseEdits /\ clicks \in 0..MaxClicks
      /\ pending.url \in Addresses /\ walk.seen \in Seq(BrowseProduct)
  BY DEF BrowseInv, TripInv, BrowseTyped
<1>2. PICK q \in Selections : q = Browse!Query(pending.url)
  BY <1>1, QueryRead
<1>3. /\ q.category \in Browse!Categories \union {"all"} \union {u.category : u \in Landings}
      /\ q.search \in {Browse!None, "coat"} /\ q.sort \in Browse!Sorts /\ q.page \in Nat \ {0}
  BY DEF Selections, KnownCategories, Browse!None
<1> QED BY <1>1, <1>2, <1>3 DEF Browse!TypeOK

\* The selection on the screen is the one the visitor asked for.
LEMMA WantedShown ==
  ASSUME Browse!CatalogBrowseAssumption, BrowseInv
  PROVE  Browse!WantedIsShown
<1>1. SUFFICES ASSUME ~pending.on
               PROVE  /\ [shown.q EXCEPT !.page = 1] = [want EXCEPT !.page = 1]
                      /\ shown.q.page <= want.page
  BY DEF Browse!WantedIsShown, Browse!Settled
<1>2. url \in Addresses /\ want \in Selections /\ shown.q = Browse!Query(url) /\ Within(shown.q, want)
  BY <1>1 DEF BrowseInv, TripInv, BrowseTyped, OnTheWay
<1>3. PICK q \in Selections : q = shown.q
  BY <1>2, QueryRead
<1>4. PICK w \in Selections : w = want
  BY <1>2
<1>5. /\ q = [path |-> q.path, category |-> q.category, search |-> q.search, sort |-> q.sort, page |-> q.page]
      /\ w = [path |-> w.path, category |-> w.category, search |-> w.search, sort |-> w.sort, page |-> w.page]
  BY DEF Selections
<1>6. q.path = w.path /\ q.category = w.category /\ q.search = w.search /\ q.sort = w.sort /\ q.page <= w.page
  BY <1>2, <1>3, <1>4 DEF Within
<1>7. [q EXCEPT !.page = 1] = [path |-> q.path, category |-> q.category, search |-> q.search, sort |-> q.sort, page |-> 1]
  BY <1>5
<1>8. [w EXCEPT !.page = 1] = [path |-> w.path, category |-> w.category, search |-> w.search, sort |-> w.sort, page |-> 1]
  BY <1>5
<1> QED BY <1>3, <1>4, <1>6, <1>7, <1>8

\* Whoever walked to the last page has seen what matches, in its order.
LEMMA MatchesSeenOnce ==
  ASSUME Browse!CatalogBrowseAssumption, BrowseInv
  PROVE  Browse!EveryMatchOnce
<1>1. SUFFICES ASSUME ~pending.on, walk.page > 0, shown.q.page = Browse!TotalPages(shown.total, shown.q)
               PROVE  /\ Browse!ToSet(walk.seen) = Browse!Matches(shown.q)
                      /\ Len(walk.seen) = Browse!Cardinality(Browse!Matches(shown.q))
                      /\ \A i, j \in DOMAIN walk.seen :
                           i < j => Browse!Before(shown.q.sort, walk.seen[i], walk.seen[j])
  BY DEF Browse!EveryMatchOnce, Browse!Settled
<1>2. PICK q \in Selections : q = walk.q
  BY <1>1 DEF BrowseInv, Walked
<1>3. PICK r : r = shown.q
  OBVIOUS
<1>4. /\ q.path = r.path /\ q.category = r.category /\ q.search = r.search /\ q.sort = r.sort
      /\ walk.page = r.page /\ shown.total = HowManyMatch(q)
  BY <1>1, <1>2, <1>3 DEF BrowseInv, WalkedTo
<1>5. PICK s \in Seq(BrowseProduct) : s = walk.seen
  BY DEF BrowseInv, TripInv, BrowseTyped
<1>6. PICK M, R, n, L : M = Browse!Matches(q) /\ R = MatchOrder(q) /\ n = HowManyMatch(q) /\ L = Browse!Limit(q)
  OBVIOUS
<1>7. M = Browse!Matches(r) /\ L = Browse!Limit(r)
  BY <1>4, <1>6, SameSelection
<1>8. q.sort \in Browse!Sorts /\ BrowseTyped
  BY DEF Selections, BrowseInv, TripInv
<1>9. /\ Ordered(M, R) /\ n \in Nat /\ n = Cardinality(M)
      /\ \A a, b \in M : <<a, b>> \in R <=> Browse!Before(q.sort, a, b)
  BY <1>6, <1>8, MatchesOrdered DEF HowManyMatch
<1>10. Len(s) = n
  <2>1. PICK T : T = Browse!TotalPages(n, r)
    OBVIOUS
  <2>2. n <= T * L /\ walk.page = T
    <3>1. n <= Browse!TotalPages(n, r) * Browse!Limit(r)
      BY <1>9, TotalPagesOf
    <3> QED BY <1>1, <1>3, <1>4, <1>6, <1>7, <2>1, <3>1
  <2>3. n <= walk.page * L => Len(s) = n
    BY <1>1, <1>2, <1>5, <1>6 DEF BrowseInv, Walked
  <2> QED BY <2>2, <2>3
<1>11. \A i \in 1..n : s[i] \in M /\ Rank(M, R, s[i]) = i
  <2>1. Placed(s, q, 0)
    BY <1>1, <1>2, <1>5 DEF BrowseInv, Walked
  <2>2. \A i \in 1..n : s[i] \in M /\ MatchRank(q, s[i]) = 0 + i
    BY <1>6, <1>10, <2>1 DEF Placed
  <2>3. \A p : MatchRank(q, p) = Rank(M, R, p)
    BY <1>6 DEF MatchRank
  <2>4. ASSUME NEW i \in 1..n PROVE s[i] \in M /\ Rank(M, R, s[i]) = i
    <3>1. s[i] \in M /\ Rank(M, R, s[i]) = 0 + i
      BY <2>2, <2>3
    <3> QED BY <1>9, <3>1
  <2> QED BY <2>4
<1>12. DOMAIN s = 1..n
  BY <1>10
<1>13. Browse!ToSet(s) = M
  <2>1. Browse!ToSet(s) = {s[i] : i \in 1..n}
    BY <1>12 DEF Browse!ToSet
  <2>2. ASSUME NEW p \in M PROVE \E i \in 1..n : s[i] = p
    <3>1. PICK i : i = Rank(M, R, p)
      OBVIOUS
    <3>2. i \in 1..n
      BY <1>9, <3>1, RankIsPlace
    <3>3. s[i] \in M /\ Rank(M, R, s[i]) = Rank(M, R, p)
      BY <1>11, <3>1, <3>2
    <3>4. s[i] = p
      BY <1>9, <3>3, RankIsOwn
    <3> QED BY <3>2, <3>4
  <2> QED BY <1>11, <2>1, <2>2
<1>14. ASSUME NEW i \in 1..n, NEW j \in 1..n, i < j
       PROVE  Browse!Before(q.sort, s[i], s[j])
  <2>1. s[i] \in M /\ s[j] \in M /\ Rank(M, R, s[i]) < Rank(M, R, s[j])
    BY <1>11, <1>14
  <2>2. <<s[i], s[j]>> \in R
    BY <1>9, <2>1, RankOrders
  <2> QED BY <1>9, <2>1, <2>2
<1>15. Browse!Cardinality(M) = n
  BY <1>9 DEF Browse!Cardinality, Cardinality
<1> QED BY <1>3, <1>4, <1>5, <1>7, <1>10, <1>12, <1>13, <1>14, <1>15

LEMMA PagesNotEmpty ==
  ASSUME BrowseInv
  PROVE  Browse!NoEmptyPage
<1>1. shown.items = <<>> => Len(shown.items) = 0
  OBVIOUS
<1> QED BY <1>1 DEF BrowseInv, NotEmpty, Browse!NoEmptyPage

=============================================================================
