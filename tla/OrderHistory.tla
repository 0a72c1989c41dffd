----------------------------- MODULE OrderHistory -----------------------------
(***************************************************************************)
(* OrderService.list (order-service) and the storefront's orders page: a    *)
(* shopper goes from page to page of a history that grows meanwhile.  An    *)
(* order stands for its place by createdAt and _id; the projection of       *)
(* Kafka's records may insert one that is older than others.                *)
(***************************************************************************)
EXTENDS Integers, FiniteSets

CONSTANTS
  MaxOrder,   \* orders that may ever be
  Limit,      \* orders of a page
  Shopper, Owner

\* What is asked of the constants.
OrderHistoryAssumption ==
  MaxOrder \in Nat \ {0} /\ Limit \in Nat \ {0} /\ Owner \in [1..MaxOrder -> Shopper]

VARIABLES
  orders,   \* the projected orders
  page,     \* of each shopper: the page shown, or 0
  shown,    \* the orders on it
  hasNext,  \* it offers a next page
  seen,     \* the orders shown since the first page
  before    \* the shopper's orders when the first page was shown

vars == <<orders, page, shown, hasNext, seen, before>>

Order == 1..MaxOrder
Of(s) == {o \in orders : Owner[o] = s}

Init ==
  /\ orders \in SUBSET Order
  /\ page = [s \in Shopper |-> 0]
  /\ shown = [s \in Shopper |-> {}]
  /\ hasNext = [s \in Shopper |-> FALSE]
  /\ seen = [s \in Shopper |-> {}]
  /\ before = [s \in Shopper |-> {}]

\* find, sort newest first, skip, and one more than the page.
Found(s, n) ==
  LET place(o) == Cardinality({p \in Of(s) : p >= o}) IN
  {o \in Of(s) : (n - 1) * Limit < place(o) /\ place(o) <= n * Limit + 1}

HasNextPage(found) == Cardinality(found) > Limit

FirstOf(found) ==
  {o \in found : Cardinality({p \in found : p >= o}) <= Limit}

Show(s, n) ==
  LET found == Found(s, n) IN
  /\ page' = [page EXCEPT ![s] = n]
  /\ shown' = [shown EXCEPT ![s] = FirstOf(found)]
  /\ hasNext' = [hasNext EXCEPT ![s] = HasNextPage(found)]
  /\ seen' = [seen EXCEPT ![s] = FirstOf(found) \union IF n = 1 THEN {} ELSE @]
  /\ before' = IF n = 1 THEN [before EXCEPT ![s] = Of(s)] ELSE before
  /\ UNCHANGED orders

Open(s) == Show(s, 1)
PreviousPage(s) == page[s] > 1 /\ Show(s, page[s] - 1)
NextPage(s) == hasNext[s] /\ Show(s, page[s] + 1)

\* The order consumer's upsert; an order is never deleted.
Project(o) ==
  /\ o \notin orders
  /\ orders' = orders \union {o}
  /\ UNCHANGED <<page, shown, hasNext, seen, before>>

Next ==
  \/ \E s \in Shopper : Open(s) \/ PreviousPage(s) \/ NextPage(s)
  \/ \E o \in Order : Project(o)

Spec == Init /\ [][Next]_vars

-----------------------------------------------------------------------------
(* Properties *)

TypeOK ==
  /\ orders \subseteq Order
  /\ page \in [Shopper -> 0..MaxOrder]
  /\ \A s \in Shopper : shown[s] \subseteq seen[s] /\ Cardinality(shown[s]) <= Limit
  /\ hasNext \in [Shopper -> BOOLEAN]
  /\ seen \in [Shopper -> SUBSET orders] /\ before \in [Shopper -> SUBSET orders]

\* A shopper who follows the pages to the last has seen every order there was
\* when the first was shown, whatever is projected on the way: new orders only
\* push the others to later pages, and the last page is found by looking.
HistoryIsComplete ==
  \A s \in Shopper : page[s] > 0 /\ ~hasNext[s] => before[s] \subseteq seen[s]

\* The page a shopper was offered is never an empty one.
OfferedPageHasOrders == \A s \in Shopper : page[s] > 1 => shown[s] # {}
=============================================================================
