----------------------------- MODULE SitemapWalk -----------------------------
(***************************************************************************)
(* loadSitemapProducts (client/src/lib/sitemap-products.ts): the storefront *)
(* walks the pages of a catalog that is being edited.  A product stands for *)
(* its place in the order "oldest"; one that is committed late can take a   *)
(* place before products that are already there.                           *)
(***************************************************************************)
EXTENDS Integers, FiniteSets, FiniteSetsExt, Functions

CONSTANTS
  MaxProduct,   \* products that may ever be
  PageSize,
  Concurrency,  \* PAGE_CONCURRENCY
  MaxProducts,  \* MAX_PRODUCTS
  MaxEdits      \* bound on the edits during a walk

\* What is asked of the constants.
SitemapWalkAssumption ==
  /\ MaxProduct \in Nat /\ MaxEdits \in Nat /\ MaxProducts \in Nat
  /\ PageSize \in Nat \ {0} /\ Concurrency \in Nat \ {0}

VARIABLES
  catalog,   \* the products that are there
  walk,      \* idle, first (page), pages, listed or failed
  total,     \* the first page's total, or Unknown
  loaded,    \* products by page
  asked,     \* pages under way
  before,    \* the catalog when the walk began
  removed, added  \* products that left or came since

vars == <<catalog, walk, total, loaded, asked, before, removed, added>>

Product == 1..MaxProduct
Unknown == -1
NoPage == [n \in {} |-> {}]

\* getAllProducts, sorted from the oldest: offset and limit.
PageOf(n) ==
  LET place(p) == Cardinality({q \in catalog : q <= p}) IN
  {p \in catalog : (n - 1) * PageSize < place(p) /\ place(p) <= n * PageSize}

TotalPages == (total + PageSize - 1) \div PageSize

Init ==
  /\ catalog \in SUBSET Product
  /\ walk = "idle" /\ total = Unknown
  /\ loaded = NoPage /\ asked = {}
  /\ before = {} /\ removed = {} /\ added = {}

Start ==
  /\ walk = "idle"
  /\ walk' = "first" /\ asked' = {1} /\ before' = catalog
  /\ UNCHANGED <<catalog, total, loaded, removed, added>>

\* Up to Concurrency pages; the next ones only when these have come.
BatchFrom(page) ==
  page..Min({TotalPages, page + Concurrency - 1})

\* What the walk does when all it asked for has come.
Proceed(page) ==
  /\ asked' = BatchFrom(page)
  /\ walk' = IF asked' = {} THEN "listed" ELSE "pages"

\* The first page's items and its total are two statements, in any order.
FirstItems ==
  /\ walk = "first" /\ 1 \in asked
  /\ loaded' = [n \in {1} |-> PageOf(1)]
  /\ asked' = {}
  /\ UNCHANGED <<catalog, walk, total, before, removed, added>>

FirstTotal ==
  /\ walk = "first" /\ total = Unknown
  /\ total' = Cardinality(catalog)
  /\ UNCHANGED <<catalog, walk, loaded, asked, before, removed, added>>

FirstPage ==
  /\ walk = "first" /\ asked = {} /\ total # Unknown
  /\ IF total > MaxProducts THEN walk' = "failed" /\ UNCHANGED asked ELSE Proceed(2)
  /\ UNCHANGED <<catalog, total, loaded, before, removed, added>>

Page(n) ==
  /\ walk = "pages" /\ n \in asked
  /\ loaded' = [m \in DOMAIN loaded \union {n} |-> IF m = n THEN PageOf(n) ELSE loaded[m]]
  /\ IF asked = {n} THEN Proceed(Max(DOMAIN loaded') + 1)
     ELSE asked' = asked \ {n} /\ UNCHANGED walk
  /\ UNCHANGED <<catalog, total, before, removed, added>>

\* A page that fails fails the walk: a part of a sitemap is not kept.
PageFails ==
  /\ walk \in {"first", "pages"}
  /\ walk' = "failed" /\ asked' = {}
  /\ UNCHANGED <<catalog, total, loaded, before, removed, added>>

\* createProduct and deleteProduct of ProductService, by an administrator.
Edits == Cardinality(removed \union added)
Create(p) ==
  /\ walk \in {"first", "pages"} /\ Edits < MaxEdits
  /\ p \notin catalog \union before \union added
  /\ catalog' = catalog \union {p} /\ added' = added \union {p}
  /\ UNCHANGED <<walk, total, loaded, asked, before, removed>>
Delete(p) ==
  /\ walk \in {"first", "pages"} /\ Edits < MaxEdits
  /\ p \in catalog \ added
  /\ catalog' = catalog \ {p} /\ removed' = removed \union {p}
  /\ UNCHANGED <<walk, total, loaded, asked, before, added>>

Next ==
  \/ Start \/ FirstItems \/ FirstTotal \/ FirstPage \/ PageFails
  \/ \E n \in 2..MaxProduct : Page(n)
  \/ \E p \in Product : Create(p) \/ Delete(p)

Spec == Init /\ [][Next]_vars

-----------------------------------------------------------------------------
(* Properties *)

Entries == UNION Range(loaded)

\* Map keeps an entry where it was first set; slice keeps the first entries.
Listed ==
  LET first(p) == Min({n \in DOMAIN loaded : p \in loaded[n]})
      earlier(q, p) == first(q) < first(p) \/ (first(q) = first(p) /\ q < p) IN
  {p \in Entries : Cardinality({q \in Entries : earlier(q, p)}) < MaxProducts}

TypeOK ==
  /\ catalog \subseteq Product
  /\ walk \in {"idle", "first", "pages", "listed", "failed"}
  /\ total \in {Unknown} \union 0..MaxProduct
  /\ \A n \in DOMAIN loaded : loaded[n] \subseteq Product /\ Cardinality(loaded[n]) <= PageSize
  /\ Cardinality(asked) <= Concurrency
  /\ before \subseteq Product /\ removed \subseteq before /\ added \cap before = {}

\* A product that was there all along is in the sitemap, unless one was deleted
\* during the walk, or one arrived at a place before it: pages are offsets, and
\* only these move a product between two pages.
MissesAreExplained ==
  walk = "listed" =>
    \A p \in before \ (removed \union Listed) :
      removed # {} \/ \E q \in added : q < p
=============================================================================
