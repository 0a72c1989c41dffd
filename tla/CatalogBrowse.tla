---------------------------- MODULE CatalogBrowse ----------------------------
(***************************************************************************)
(* A shopper or an administrator goes through the catalog: filters, order   *)
(* and page live in the address, the links of a page are computed on the    *)
(* server, the sort box and the search form in the browser, and products    *)
(* come, go and change their price between the statements of a request.     *)
(***************************************************************************)
EXTENDS Integers, Sequences, FiniteSets, FiniteSetsExt, SequencesExt

CONSTANTS
  Product, Initial,    \* ids that may ever be, and those there at first
  Kind, Words,         \* category of a product; products the search word finds
  Prices, FirstPrices, \* prices a product may get; those they may have at first
  HomeLimit, PageSize, \* HOME_PRODUCT_LIMIT and PRODUCT_PAGE_SIZE
  Landings,            \* addresses typed, bookmarked or shared
  MaxClicks, MaxEdits  \* bounds

\* What is asked of the constants.
CatalogBrowseAssumption ==
  /\ Product \subseteq Nat /\ Initial \subseteq Product /\ Words \subseteq Product
  /\ IsFiniteSet(Initial) /\ \A p \in Product : Kind[p] # "none"
  /\ Prices \subseteq Nat /\ FirstPrices \subseteq [Product -> Nat]
  /\ Landings # {}
  /\ \A u \in Landings :
       u \in [path : {"home", "products", "admin"}, category : {u.category},
              search : {u.search}, sort : {u.sort}, page : Int]
  /\ HomeLimit \in Nat \ {0} /\ PageSize \in Nat \ {0}
  /\ MaxClicks \in Nat /\ MaxEdits \in Nat

VARIABLES
  catalog, price, edits, \* products that are there; their prices; bound
  url,                   \* the committed address, raw
  shown,                 \* what is on the screen
  pending,               \* the navigation: on its way or not, what has been read
  clicks,                \* bound
  want,                  \* the selection the visitor has asked for
  walk                   \* products seen from page 1 on, link by link

vars == <<catalog, price, edits, url, shown, pending, clicks, want, walk>>

None == "none"
NoPage == 0  \* nor a page that is no number
Sorts == {"newest", "oldest", "asc", "desc"}
Categories == {Kind[p] : p \in Product}

-----------------------------------------------------------------------------
(* Addresses *)

\* trim: a blank search is none.
Search(raw) == IF raw \in {"coat", "padded"} THEN "coat" ELSE None
Sort(raw) == IF raw \in Sorts THEN raw ELSE "newest"
Page(raw) == IF raw > 0 THEN raw ELSE 1

\* What the server makes of an address; the home page has no pages.
Query(u) ==
  [path |-> u.path,
   category |-> IF u.category = None THEN "all" ELSE u.category,
   search |-> Search(u.search),
   sort |-> Sort(u.sort),
   page |-> IF u.path = "home" THEN 1 ELSE Page(u.page)]

\* catalogQueryString leaves out what is the default.
Href(q) ==
  [path |-> q.path,
   category |-> IF q.category = "all" THEN None ELSE q.category,
   search |-> q.search,
   sort |-> IF q.sort = "newest" THEN None ELSE q.sort,
   page |-> IF q.page = 1 THEN NoPage ELSE q.page]

-----------------------------------------------------------------------------
(* getAllProducts *)

Matches(q) ==
  {p \in catalog : /\ q.category \in {"all", Kind[p]}
                   /\ q.search = None \/ p \in Words}

\* Products are created in the order of their ids, which also break ties.
ByPrice(sort, p, r) ==
  CASE sort = "asc"    -> price[p] < price[r]
    [] sort = "desc"   -> price[p] > price[r]
    [] sort = "oldest" -> p < r
    [] sort = "newest" -> p > r
Before(sort, p, r) ==
  CASE sort = "asc"    -> price[p] < price[r] \/ (price[p] = price[r] /\ p < r)
    [] sort = "desc"   -> price[p] > price[r] \/ (price[p] = price[r] /\ p > r)
    [] sort = "oldest" -> p < r
    [] sort = "newest" -> p > r

\* An order by may list the matches in any way that agrees with it.
Listings(q) ==
  {s \in SetToSeqs(Matches(q)) :
     \A i, j \in DOMAIN s : i < j => ~Before(q.sort, s[j], s[i])}

Limit(q) == IF q.path = "home" THEN HomeLimit ELSE PageSize
Slice(s, q) ==
  SubSeq(s, (q.page - 1) * Limit(q) + 1, Min({Len(s), q.page * Limit(q)}))
TotalPages(total, q) == Max({1, (total + Limit(q) - 1) \div Limit(q)})

-----------------------------------------------------------------------------
(* Requests *)

Request(u, sorting) ==
  [on |-> TRUE, sorting |-> sorting, url |-> u, read |-> {}, items |-> <<>>, total |-> 0, calm |-> TRUE]

Nothing == [Query(CHOOSE u \in Landings : TRUE) EXCEPT !.path = "nothing"]
NoWalk == [page |-> 0, q |-> Nothing, seen |-> <<>>]
Blank == [q |-> Nothing, ok |-> FALSE, items |-> <<>>, total |-> 0, calm |-> TRUE]

Init ==
  /\ catalog = Initial /\ price \in FirstPrices /\ edits = 0
  /\ url \in Landings
  /\ pending = Request(url, FALSE)
  /\ shown = Blank /\ clicks = 0
  /\ want = Query(url) /\ walk = NoWalk

\* The items and their number are two statements, in any order.
ReadItems ==
  /\ pending.on /\ "items" \notin pending.read
  /\ LET q == Query(pending.url) IN
     \E s \in Listings(q) : pending' = [pending EXCEPT !.items = Slice(s, q), !.read = @ \union {"items"}]
  /\ UNCHANGED <<catalog, price, edits, url, shown, clicks, want, walk>>

ReadTotal ==
  /\ pending.on /\ "total" \notin pending.read
  /\ pending' = [pending EXCEPT !.total = Cardinality(Matches(Query(pending.url))),
                               !.read = @ \union {"total"}]
  /\ UNCHANGED <<catalog, price, edits, url, shown, clicks, want, walk>>

Read == pending.on /\ pending.read = {"items", "total"}

PastTheEnd ==
  LET q == Query(pending.url) IN
  q.path # "home" /\ q.page > TotalPages(pending.total, q)

LastPage == TotalPages(pending.total, Query(pending.url))

\* redirect(getPageHref(totalPages))
Redirect ==
  /\ Read /\ PastTheEnd
  /\ pending' = Request(Href([Query(pending.url) EXCEPT !.page = LastPage]), pending.sorting)
  /\ UNCHANGED <<catalog, price, edits, url, shown, clicks, want, walk>>

\* The walk goes on when this is its next page and nothing was edited since.
Walked(q, items) ==
  LET selection == [q EXCEPT !.page = 1] IN
  CASE pending.calm /\ q.page = 1 -> [page |-> 1, q |-> selection, seen |-> items]
    [] pending.calm /\ q.page > 1 /\ walk.page = q.page - 1 /\ walk.q = selection ->
         [walk EXCEPT !.page = q.page, !.seen = @ \o items]
    [] OTHER -> NoWalk

Answered == [pending EXCEPT !.on = FALSE, !.read = {}, !.items = <<>>, !.total = 0, !.calm = TRUE]
Show ==
  /\ Read /\ ~PastTheEnd
  /\ LET q == Query(pending.url) IN
     /\ shown' = [q |-> q, ok |-> TRUE, items |-> pending.items,
                  total |-> pending.total, calm |-> pending.calm]
     /\ walk' = Walked(q, pending.items)
  /\ url' = pending.url /\ pending' = Answered
  /\ UNCHANGED <<catalog, price, edits, clicks, want>>

\* The service does not answer: a notice with a button to try again.
Fail ==
  /\ pending.on
  /\ shown' = [Blank EXCEPT !.q = Query(pending.url)]
  /\ url' = pending.url /\ pending' = Answered /\ walk' = NoWalk
  /\ UNCHANGED <<catalog, price, edits, clicks, want>>

-----------------------------------------------------------------------------
(* The visitor.  What is on the screen answers until the next page commits. *)

Visited(u, wanted, sorting) ==
  /\ clicks < MaxClicks /\ clicks' = clicks + 1
  /\ pending' = Request(u, sorting) /\ want' = wanted
  /\ UNCHANGED <<catalog, price, edits, url, shown, walk>>

Click(u, wanted) == Visited(u, wanted, FALSE)

Here == shown.q
Settled == ~pending.on
Shop == Here.path \in {"home", "products"}
Admin == Here.path = "admin" /\ shown.ok

\* Links rendered with the selection of the page; without an answer there are
\* no categories but "all".
Category(c) ==
  /\ Shop /\ (shown.ok \/ c = "all")
  /\ LET q == [Here EXCEPT !.category = c, !.page = 1] IN Click(Href(q), q)
RemoveSearch ==
  /\ Shop /\ Here.search # None
  /\ LET q == [Here EXCEPT !.search = None, !.page = 1] IN Click(Href(q), q)
ClearAll ==
  /\ Shop \/ Admin
  /\ \/ Here.category # "all" \/ Here.search # None
     \/ Here.sort # "newest" /\ shown.ok /\ (Admin \/ shown.items = <<>>)
  /\ LET q == [Here EXCEPT !.search = None, !.category = "all", !.sort = "newest", !.page = 1]
     IN Click(Href(q), q)
ViewAll ==
  /\ Shop /\ Here.path = "home"
  /\ LET q == [Here EXCEPT !.path = "products"] IN Click(Href(q), q)

PageLink(n) == Href([Here EXCEPT !.page = n])
NextPage ==
  /\ Shop \/ Admin
  /\ Here.path # "home" /\ shown.ok /\ Here.page < TotalPages(shown.total, Here)
  /\ Click(PageLink(Here.page + 1), [Here EXCEPT !.page = @ + 1])
PreviousPage ==
  /\ Shop \/ Admin
  /\ Here.path # "home" /\ shown.ok
  /\ TotalPages(shown.total, Here) > 1 /\ Here.page > 1
  /\ Click(PageLink(Here.page - 1), [Here EXCEPT !.page = @ - 1])

\* handleFilter edits the parameters of the address as they are; the box is
\* disabled while its own navigation is under way.
Sorted(s) == [url EXCEPT !.sort = IF s = "newest" THEN None ELSE s, !.page = NoPage]
SortBy(s) ==
  /\ Shop /\ Here.path = "products" /\ ~(pending.on /\ pending.sorting)
  /\ Visited(Sorted(s), [Here EXCEPT !.sort = s, !.page = 1], TRUE)

\* A form that forgets the category.
SearchedAnew(text) ==
  [url EXCEPT !.path = "products", !.search = text, !.page = NoPage, !.category = None]
\* The search form carries the category and the order as hidden fields.
Searched(text) == [url EXCEPT !.path = "products", !.search = text, !.page = NoPage]
SearchFor(text) ==
  /\ Shop
  /\ Click(Searched(text),
           [Here EXCEPT !.path = "products", !.search = Search(text), !.page = 1])

\* The administrator's form sends all its fields.
Apply(c, text, s) ==
  /\ Admin
  /\ Click([path |-> "admin", category |-> c, search |-> text, sort |-> s, page |-> NoPage],
           [path |-> "admin", category |-> c, search |-> Search(text), sort |-> s, page |-> 1])

\* router.refresh, from the button.
Refresh ==
  /\ Settled /\ (~shown.ok \/ Here.path = "admin")
  /\ Click(url, Here)

-----------------------------------------------------------------------------
(* Editors *)

Edited ==
  /\ edits < MaxEdits /\ edits' = edits + 1
  /\ pending' = [pending EXCEPT !.calm = ~pending.on]
  /\ walk' = NoWalk
  /\ UNCHANGED <<url, shown, clicks, want>>

Delete(p) == Edited /\ p \in catalog /\ catalog' = catalog \ {p} /\ UNCHANGED price
Create(p) ==
  /\ Edited /\ \A r \in catalog \union Initial : p > r
  /\ catalog' = catalog \union {p} /\ UNCHANGED price
Reprice(p, amount) ==
  /\ Edited /\ p \in catalog /\ price[p] # amount
  /\ price' = [price EXCEPT ![p] = amount] /\ UNCHANGED catalog

-----------------------------------------------------------------------------

Serve == ReadItems \/ ReadTotal \/ Redirect \/ Show \/ Fail
Visit ==
  \/ \E c \in Categories \union {"all"} : Category(c)
  \/ RemoveSearch \/ ClearAll \/ ViewAll \/ NextPage \/ PreviousPage \/ Refresh
  \/ \E s \in Sorts : SortBy(s)
  \/ \E text \in {"blank", "coat", "padded"} : SearchFor(text)
  \/ \E c \in Categories \union {"all"}, text \in {"blank", "coat"}, s \in {"newest", "asc"} :
       Apply(c, text, s)
Edit == \E p \in Product : Delete(p) \/ Create(p) \/ \E a \in Prices : Reprice(p, a)

Next == Serve \/ Visit \/ Edit

Spec == Init /\ [][Next]_vars

-----------------------------------------------------------------------------
(* Properties *)

\* Sorts, searches and pages reach the service as the contract admits them, no
\* matter what the address says.
TypeOK ==
  /\ catalog \subseteq Product /\ edits \in 0..MaxEdits /\ clicks \in 0..MaxClicks
  /\ pending.on =>
       LET q == Query(pending.url) IN
       /\ q.category \in Categories \union {"all"} \union {u.category : u \in Landings}
       /\ q.search \in {None, "coat"}
       /\ q.sort \in Sorts /\ q.page \in Nat \ {0}
  /\ walk.seen \in Seq(Product)

\* Whatever the links, the sort box and the form make of the address: the
\* page that appears is the selection of the page before with the one change
\* the visitor made, or an earlier page of it when the pages have become fewer.
WantedIsShown ==
  Settled =>
    /\ [shown.q EXCEPT !.page = 1] = [want EXCEPT !.page = 1]
    /\ shown.q.page <= want.page

\* Whoever follows "Next" from the first page to the last of a catalog nobody
\* edits sees every match exactly once, in the order chosen.
EveryMatchOnce ==
  Settled /\ walk.page > 0 /\ shown.q.path # "home"
    /\ shown.q.page = TotalPages(shown.total, shown.q) =>
      /\ ToSet(walk.seen) = Matches(shown.q)
      /\ Len(walk.seen) = Cardinality(Matches(shown.q))
      /\ \A i, j \in DOMAIN walk.seen :
           i < j => Before(shown.q.sort, walk.seen[i], walk.seen[j])

\* Unless the catalog was edited during the request, a page of a selection that
\* has products is not empty: an address past the end leads back to the last page.
NoEmptyPage ==
  Settled /\ shown.ok /\ shown.calm /\ shown.total > 0 => shown.items # <<>>

\* A navigation comes to a page when the server answers: redirects do not go
\* round in circles, however many products are deleted in between.
Arriving == pending.on
=============================================================================
