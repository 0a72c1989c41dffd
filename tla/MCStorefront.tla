---------------------------- MODULE MCStorefront ----------------------------
(***************************************************************************)
(* The storefront and the reads under it, one component to a behaviour.     *)
(***************************************************************************)
EXTENDS Integers, Sequences, TLC

CONSTANTS
  \* of CheckoutAttempt
  CustomerTab, Item, Form, NoDelivery, MaxAttempts, MaxEdits,
  \* of SharedBrowser
  Account, Out, MaxCart, MaxPolls, MaxAsks, MaxSwitches, SharedEdits, MaxVisits,
  \* of PaymentForm, with MaxVisits
  Details, NothingSent, MaxFaults,
  \* of CheckoutSteps
  FormField, MaxTyped, MaxPushes, MaxMoves,
  \* of ShoppingBag
  Variant, MaxQuantity, MaxLines, MaxStock, NoTarget,
  \* of BrowserStorage
  VisitTab, PaymentTab, Key, MaxWrites,
  \* of CatalogBrowse
  BrowseProduct, Initial, Kind, Words, Prices, FirstPrices, HomeLimit, PageSize, Landings,
  MaxClicks, BrowseEdits,
  \* of ProductChoice
  Sizes, Colors, ChoiceOffers, FirstOffer, FirstStock, MaxUnits, Moving, StockMoves,
  MaxItemQuantity, NoChoice,
  \* of SitemapWalk
  MaxProduct, SitemapPage, SitemapConcurrency, MaxProducts, SitemapEdits,
  \* of OrderHistory
  MaxOrder, HistoryLimit, Shopper, Owner,
  \* of CartCheck
  Products, Versions, FirstVersion, Offers, Gone, Failure, NoReply, CheckCarts, TooLong,
  Concurrency, CatalogueEdits

\* Products of the catalog, and the addresses a visitor may come from.
MCKind == (1 :> "denim") @@ (2 :> "shoes") @@ (3 :> "denim")

At(path, category, search, sort, page) ==
  [path |-> path, category |-> category, search |-> search, sort |-> sort, page |-> page]
MCLandings ==
  {At("products", "all", "blank", "junk", -1),
   At("products", "denim", "padded", "asc", 2),
   At("products", "none", "none", "desc", 3),
   At("home", "denim", "padded", "newest", 2),
   At("admin", "all", "padded", "asc", 3)}

\* What a product may offer, and how much there is of it.
Both == [sizes |-> <<"S", "M">>, colors |-> <<"red", "blue">>]
Fewer == [sizes |-> <<"M">>, colors |-> <<"blue", "red">>]
MCStock ==
  [v \in [size : {"S", "M"}, color : {"red", "blue"}] |-> IF v.size = "S" THEN 2 ELSE 1]
MCMoving == {[size |-> "S", color |-> "red"], [size |-> "M", color |-> "blue"]}

MCOwner == [o \in 1..6 |-> IF o = 3 THEN "ben" ELSE "ann"]

\* Carts of up to four lines, most of which share products.
MCOffers == "red and blue" :> {"red", "blue"} @@ "red only" :> {"red"}
Line(product, variant) == [id |-> product, variant |-> variant]
MCCarts == {
  <<Line("tee", "red"), Line("polo", "red"), Line("tee", "blue"), Line("polo", "red")>>,
  <<Line("tee", "red"), Line("tee", "red"), Line("polo", "blue")>>,
  <<Line("tee", "red"), Line("polo", "too long")>>,
  <<Line("tee", "red"), Line("polo", "red"), Line("coat", "blue")>>}

\* What a product of each version offers, of those the browser may be sent to.
MCChoiceOffers == {Both, Fewer}
MCFirstPrices == {<<1, 1, 1>>}

Symmetry == Permutations(CustomerTab) \union Permutations(Item) \union Permutations(Variant) \union Permutations(Form)

\* The component that runs: it has the variables that its module names.
VARIABLE part
VARIABLES
  tab, used, lapsed,  \* the attempts'
  cookie, saved, memo, form, back, asks, switches, visits,  \* the shared browser's
  history, at, hasMounted, items, shippingForm, values, errors, typed, pushes, moves,
    \* the checkout steps'
  visit, provider, sync, element, filledIn, confirming, calls, held, paid, agreed, faults,
    \* the payment form's
  requested, target, stock, found,  \* the bag's
  memory, unavailable, writes, latest,  \* the storage's
  price, url, clicks, want,  \* the catalogue's
  offer, stocks, address, nav, view, product, selected, answered, available
  , requestedQuantity,  \* the product page's
  total, loaded, removed,  \* the sitemap's
  orders, hasNext,  \* the order history's
  was, is, nextIndex, working, results, outcome,  \* the cart check's
  disk,  \* the attempts', the bag's and the storage's
  sent, session,  \* the attempts' and the shared browser's
  edits,  \* the attempts', the shared browser's, the catalogue's and the cart check's
  seen,  \* the shared browser's and the order history's
  cart,  \* the shared browser's, the bag's and the cart check's
  page,  \* the shared browser's, the payment form's and the order history's
  pending,  \* the checkout steps', the catalogue's and the product page's
  shown,  \* the payment form's, the bag's, the catalogue's and the order history's
  answer,  \* the storage's and the cart check's
  catalog, walk,  \* the catalogue's and the sitemap's
  asked,  \* the product page's, the sitemap's and the cart check's
  added,  \* the product page's and the sitemap's
  before  \* the sitemap's and the order history's

all ==
  <<part, tab, used, lapsed, cookie, saved, memo, form, back, asks, switches, visits
    , history, at, hasMounted, items, shippingForm, values, errors, typed, pushes, moves
    , visit, provider, sync, element, filledIn, confirming, calls, held, paid, agreed
    , faults, requested, target, stock, found, memory, unavailable, writes, latest, price
    , url, clicks, want, offer, stocks, address, nav, view, product, selected, answered
    , available, requestedQuantity, total, loaded, removed, orders, hasNext, was, is
    , nextIndex, working, results, outcome, disk, sent, session, edits, seen, cart, page
    , pending, shown, answer, catalog, walk, asked, added, before>>

Tabs == INSTANCE CheckoutAttempt WITH Tab <- CustomerTab, NoForm <- NoDelivery
Shared == INSTANCE SharedBrowser WITH MaxEdits <- SharedEdits
Steps == INSTANCE CheckoutSteps WITH Field <- FormField
PayForm == INSTANCE PaymentForm WITH Nothing <- NothingSent
Bag == INSTANCE ShoppingBag
Storage == INSTANCE BrowserStorage WITH Visit <- VisitTab, Checkout <- PaymentTab
Browse == INSTANCE CatalogBrowse WITH Product <- BrowseProduct, MaxEdits <- BrowseEdits
Choice == INSTANCE ProductChoice WITH Offers <- ChoiceOffers, MaxMoves <- StockMoves
Sitemap == INSTANCE SitemapWalk WITH
  PageSize <- SitemapPage, Concurrency <- SitemapConcurrency, MaxEdits <- SitemapEdits
History == INSTANCE OrderHistory WITH Limit <- HistoryLimit
Check == INSTANCE CartCheck WITH
  Unanswered <- NoReply, Carts <- CheckCarts, MaxEdits <- CatalogueEdits

ASSUME StorefrontAssumption ==
  /\ Tabs!CheckoutAttemptAssumption
  /\ Shared!SharedBrowserAssumption
  /\ Steps!CheckoutStepsAssumption
  /\ PayForm!PaymentFormAssumption
  /\ Bag!ShoppingBagAssumption
  /\ Storage!BrowserStorageAssumption
  /\ Browse!CatalogBrowseAssumption
  /\ Choice!ChoiceAssumption
  /\ Sitemap!SitemapWalkAssumption
  /\ History!OrderHistoryAssumption
  /\ Check!CartAssumption

-----------------------------------------------------------------------------
(* One component to a behaviour.  What it has no name for stays Unused.      *)

Unused == "unused"

\* A behaviour of part p begins.
Begin(p) ==
  /\ part = p
  /\ p # "attempt" =>
       tab = Unused /\ used = Unused /\ lapsed = Unused
  /\ p # "shared" =>
       cookie = Unused /\ saved = Unused /\ memo = Unused /\ form = Unused /\ back = Unused
       /\ asks = Unused /\ switches = Unused /\ visits = Unused
  /\ p # "steps" =>
       history = Unused /\ at = Unused /\ hasMounted = Unused /\ items = Unused
       /\ shippingForm = Unused /\ values = Unused /\ errors = Unused /\ typed = Unused
       /\ pushes = Unused /\ moves = Unused
  /\ p # "form" =>
       visit = Unused /\ provider = Unused /\ sync = Unused /\ element = Unused
       /\ filledIn = Unused /\ confirming = Unused /\ calls = Unused /\ held = Unused
       /\ paid = Unused /\ agreed = Unused /\ faults = Unused
  /\ p # "bag" =>
       requested = Unused /\ target = Unused /\ stock = Unused /\ found = Unused
  /\ p # "storage" =>
       memory = Unused /\ unavailable = Unused /\ writes = Unused /\ latest = Unused
  /\ p # "browse" =>
       price = Unused /\ url = Unused /\ clicks = Unused /\ want = Unused
  /\ p # "choice" =>
       offer = Unused /\ stocks = Unused /\ address = Unused /\ nav = Unused
       /\ view = Unused /\ product = Unused /\ selected = Unused /\ answered = Unused
       /\ available = Unused /\ requestedQuantity = Unused
  /\ p # "sitemap" =>
       total = Unused /\ loaded = Unused /\ removed = Unused
  /\ p # "history" =>
       orders = Unused /\ hasNext = Unused
  /\ p # "cart" =>
       was = Unused /\ is = Unused /\ nextIndex = Unused /\ working = Unused
       /\ results = Unused /\ outcome = Unused
  /\ p \notin {"attempt", "bag", "storage"} => disk = Unused
  /\ p \notin {"attempt", "shared"} => sent = Unused /\ session = Unused
  /\ p \notin {"attempt", "shared", "browse", "cart"} => edits = Unused
  /\ p \notin {"shared", "history"} => seen = Unused
  /\ p \notin {"shared", "bag", "cart"} => cart = Unused
  /\ p \notin {"shared", "form", "history"} => page = Unused
  /\ p \notin {"steps", "browse", "choice"} => pending = Unused
  /\ p \notin {"form", "bag", "browse", "history"} => shown = Unused
  /\ p \notin {"storage", "cart"} => answer = Unused
  /\ p \notin {"browse", "sitemap"} => catalog = Unused /\ walk = Unused
  /\ p \notin {"choice", "sitemap", "cart"} => asked = Unused
  /\ p \notin {"choice", "sitemap"} => added = Unused
  /\ p \notin {"sitemap", "history"} => before = Unused

\* A step of part p.
In(p) ==
  /\ part = p /\ part' = p
  /\ p # "attempt" => UNCHANGED <<tab, used, lapsed>>
  /\ p # "shared" => UNCHANGED <<cookie, saved, memo, form, back, asks, switches, visits>>
  /\ p # "steps" => UNCHANGED <<history, at, hasMounted, items, shippingForm, values
       , errors, typed, pushes, moves>>
  /\ p # "form" => UNCHANGED <<visit, provider, sync, element, filledIn, confirming, calls
       , held, paid, agreed, faults>>
  /\ p # "bag" => UNCHANGED <<requested, target, stock, found>>
  /\ p # "storage" => UNCHANGED <<memory, unavailable, writes, latest>>
  /\ p # "browse" => UNCHANGED <<price, url, clicks, want>>
  /\ p # "choice" => UNCHANGED <<offer, stocks, address, nav, view, product, selected
       , answered, available, requestedQuantity>>
  /\ p # "sitemap" => UNCHANGED <<total, loaded, removed>>
  /\ p # "history" => UNCHANGED <<orders, hasNext>>
  /\ p # "cart" => UNCHANGED <<was, is, nextIndex, working, results, outcome>>
  /\ p \notin {"attempt", "bag", "storage"} => UNCHANGED disk
  /\ p \notin {"attempt", "shared"} => UNCHANGED <<sent, session>>
  /\ p \notin {"attempt", "shared", "browse", "cart"} => UNCHANGED edits
  /\ p \notin {"shared", "history"} => UNCHANGED seen
  /\ p \notin {"shared", "bag", "cart"} => UNCHANGED cart
  /\ p \notin {"shared", "form", "history"} => UNCHANGED page
  /\ p \notin {"steps", "browse", "choice"} => UNCHANGED pending
  /\ p \notin {"form", "bag", "browse", "history"} => UNCHANGED shown
  /\ p \notin {"storage", "cart"} => UNCHANGED answer
  /\ p \notin {"browse", "sitemap"} => UNCHANGED <<catalog, walk>>
  /\ p \notin {"choice", "sitemap", "cart"} => UNCHANGED asked
  /\ p \notin {"choice", "sitemap"} => UNCHANGED added
  /\ p \notin {"sitemap", "history"} => UNCHANGED before

Init ==
  \/ Begin("attempt") /\ Tabs!Init
  \/ Begin("shared") /\ Shared!Init
  \/ Begin("steps") /\ Steps!Init
  \/ Begin("form") /\ PayForm!Init
  \/ Begin("bag") /\ Bag!Init
  \/ Begin("storage") /\ Storage!Init
  \/ Begin("browse") /\ Browse!Init
  \/ Begin("choice") /\ Choice!Init
  \/ Begin("sitemap") /\ Sitemap!Init
  \/ Begin("history") /\ History!Init
  \/ Begin("cart") /\ Check!Init

TabsStep == In("attempt") /\ Tabs!Next
SharedStep == In("shared") /\ Shared!Next
StepsStep == In("steps") /\ Steps!Next
PayFormStep == In("form") /\ PayForm!Next
BagStep == In("bag") /\ Bag!Next
StorageStep == In("storage") /\ Storage!Next
BrowseStep == In("browse") /\ Browse!Next
ChoiceStep == In("choice") /\ Choice!Next
SitemapStep == In("sitemap") /\ Sitemap!Next
HistoryStep == In("history") /\ History!Next
CheckStep == In("cart") /\ Check!Next

Next ==
  \/ TabsStep \/ SharedStep \/ StepsStep \/ PayFormStep \/ BagStep \/ StorageStep
  \/ BrowseStep \/ ChoiceStep \/ SitemapStep \/ HistoryStep \/ CheckStep

Spec == Init /\ [][Next]_all

-----------------------------------------------------------------------------
(* Properties: each conjunct is stated and explained in its component's module *)

\* The variables of each component have their types.
StorefrontTypes ==
  /\ part = "attempt" => Tabs!TypeOK
  /\ part = "shared" => Shared!TypeOK
  /\ part = "steps" => Steps!TypeOK
  /\ part = "form" => PayForm!TypeOK
  /\ part = "bag" => Bag!TypeOK
  /\ part = "storage" => Storage!TypeOK
  /\ part = "browse" => Browse!TypeOK
  /\ part = "choice" => Choice!TypeOK
  /\ part = "sitemap" => Sitemap!TypeOK
  /\ part = "history" => History!TypeOK
  /\ part = "cart" => Check!TypeOK

\* No account is shown the payment form or the payment of another.
OneAccountsOwn ==
  /\ part = "shared" => Shared!FormIsForItsAccount /\ Shared!PaymentShownToItsBuyer

\* What a visitor chose is what he gets, in the bag, in the cart that is checked,
\* on the page of the catalog and when he goes back.
ChoiceIsHonoured ==
  /\ part = "choice" => Choice!AddedWasThere
  /\ part = "browse" => Browse!WantedIsShown
  /\ part = "steps" => Steps!BackLeaves
  /\ part = "cart" =>
       Check!ResolvedIsWhole /\ Check!OneVersionPerProduct /\ Check!RefusedForCause

\* Nobody who goes through pages to the last misses an item, however the items
\* change on the way, but for the causes the components name.
NothingIsMissed ==
  /\ part = "browse" => Browse!EveryMatchOnce /\ Browse!NoEmptyPage
  /\ part = "sitemap" => Sitemap!MissesAreExplained
  /\ part = "history" => History!HistoryIsComplete /\ History!OfferedPageHasOrders

\* Nobody pays twice for one cart; he pays for what he was shown, a tab gives up its
\* copy of the cart only if that copy was paid for, and only the account that paid
\* loses one.
PaymentIsRight ==
  /\ part = "attempt" => Tabs!NotPaidTwice
  /\ part = "form" => PayForm!PaidAsShown /\ PayForm!OneCallAtATime
PaidOnceAsShown ==
  [][/\ PaymentIsRight'
     /\ part = "attempt" => Tabs!ClearedCopyWasPaid /\ Tabs!PaidWithTheDetailsShown
     /\ part = "shared" => Shared!CartLeavesWithItsBuyer]_all

\* What the visitor put in the bag, typed, or chose is there after reloads until he
\* has paid, and while storage fails, and nothing older ever takes its place.
KeptIsReadable ==
  /\ part = "bag" => Bag!ReloadKeepsTheBag
  /\ part = "storage" => Storage!AnswersAreLatest
NothingIsForgotten ==
  [][/\ KeptIsReadable'
     /\ part = "steps" => Steps!ReloadKeepsDetails
     /\ part = "storage" => Storage!NeverAnOlderValue /\ Storage!CheckoutKeepsItsIdentity
     /\ part = "bag" => Bag!AddsWhatIsShown
     /\ part = "choice" => Choice!OtherChoiceStays]_all
=============================================================================
