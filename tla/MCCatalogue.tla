---------------------------- MODULE MCCatalogue ----------------------------
(***************************************************************************)
(* The catalogue, its administration and what follows it, one component to  *)
(* a behaviour.                                                             *)
(***************************************************************************)
EXTENDS Naturals, TLC

CONSTANTS
  \* of CatalogConsole
  ShownProduct, ShownCategory, PageWrites, MaxRefreshes,
  \* of ProductForm
  Plain, AddressLike, WithEquals, Address, Odd, Broken, NotText, Null, Stem, FormRows, MaxPrice,
  FormEdits,
  \* of StockConsole
  Size, MaxCount, DefaultCount, StockChanges,
  \* of AdminReports
  Purchases, Users, UserOf, ActivityWindow, OrderWindow, FeedEvents, ListLimit, Pages,
  NoPurchase,
  \* of ThemeTabs
  Tabs, Nobody, MaxWrites, MaxTurns,
  \* of ProductOutbox
  Product, Variant, Admin, Replica, MaxEvents, MaxEdits, MaxFaults,
  \* of StripeCatalog, its categories the outbox's too
  Worker, Amount, Category, MaxChanges, MaxRepeats, MaxRenames, StripeFaults,
  \* of CatalogSeed
  Seeds, OtherNames, OtherSlugs, MaxRuns, SeedFaults, SeedEdits

\* Every purchase is of one customer.
MCUserOf == [p \in Purchases |-> "ann"]

MCSeeds == <<[name |-> "tee", slug |-> "shirts"], [name |-> "coat", slug |-> "outerwear"],
             [name |-> "polo", slug |-> "shirts"]>>

MCRows ==
  {[price |-> 1, colors |-> <<"black", "white">>, images |-> "black" :> "/p" @@ "white" :> "/q"],
   [price |-> 1, colors |-> <<"black", "null">>, images |-> "black" :> "my pic" @@ "white" :> "number"],
   [price |-> 1, colors |-> <<"/sky", "black">>, images |-> "/sky" :> "/p" @@ "black" :> "/q"],
   [price |-> 1, colors |-> <<"x=y">>, images |-> "x=y" :> "/p" @@ "white" :> "/q"]}

Symmetry == Permutations(Admin) \union Permutations(Category) \union Permutations(Replica)

\* The component that runs: it has the variables that its module names.
VARIABLE part
VARIABLES
  catalog, sheet, call, refreshes, confirmed,  \* the console's
  row, added, removed,  \* the form's
  offers, size, draft, open, step, reading, typed, behind, changes,  \* the stock panel's
  made, enqueued, paid, published, orders, feed, arrived, page, got, activities, orderList,
  recentEvents,  \* the reports'
  denied, author, unsaved, prefers, turns, mounted, theme, applied, news, turned,  \* the theme's
  product, outbox, sent, relay,  \* the outbox's
  source, hints, budget, stripe, price, run, lock,  \* the Stripe product's
  slugs, silent, at, todo, next, ended, calm, runs,  \* the seed job's
  form,   \* the console's and the form's
  shown, writes, \* the console's and the theme's
  opened, \* the form's and the reports'
  stock, request, \* the stock panel's and the outbox's
  rows, \* the stock panel's and the seed job's
  known, \* the reports' and the seed job's
  stored, \* the theme's and the seed job's
  edits, \* the form's, the outbox's and the seed job's
  faults \* the outbox's and the seed job's

all ==
  <<part, catalog, sheet, call, refreshes, confirmed, row, added, removed, offers, size,
    draft, open, step, reading, typed, behind, changes, made, enqueued, paid, published,
    orders, feed, arrived, page, got, activities, orderList, recentEvents, denied, author,
    unsaved, prefers, turns, mounted, theme, applied, news, turned, product, outbox, sent,
    relay, source, hints, budget, stripe, price, run, lock, slugs, silent, at, todo, next,
    ended, calm, runs, form, shown, writes, opened, stock, request, rows, known, stored,
    edits, faults>>

Console == INSTANCE CatalogConsole WITH
  Product <- ShownProduct, Category <- ShownCategory, MaxWrites <- PageWrites
Form == INSTANCE ProductForm WITH Rows <- FormRows, MaxEdits <- FormEdits
Stock == INSTANCE StockConsole WITH
  Variant <- Size, Default <- DefaultCount, MaxChanges <- StockChanges
Reports == INSTANCE AdminReports WITH MaxEvents <- FeedEvents
Theme == INSTANCE ThemeTabs
Outbox == INSTANCE ProductOutbox
Stripe == INSTANCE StripeCatalog WITH MaxFaults <- StripeFaults
Seed == INSTANCE CatalogSeed WITH MaxFaults <- SeedFaults, MaxEdits <- SeedEdits

ASSUME CatalogueAssumption ==
  /\ Console!ConsoleAssumption
  /\ Form!FormAssumption
  /\ Stock!StockAssumption
  /\ Reports!ReportsAssumption
  /\ Theme!ThemeAssumption
  /\ Outbox!OutboxAssumption
  /\ Stripe!CatalogAssumption
  /\ Seed!SeedAssumption

-----------------------------------------------------------------------------
(* One component to a behaviour.  What it has no name for stays Unused.      *)

Unused == "unused"

\* A behaviour of part p begins.
Begin(p) ==
  /\ part = p
  /\ p # "console" =>
       catalog = Unused /\ sheet = Unused /\ call = Unused /\ refreshes = Unused
       /\ confirmed = Unused
  /\ p # "form" =>
       row = Unused /\ added = Unused /\ removed = Unused
  /\ p # "stock" =>
       offers = Unused /\ size = Unused /\ draft = Unused /\ open = Unused /\ step = Unused
       /\ reading = Unused /\ typed = Unused /\ behind = Unused /\ changes = Unused
  /\ p # "reports" =>
       made = Unused /\ enqueued = Unused /\ paid = Unused /\ published = Unused
       /\ orders = Unused /\ feed = Unused /\ arrived = Unused /\ page = Unused
       /\ got = Unused /\ activities = Unused /\ orderList = Unused /\ recentEvents = Unused
  /\ p # "theme" =>
       denied = Unused /\ author = Unused /\ unsaved = Unused /\ prefers = Unused
       /\ turns = Unused /\ mounted = Unused /\ theme = Unused /\ applied = Unused
       /\ news = Unused /\ turned = Unused
  /\ p # "outbox" =>
       product = Unused /\ outbox = Unused /\ sent = Unused /\ relay = Unused
  /\ p # "stripe" =>
       source = Unused /\ hints = Unused /\ budget = Unused /\ stripe = Unused
       /\ price = Unused /\ run = Unused /\ lock = Unused
  /\ p # "seed" =>
       slugs = Unused /\ silent = Unused /\ at = Unused /\ todo = Unused /\ next = Unused
       /\ ended = Unused /\ calm = Unused /\ runs = Unused
  /\ p \notin {"console", "form"} => form = Unused
  /\ p \notin {"console", "theme"} => shown = Unused /\ writes = Unused
  /\ p \notin {"form", "reports"} => opened = Unused
  /\ p \notin {"stock", "outbox"} => stock = Unused /\ request = Unused
  /\ p \notin {"stock", "seed"} => rows = Unused
  /\ p \notin {"reports", "seed"} => known = Unused
  /\ p \notin {"theme", "seed"} => stored = Unused
  /\ p \notin {"form", "outbox", "seed"} => edits = Unused
  /\ p \notin {"outbox", "seed"} => faults = Unused

\* A step of part p.
In(p) ==
  /\ part = p /\ part' = p
  /\ p # "console" => UNCHANGED <<catalog, sheet, call, refreshes, confirmed>>
  /\ p # "form" => UNCHANGED <<row, added, removed>>
  /\ p # "stock" => UNCHANGED <<offers, size, draft, open, step, reading, typed, behind,
       changes>>
  /\ p # "reports" => UNCHANGED <<made, enqueued, paid, published, orders, feed, arrived,
       page, got, activities, orderList, recentEvents>>
  /\ p # "theme" => UNCHANGED <<denied, author, unsaved, prefers, turns, mounted, theme,
       applied, news, turned>>
  /\ p # "outbox" => UNCHANGED <<product, outbox, sent, relay>>
  /\ p # "stripe" => UNCHANGED <<source, hints, budget, stripe, price, run, lock>>
  /\ p # "seed" => UNCHANGED <<slugs, silent, at, todo, next, ended, calm, runs>>
  /\ p \notin {"console", "form"} => UNCHANGED form
  /\ p \notin {"console", "theme"} => UNCHANGED <<shown, writes>>
  /\ p \notin {"form", "reports"} => UNCHANGED opened
  /\ p \notin {"stock", "outbox"} => UNCHANGED <<stock, request>>
  /\ p \notin {"stock", "seed"} => UNCHANGED rows
  /\ p \notin {"reports", "seed"} => UNCHANGED known
  /\ p \notin {"theme", "seed"} => UNCHANGED stored
  /\ p \notin {"form", "outbox", "seed"} => UNCHANGED edits
  /\ p \notin {"outbox", "seed"} => UNCHANGED faults

Init ==
  \/ Begin("console") /\ Console!Init
  \/ Begin("form") /\ Form!Init
  \/ Begin("stock") /\ Stock!Init
  \/ Begin("reports") /\ Reports!Init
  \/ Begin("theme") /\ Theme!Init
  \/ Begin("outbox") /\ Outbox!Init
  \/ Begin("stripe") /\ Stripe!Init
  \/ Begin("seed") /\ Seed!Init

ConsoleStep == In("console") /\ Console!Next
FormStep == In("form") /\ Form!Next
StockStep == In("stock") /\ Stock!Next
ReportsStep == In("reports") /\ Reports!Next
ThemeStep == In("theme") /\ Theme!Next
OutboxStep == In("outbox") /\ Outbox!Next
StripeStep == In("stripe") /\ Stripe!Next
SeedStep == In("seed") /\ Seed!Next

Next ==
  \/ ConsoleStep \/ FormStep \/ StockStep \/ ReportsStep
  \/ ThemeStep \/ OutboxStep \/ StripeStep \/ SeedStep

Spec == Init /\ [][Next]_all

-----------------------------------------------------------------------------
(* Properties: each conjunct is stated and explained in its component's module *)

\* The variables of each component have their types.
CatalogueTypes ==
  /\ part = "console" => Console!TypeOK
  /\ part = "form" => Form!TypeOK
  /\ part = "stock" => Stock!TypeOK
  /\ part = "reports" => Reports!TypeOK
  /\ part = "theme" => Theme!TypeOK
  /\ part = "outbox" => Outbox!TypeOK
  /\ part = "stripe" => Stripe!TypeOK
  /\ part = "seed" => Seed!TypeOK

\* What an administrator saves is what he opened, typed or loaded, on the item or
\* variant the form was for, and each color keeps its own picture; a page at rest
\* does not show less than it was told, and the theme chosen last is stored, shown
\* and the same in every tab.
ConsolesAreRight ==
  /\ part = "console" => Console!SavesWhatWasOpened /\ Console!RestShowsOwnWork
  /\ part = "stock" => Stock!SavesWhatWasMeant /\ Stock!SavesOnLoadedCounts
  /\ part = "theme" => Theme!QuietTabsAgree /\ Theme!ShownIsChosen
SavesWhatWasMeant ==
  [][/\ ConsolesAreRight'
     /\ part = "form" => Form!PicturesStay /\ Form!PicturesKeepTheirColor
     /\ part = "theme" => Theme!LastChoiceStays]_all

\* Every create, update and delete of a product left an event that tells what it
\* left, no stock outlives its product, a product is seeded once and announced
\* again by a replay; events leave the outbox only by the newest claim, and so the
\* outbox keeps the promise of DurableJobs.
WritesAreTold ==
  /\ part = "outbox" => Outbox!EventsTellTheCatalog /\ Outbox!StockHasItsProduct
  /\ part = "seed" => Seed!OneProductPerName /\ Seed!ReplayIsComplete
WritesAreAnnounced ==
  [][/\ WritesAreTold'
     /\ part = "outbox" => Outbox!OnlyTheClaimFinishes /\ Outbox!KeepsThePromise]_all

\* Whatever the order of the hints, the workers and the failures, Stripe shows the
\* product as it is once the hints are worked off; its price never goes back.
StripeIsRight ==
  /\ part = "stripe" => Stripe!QuietIsSynchronised /\ Stripe!DeletedHasNoActivePrice
StripeFollows ==
  [][/\ StripeIsRight'
     /\ part = "stripe" => Stripe!NeverOlderPrice]_all

\* The directory of customers counts each stored payment once, and misses none
\* that a window of newer checkouts has not pushed out.
ReportsAreTrue ==
  /\ part = "reports" => Reports!CountedOnce /\ Reports!KnownPaymentsAreCounted
=============================================================================
