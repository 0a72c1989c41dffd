# TLA+ models of the shop

This directory holds the formal models of this repository: TLA+ modules, the TLC configurations that
check them on small instances, and theorems that the TLA+ proof system (`tlapm`) checks for every value
of the constants. `PROJECT.json` maps every definition to the source lines it stands for, and lists the
runs, the hazards and the theorems.

    tlc -workers 4 -config MCInventory.cfg MCInventory      # a model-checking run
    tlapm InventoryProofs.tla                               # the proofs of a module

## 1. The system

The repository is a web shop: three services (product, payment, order), a storefront and an
administration site. What can go wrong and would be hard to test is the life of a **purchase**: stock
is finite, payment happens at Stripe, the payment service and the product service share no database,
and every step may be repeated, delayed or lost. Around it stand the catalogue that purchases are made
from, the browser that starts them, and the services' own starting, serving and stopping.

| Component | State it keeps | Operations | Interacts with | Modules |
|---|---|---|---|---|
| Finite inventory (`packages/product-db/src/inventory.ts`) | `inventory.stock`, `reservation`, `stock_audit` | `setStock`, `reserveStock`, `finishReservation` | payment service over internal HTTP, administrators over RPC | Inventory, InventoryTx |
| Payment store (`payment-store.ts`) | `payment.checkout`, `payment.job`, `payment.rate_limit` | `saveCheckout`, `attachSession`, `enqueue`, `claim`, `renew`, `complete`, `fail`, `redrive`, `markReleased`, `allow` | everything in the payment service | PaymentJobs, RateLimit, Checkout |
| Worker loops (`PaymentWorker.ts`) | the claimed job, a lease flag | one loop per kind and replica | payment store, Stripe, inventory, Kafka | PaymentJobs |
| Checkout (`StripeCheckoutService.ts`, `InventoryService.ts`) | local variables across awaits | `createCheckoutSession`, `getCheckoutSessionStatus` | catalog, payment store, inventory, Stripe | Checkout, CartCheck |
| Payment events, webhook, reconciliation | a cursor | `handleEvent`, `processCompletedCheckout`, `reconcilePayments` | Stripe, payment store, inventory | Checkout |
| Order projection (`order-service`) | MongoDB `orders`, unique `orderId` | `createOrder` per message | Kafka | EventConsumer, Checkout |
| Stripe catalog sync (`StripeCatalogService.ts`) | `payment.catalog` | `reconcileProduct` under an advisory lock | Stripe, product service | StripeCatalog |
| Product service, seeds and outbox | products, categories, `product_outbox` | create, update, delete with their event; relay; seed Job | PostgreSQL, Kafka, inventory | ProductOutbox, CatalogSeed |
| Kafka client (`packages/kafka`) | offsets, retries, dead letters, topics | consume, produce, replay, ensure topics | broker | EventConsumer, KafkaTopics |
| Service runtime (`packages/hono-utils`, `index.ts` files) | readiness, background tasks, request counters | start, serve, drain, shutdown with a deadline | all services | ServiceRuntime, RequestPipeline |
| Tracing | trace ids on requests, jobs, records | propagate, replay | all services | TraceChain |
| Migrations | checksums of SQL files | `migrateInventory`, `migrate` | PostgreSQL | Migration |
| Storefront bag and checkout | bag and attempt in browser storage, addresses | edit bag, steps, start payment, return page | client API routes, Stripe's form | CheckoutAttempt, SharedBrowser, CheckoutSteps, PaymentForm, ShoppingBag, BrowserStorage |
| Storefront catalogue and listings | the address; a walk's position | filter, search, page; sitemap; history | product and order service | CatalogBrowse, ProductChoice, SitemapWalk, OrderHistory |
| Administration | forms, drafts, lists, theme | save items and counts, read reports, choose a theme | product, payment and order service | CatalogConsole, ProductForm, StockConsole, AdminReports, ThemeTabs |
| API client (`packages/api-client`) | Next's shared fetch cache | every call of the two sites | all services | ServiceClient |
| Contracts, markup, deployment | none | | | |

The hard behaviours, each at its line in `PROJECT.json` under `hazards`, are: concurrent transactions over several
stock rows; a lease that lapses under a working process; crashes between the steps of one purchase; inventory
calls whose caller gave up and that run later; Stripe sessions that change state between a read and its use;
lost and repeated webhooks and Kafka messages; retries that cross a price change or carry another cart; several tabs and
several accounts on one browser's storage; navigations and answers that overtake one another; drains that race with
work and monitors; several deployers, several replicas, several relays at once.

What must hold: no unit is promised twice; a purchase settles once, as Stripe settled it; whoever paid has
the units and gets an order for what they agreed to, and is not charged twice for it; units of an expired session return; a job
once accepted is never forgotten, and what follows from it is accepted with it; every catalog write is published; nothing closed
is used, nothing abandoned holds up a service; and a page shows, and sends, what its user chose.

## 2. The modules

    Inventory ── implemented by ── InventoryTx        (transactions, locks, rollbacks)
        │ EXTENDS                      └── InventoryProofs              (theorems of both)
    Checkout ── CheckoutProofs                                          (theorems)
        │ uses
    DurableJobs ─┬ implemented by ── PaymentJobs      (leases, tokens, workers)
                 │                       └── PaymentJobsProofs          (theorems)
                 └ implemented by ── ProductOutbox    (the relay)

The other modules stand alone: what one of them assumes of its neighbour is an action of its environment that does at
least what the neighbour's module allows. For model checking they are instantiated side by side, and the proofs about
them extend the compositions:

    MCServices    EventConsumer KafkaTopics TraceChain ServiceRuntime RequestPipeline Migration RateLimit ServiceClient
        └── ServicesProofs                                              (theorems)
    MCCatalogue   CatalogConsole ProductForm StockConsole AdminReports ThemeTabs ProductOutbox StripeCatalog CatalogSeed
        └── CatalogueProofs                                             (theorems)
    MCStorefront  CheckoutAttempt SharedBrowser CheckoutSteps PaymentForm ShoppingBag BrowserStorage CatalogBrowse
        │         ProductChoice SitemapWalk OrderHistory CartCheck
        └── BrowsingProofs, PayingProofs                  (theorems of the components)
                └── StorefrontProofs                                    (theorems)
    MCEventually  fourteen components, PaymentJobs among them, that have to bring something about

These components do not act on each other, so their product would only multiply states. A behaviour belongs to one of
them, its *part*: a composition's `Init` chooses the part, and its `Next` has one disjunct per part. `MCServices`, `MCCatalogue` and
`MCStorefront` declare the variables under the names that the components give them (a name that two components share is one
variable); `MCEventually` has `v1` ... `v14`, to which each of its fourteen parts gives its names, and fixes its small sets itself.
A property of a composition is a list of conjuncts `part = "x" => X!P`: each `P` is stated, with the code behaviour it is about, at the
end of X's module. The instance that TLC checks of `InventoryTx` is at the end of that module (`EveryVariant`, `AnyRank`).

### The purchase

**Inventory** has the three tables as `stock`, `onHand`, `reserved`, `reservation`, `audit`. One action is one
committed transaction: `SetStock`, `ReserveStock` (a first hold or an accepted repeat) and
`FinishReservation` (commit or release, or the repeat of the same). A transaction that rolls back changes
nothing and has no step. The merged items of a request are counted as single units, which states
`normalizeStockItems` without a recursive sum. Because `now()` is read before the row locks are awaited, a hold may
commit after its expiry: `ExpiryAccepted` compares with any earlier clock value.

**InventoryTx** runs the same three operations as the statements of `inventory.ts`: BEGIN, the advisory lock
of the purchase, the reads, one conditional UPDATE per row in sorted order, COMMIT or ROLLBACK anywhere.
A row stays locked until its transaction ends. Its committed tables implement `Inventory`.

**DurableJobs** says what a table of durable jobs promises: accepted jobs stay, a job is done only after its work was
performed, its follow-up is accepted in the same step, its work may be repeated at any time.

**PaymentJobs** is the table and its workers: `Enqueue`, `Claim`, `Renew`, `Work`, `Complete`, `Fail`, `Redrive`,
with lapsed leases, crashes, storage errors and a COMMIT whose answer is lost. Random claim tokens are numbers
that a row never uses twice. Time is abstracted to its outcomes (`Lapse`, `BackoffEnds`). A job's outside
effect is one step that may fail before or after it happened. It implements `DurableJobs` with
`status <- Status`.

**Checkout** composes a whole purchase. Its requests advance from one await to the next (`ReadRecord`, `Resolve`,
`SaveCheckout`, `VerifyExpiry`, `Reserve`, `OpenSession`, `Attach`) and may be abandoned anywhere; a timed-out inventory
call goes to `late`, from where it runs later or never. Stripe's session is external: it opens once per idempotency
key, and becomes paid or expired at any time, because Stripe's clock is not ours and an administrator may
expire a session early. The webhook, the status page and reconciliation all enqueue. Reconciliation's reads and
writes are separate steps. Jobs appear as `DurableJobs`; in particular the work of a
job may run again at any time after it was accepted. The order service takes messages in any order and any number of
times. `Price` has two values so that an order at a wrong price would be seen.

**CartCheck** is what `Resolve` abstracts: the lines of a cart grouped by product, the look-ups by several workers, the
comparison of each line with the product found, and the refusals.

**RateLimit** is `allow`: concurrent statements on one row, with windows that open and rows that are cleaned up. A statement takes
its `now()` before it waits for the row, for as long as `Delay`: the statement timeout. The count it makes may belong to a window
that opened meanwhile, so a whole window can see more than two windows' worth; the property speaks of spans shorter by `Delay`.

**TraceChain** follows the trace of a payment through requests, jobs, Kafka records, quarantine and replay.

**EventConsumer** is one partition with the replicas that read it: retries, the dead-letter record, offsets, heartbeats,
rebalances of which a member learns late, crashes, shutdown, the upsert behind them with its unique index, and the replay.

**KafkaTopics** lets the three services create their topics, each in several calls, before they attach.

### The catalogue

**ProductOutbox** has the catalog writes with their event, the stock editor's two transactions, and the relays; the outbox
implements `DurableJobs`, as the job table does. A product's row and its events carry a revision and a category, so that an event
tells what its write left. `RenameCategory` is `updateCategory`: the slug goes to the products by a cascade, without an event.

**StripeCatalog** is `reconcileProduct` call by call, under its lock, for the hints of one product.

**CatalogSeed** is the seeding Job: it fails and is run again while editors work on what it stored.

**SitemapWalk** and **OrderHistory** walk over pages by offset while the list changes. **CatalogBrowse** is the storefront's and the
administration's catalogue: addresses, parsing, links, a request of two statements, and the redirect to the last page.
**ProductChoice** is the page of one product: its choice, quantity, and navigation to the same page.

### The browser

**CheckoutAttempt** has the tabs of one customer: the stored bag, the attempt and its signature, the payment step, the
answers of the payment service and the return page. **SharedBrowser** lets accounts follow one another in one browser.
**CheckoutSteps** is the bag's page with its three steps, the browser's history and the stored delivery form.
**PaymentForm** has the calls of the form to Stripe one by one: the three that carry the details, and the confirmation.
**ShoppingBag** has the lines of the bag; **BrowserStorage** the adapters that go on when access to the storage is denied.

**CatalogConsole** and **StockConsole** are the administrator's forms, with overlapping refreshes, lost answers and other
administrators. **ProductForm** is what the texts of the product form make of a product's pictures, and back: one line is a pair, an
address for every color, or one of several in order, depending on what the color looks like. **AdminReports** is what the administration's pages say of purchases whose records arrive at different times.
**ThemeTabs** is the theme that tabs share.

### The services

**ServiceRuntime** has bootstrap, monitors, readiness and the drain of each service; **RequestPipeline** one request
through the middlewares, with the counters; **Migration** the deployers of two builds on one database; **ServiceClient** the calls of the
two sites to the services: tokens, cache policies, time limits and errors.

A definition whose comment names a fault ("A faulty form of ...", "(of a variant) ...") is not part of any specification:
substituted for the right definition it must break the property it is listed with in `PROJECT.json` under `mutants`.

## 3. The runs

| Run | What it shows | Distinct states |
|---|---|---|
| `inventory` | Three competing purchases, two customers and an administrator on two variants: holds, sales, releases and counts as whole transactions. | 48 076 |
| `inventory_tx` | Two database connections run the same operations statement by statement, with advisory and row locks and rollbacks anywhere: the tables change only as in Inventory, and no transactions wait in a circle. | 285 156 |
| `payment_jobs` | Two replicas work on one purchase and one catalog hint with up to two faults (crash, stall past the lease, storage error, lost COMMIT answer) or redrives: claims, renewals, completion and failure keep the promise of DurableJobs. | 815 339 |
| **`payment_jobs_limit`** | The documented retry limit: TLC finds a job that is attempted again after its last allowed attempt, because its workers crash instead of failing. | (ends at the counterexample) |
| `checkout_race` | One purchase, two concurrent checkout requests with two carts and a price change, late inventory calls, expiry, reconciliation, enrichment, publication and the order: everybody agrees on one snapshot and one outcome. | 969 848 |
| `checkout_stock` | Two purchases and an administrator compete for the last unit while requests time out and sessions expire: a payment never lacks its unit. | 1 211 960 |
| `checkout_live` | Under the retries of workers, reconciliation and the order consumer every paid session becomes an order or a quarantined job, and every expired session returns its units, although webhooks and callers may fail forever. | 84 343 |
| `services` | The services and what they share, one component to a behaviour: two replicas on a partition, the topics three brokers make, two payments' traces, a drain from every state, three requests and their counters, three deployers, a rate-limited burst, two calls of the API client. | 909 391 |
| `catalogue` | The catalogue, its administration and what follows it, one component to a behaviour: the two consoles and the product form, the reports, the theme, catalog writes, renamed categories and stock edits, two relays, two Stripe workers, the seed job with its restarts. | 1 393 631 |
| `storefront` | The storefront and the reads under it, one component to a behaviour: checkout attempts of two tabs, two accounts in one browser, the steps of the cart page, the payment form, the bag, denied storage, the pages of the catalog and of a product, the sitemap, the order history and the check of a cart. | 1 079 441 |
| `eventually` | What fourteen components have to bring about at last, under the fairness of timers, retries and restarts: payments' jobs finished or set aside, events published, records handled, Stripe synchronised, processes ready or ended, deployments and calls over, pages at rest. | 311 217 |
| **`checkout_additions`** | The documented promise that additions are not erased: TLC finds an item that another tab stored before a verified payment writes the empty cart over it. | (ends at the counterexample) |

The configuration of a run is `PROJECT.json`'s `cfg`. The runs in bold end with a counterexample by design: each refutes what a
document says of the program (section 6). Every other run is exhaustive.

The properties of the purchase, where more than one process acts on the same state:

- `ReservedIsHeld`, `NeverOversold`: the counters agree with the reservations. `CountsAreAccountedFor`: units neither appear nor vanish.
  `TerminalStatesStay`, `NoLockCycle`, and `ImplementsInventory`, the refinement of whole transactions by statements and locks.
- `PaymentIsPublished`, `CompleteWasPerformed`, `OnlyTheClaimFinishes` (fencing), `ImplementsDurableJobs`;
  that every job settles is the part *jobs* of `EverythingSettles`.
- `OneSnapshot`, `PaidIsHeld`, `PaidIsCovered`, `SettledAsStripeSays`, `OrderedIsSold`, `RecordIsTrue`, `PaidIsOrdered`, `ExpiredIsReleased`.

The properties of the compositions gather what their components state one by one:

| Property | Parts and what they state |
|---|---|
| `MessagesSettle` | EventConsumer `NothingSkipped`, `OneOrderPerPayment`; KafkaTopics `AttachedHasItsTopics`; TraceChain `OneTrace`, `TracesTellPaymentsApart` |
| `ProcessesEndClean` | ServiceRuntime `NothingUsesAClosedDependency`, `CleanExit`, `DrainingIsNotReady`; KafkaTopics `NoConnectionLeft` |
| `CallersAreServedRight` | ServiceClient `OwnDataOnly`, `FreshWhereItMatters`, `RefusedIsNotDone`; RequestPipeline `AnswersAreCounted`, `CountersOnlyGrow`; RateLimit `TwoWindowsAtMost`, `RefusalIsEarned`; Migration `DoneIsDeployed`, `OnlyAChangeFails` |
| `SavesWhatWasMeant` | CatalogConsole `SavesWhatWasOpened`, `RestShowsOwnWork`; ProductForm `PicturesStay`, `PicturesKeepTheirColor`; StockConsole `SavesWhatWasMeant`, `SavesOnLoadedCounts`; ThemeTabs `QuietTabsAgree`, `ShownIsChosen`, `LastChoiceStays` |
| `WritesAreAnnounced` | ProductOutbox `EventsTellTheCatalog`, `StockHasItsProduct`, `OnlyTheClaimFinishes`, `KeepsThePromise` (each step is one of `DurableJobs`); CatalogSeed `OneProductPerName`, `ReplayIsComplete` |
| `StripeFollows` | StripeCatalog `QuietIsSynchronised`, `DeletedHasNoActivePrice`, `NeverOlderPrice` |
| `ReportsAreTrue` | AdminReports `CountedOnce`, `KnownPaymentsAreCounted` |
| `OneAccountsOwn` | SharedBrowser `FormIsForItsAccount`, `PaymentShownToItsBuyer` |
| `ChoiceIsHonoured` | ProductChoice `AddedWasThere`; CatalogBrowse `WantedIsShown`; CheckoutSteps `BackLeaves`; CartCheck `ResolvedIsWhole`, `OneVersionPerProduct`, `RefusedForCause` |
| `NothingIsMissed` | CatalogBrowse `EveryMatchOnce`, `NoEmptyPage`; SitemapWalk `MissesAreExplained`; OrderHistory `HistoryIsComplete`, `OfferedPageHasOrders` |
| `PaidOnceAsShown` | CheckoutAttempt `NotPaidTwice`, `ClearedCopyWasPaid` (of the tab's own copy; what is stored by then is `AdditionsAreKept`, section 6), `PaidWithTheDetailsShown`; PaymentForm `PaidAsShown`, `OneCallAtATime`; SharedBrowser `CartLeavesWithItsBuyer` |
| `NothingIsForgotten` | ShoppingBag `ReloadKeepsTheBag`, `AddsWhatIsShown`; BrowserStorage `AnswersAreLatest`, `NeverAnOlderValue`, `CheckoutKeepsItsIdentity`; CheckoutSteps `ReloadKeepsDetails`; ProductChoice `OtherChoiceStays` |
| `EverythingSettles` | fourteen components: whatever is under way is over at last (`MCEventually!UnderWay`, `IsOver`) |

Some of these are of the form `[][... P' ...]_all`, because one of their conjuncts speaks of steps; for the
conjuncts that speak of states it means that `P` holds in every state a step leads to.

A property that holds because it never applies shows nothing. Each is broken, under the configuration of its own
run, by a plausible fault in the code that `PROJECT.json` lists as its mutant; and each of the fourteen parts of
`eventually` violates `EverythingSettles` when its fairness is taken away.

### Bounds, and why they suffice

- `MaxTime`, `HoldWindow`, `Lifetime` are 1 or 2: only "before" and "after" the expiry matter, and the model lets every
  step fall on either side. `MaxAudits` bounds how often a variant is counted; two counts give one before and
  one during the holds. `MaxOnHand` and `MaxQuantity` are at most 3, so that carts fit, just fit, and do not fit.
- two requests, connections, replicas, relays, tabs or accounts: every hazard in this code is a race of two; a third would
  meet the same fences (the advisory lock, `ON CONFLICT`, the token, the unique index). Where a third party matters there are
  three: the services in `KafkaTopics`, the callers of `RateLimit` (two that race and one that counts them), the deployers of
  `Migration` (one holds the lock, two wait), the requests of `RequestPipeline` (two label sets fit, a third does not).
- attempts are 2 instead of 8 (jobs) or 3 (records), and faults 1 to 3: a first failure, the last one, and a fault before and
  after each.
- `checkout_race` has one purchase because purchases meet only in the stock, and `checkout_stock` two purchases
  with one request, because the interference of requests is the subject of the first.
- `services`: `RateLimit` has windows of three ticks that grant two calls, statements that wait up to two ticks, so that one may be
  counted two windows later, and rows that live for five. The two other orders of `Window`, `Delay` and `Day` that its proofs cover are not run.
- `catalogue`: `ProductOutbox` has two events, two categories of which one is renamed into the other, one product and two stock edits;
  an event before and one after a rename is all that `EventsTellTheCatalog` tells apart.
- windows and pages are scaled down, never away: the reports' windows of 100, 25, 50 and 20 to 1; pages of the catalogue to
  1 product, of the history and the sitemap to 2; the bag's 50 lines to 2; the ten workers of a cart check to 2. Each run has
  more items than a window or page holds. The catalogue's `MaxPage` of 10 000 is never reached.
- edits, clicks, navigations, turns and visits are 1 to 4 per run, so that one falls before, one within and one after
  what it races with.
- `services`, `catalogue` and `storefront` use Symmetry over replicas, orders, payments, requests, deployers, callers, tabs, items,
  variants, forms, categories and purchases, wherever a component takes them from the same set of model values; `eventually` uses none.

`CHECK_DEADLOCK FALSE` is said where the system really may stop: all jobs may be settled; a drain or a deployment ends; a request, a
cart check, a walk or a call is made once; visitors, editors and customers may do nothing more; and counters of edits, faults and
visits run out. The runs without it check deadlock.

### Fairness

- `Checkout!CoFairness`: an attempt of an *open* job eventually succeeds (if not, the job is quarantined, which the
  property allows); the order consumer handles what was published; reconciliation passes run every five minutes, and a
  pass that fails is followed by another, hence strong fairness of reading a session and of acting on it. An unattached session is
  in Stripe's list for 24 hours, while it expires after one, so some 270 passes see it expired; the assumption
  is that one of them succeeds. No fairness is assumed of webhooks, of the status page, of callers, or of late requests.
- `MCEventually!Fairness` states, part by part (weak fairness, where nothing else is said):
  - *jobs*: a loop polls every second and its processing always ends in `complete` or `fail` (Stripe, Kafka and the database calls
    all have timeouts); delays and abandoned leases run out. Nothing is assumed of the outcome of the work;
  - *relay*: a relay goes on with the row it has and polls again; leases and delays of a row run out;
  - *stripe*: a worker with a hint goes on; faults are bounded, so some run succeeds;
  - *seed*: the Job's steps, and the restart of a failed pod (`restartPolicy: OnFailure`);
  - *consumer*: a member that owns the partition consumes; rebalances, crashes and failed calls are bounded;
  - *topics*: each service begins, calls and goes on (its retry timers); the outbox relay publishes;
  - *runtime*: the drain's own timers and steps, nothing of the work it waits for; the timers of bootstrap and monitors;
  - *migration*: each deployer that began goes on, and PostgreSQL's lock queue lets everyone who waits have the lock (strong
    fairness, as the lock is taken and freed meanwhile). Nobody must start a deployment;
  - *client*: the client's own timer only. Nothing is assumed of the services;
  - *shared*: the browser's timers, and an answer or a failure of the status route;
  - *steps*: React mounts, Next's router ends a navigation;
  - *form*: Stripe's promises settle, the card fields load or fail, the customer presses what is enabled; never that he leaves;
  - *browse*, *choice*: a navigation is served, a page is loaded and shown. `PicturesEnd` says that nobody clicks from picture to
    picture of a product for ever, for each click replaces the navigation that was on its way.

## 4. What is proved

`InventoryProofs.tla` proves of `Inventory`, for every set of users and variants, every finite set of purchases, and all bounds:

- `TypeCorrect`: `Spec => []TypeOK`;
- `ReservedMatchesHolds`: `Spec => []ReservedIsHeld`;
- `NoOverselling`: `Spec => []NeverOversold`;
- `SettledOnce`: `Spec => TerminalStatesStay`;
- `LedgerBalances`: `Spec => CountsAreAccountedFor`.

The inductive invariant is `IInv == TypeOK /\ ReservedIsHeld /\ NeverOversold`. The parts need one another: a settlement subtracts a
purchase's items from `reserved`, which stays a natural number only because the column is at least what that purchase
holds (`ReservedIsHeld`); it subtracts them from `onHand` as well, which stays a natural number only because
`reserved <= onHand` (`NeverOversold`); and a settlement skips a variant without a row, which is harmless
only because such a variant holds nothing. Sums are written as the cardinality of sets of tagged units
(`Units`), so that the lemmas `TaggedUnits`, `UnitsFinite`, `UnitsEntering` and `UnitsElsewhere` follow from the library's
facts on finite sets without induction over data. `SetStockIInv`, `OpenHoldIInv` and `SettleIInv` prove one operation each,
`NextIInv` joins them. The assumptions used are those named in `Inventory!InventoryAssumption`: finitely many purchases,
naturals as bounds, and non-empty request lists.

Its second half proves of `InventoryTx`, for every set of variants and purchases and every finite set of connections:

- `TxTypeCorrect`: `TxSpec => []TxTypeOK`;
- `TransactionsAreAtomic`: `TxSpec => ImplementsInventory`. Statements, locks, commits and rollbacks refine
  `Inventory`, so its theorems hold of the transactions as well;
- `TransactionsDoNotDeadlock`: `TxSpec => []NoLockCycle`.

The inductive invariant `TxInv` is what locks are for: each transaction relies on what it read (`StillRead`), on the rows it went
through (`StillAccepted`) and on its purchase's lock (`PurchaseLocked`), and all of these are about rows that it has locked, while a
commit changes only what its own transaction has locked (`Undisturbed`). A cycle is excluded by the order in which rows are
taken (`Rank`): those of a circle that are ahead of a transaction in that order (`Ahead`) get fewer from each to the one it
waits for, and a finite set does not shrink for ever. `IsFiniteSet(Connection)` is assumed for that: a pool has so many connections.

`PaymentJobsProofs.tla` proves, for every set of purchases, catalog hints and replicas and every number of
attempts and faults:

- `JobsTypeCorrect`: `Spec => []TypeOK`;
- `PaymentsArePublished`: `Spec => []PaymentIsPublished`;
- `CompleteMeansPerformed`: `Spec => []CompleteWasPerformed`;
- `FencedByToken`: `Spec => OnlyTheClaimFinishes`;
- `JobsAreDurable`: `Spec => ImplementsDurableJobs`, the refinement of `DurableJobs`.

The inductive invariant adds `ClaimsAreReal` to the checked invariants: a loop that holds a job got it from the table, and a
loop about to complete a job has performed it; without it neither `CompleteWasPerformed` nor the mapping of `Work` to
`DurableJobs!Perform` is preserved. `CompleteEnrichment` and `CompleteOther` say what the transaction of `complete` writes, and
carry the three places where it matters. The mapping sends the state of a row to what became of the job (`Fate`): an
enqueue is an `Accept`, work a `Perform`, a completion a `Finish`, a quarantine a `SetAside`, a redrive a `TakeUp`; claims,
renewals, lapses, retries and crashes are stutters.

`CheckoutProofs.tla` proves of `Checkout`, for every set of purchases, users, variants, prices and carts and any number of
concurrent requests, each invariant its runs check, and that it uses its parts as they promise:

- `CheckoutTypeCorrect`, `SnapshotIsOne`, `PaidStaysHeld`, `InventoryFollowsStripe`, `OrdersAreSold`, `RecordsAreTrue`, `PaymentsAreCovered`:
  `CoSpec => []CoTypeOK`, `[]OneSnapshot`, `[]PaidIsHeld`, `[]SettledAsStripeSays`, `[]OrderedIsSold`, `[]RecordIsTrue`, `[]PaidIsCovered`;
- `CheckoutUsesTheInventory`, `CheckoutUsesTheJobs`: `CoSpec => Spec` and `CoSpec => DJSpec`. Each step leaves the inventory (the
  jobs) alone or is one of `Inventory`'s (of `DurableJobs`'), so that the theorems above carry over to the whole.

One invariant, `CoInv`, carries them all. Beside `Inventory`'s `IInv` it says that inventory, Stripe and the payment store agree on every
purchase (`Agreed`), and, for each actor that works with something read a while ago, what of it is still true: a request (`Reached`),
an inventory call whose caller gave up (`Founded`), a reconciliation pass (`PassInv`), a job (`Done`). None of the invariants is inductive
without these: the late call and the pass act on a session they no longer look at. Each relies only on facts that never become false
again, a session that is paid or expired, a record that exists (`Grows`); that every step grows what is known is proved once.

The modules below prove what the compositions promise, in two layers. First each component: its inductive invariant, and its
properties from it, about the component as instantiated with the composition's own constants, of which nothing is known but the
component's assumption. Then the composition: `ServicesInv`, `CatalogueInv` and `StorefrontInv` say `part = "x" => XInv` for each
part, `Init` and every disjunct of `Next` keep them, and the composed properties follow. All of the properties that `services`,
`catalogue` and `storefront` check are theorems:

| Module | Theorems of the composition |
|---|---|
| `ServicesProofs` | `ServicesTypeCorrect` (`ServicesTypes`), `MessagesDoSettle` (`MessagesSettle`), `ProcessesDoEndClean` (`ProcessesEndClean`), `CallersDoGetServedRight` (`CallersAreServedRight`) |
| `CatalogueProofs` | `CatalogueTypeCorrect` (`CatalogueTypes`), `SavesAreAsMeant` (`SavesWhatWasMeant`), `WritesDoGetAnnounced` (`WritesAreAnnounced`), `StripeDoesFollow` (`StripeFollows`), `ReportsStayTrue` (`ReportsAreTrue`) |
| `StorefrontProofs` | `StorefrontTyped` (`StorefrontTypes`), `AccountsSeeTheirOwn` (`OneAccountsOwn`), `ChoicesAreHonoured` (`ChoiceIsHonoured`), `PagesTellAll` (`NothingIsMissed`), `PaymentsAreMeant` (`PaidOnceAsShown`), `MemoryIsKept` (`NothingIsForgotten`) |

`ServicesProofs.tla`, for any replicas, services, payments, requests, deployers, callers and faults:

- `EventConsumer`: `ConsumerTypeCorrect`, `NoPaymentSkipped` (`NothingSkipped`), `PaymentsOrderOnce` (`OneOrderPerPayment`). `ConsumerInv` adds
  that all below a committed offset, and below the position of any member, is settled (`PassedInv`): a member that lost the partition may
  still commit, but only what is settled.
- `KafkaTopics`: `TopicsTypeCorrect`, `ConsumersHaveTheirTopics` (`AttachedHasItsTopics`), `CallsDisconnect` (`NoConnectionLeft`). `CallsInv`: what a service
  wants is on its list of missing topics or exists by now, and stays, for topics are not deleted.
- `TraceChain`: `TraceTypeCorrect`, `RecordsKeepTheTrace` (`OneTrace`), `TracesDiffer` (`TracesTellPaymentsApart`). `TraceInv` adds that a publication has the
  trace of its enrichment, and that a minted trace is found with one payment, in its jobs as well as in its records (`OnePayment`).
- `ServiceRuntime`: `RuntimeTypeCorrect`, `WorkHasItsDependencies` (`NothingUsesAClosedDependency`), `CleanExitIsClean` (`CleanExit`), `DrainingLooksUnready`
  (`DrainingIsNotReady`). The lemma `Layout` is about the three lists of drain steps: what an activity uses is closed by no earlier step than the one
  that stops it. `StoppedOnes` and `ClosedOnes` say that the steps before the current one have done so.
- `RequestPipeline`: `CountersAreExact` (`AnswersAreCounted`, `CountersOnlyGrow`). `CountersInv`: the table has finitely many label sets.
  What a class of requests was counted is the cardinality of a set of units, and so needs no sum.
- `Migration`: `MigrationInvariance`, `MigrationTypeCorrect`, `MigrationsLeaveTheirFile` (`DoneIsDeployed`), `BuildsDoNotFailEachOther`
  (`OnlyAChangeFails`). `MigrationInv` adds that the lock has one holder and is held throughout a transaction (`LockAlone`), that a file is recorded
  exactly when its schema was made (`RecordedIsMade`), and what an open transaction has read and written so far (`TransactionInv`);
  without the first a comparison could be overtaken by another deployer's record.
- `RateLimit`: `TwoWindowsPass` (`TwoWindowsAtMost`), `RefusalsAreEarned` (`RefusalIsEarned`). `RateInv`: the row counts the calls
  granted since its window opened, those it counts began at most `Delay` before it, and one window's worth came before (`RowInv`); where
  there is no row, at most a window's worth is near enough to matter (`NoRowInv`), for no statement waits longer than `Delay` (`WaitInv`).
- `ServiceClient`: `ClientTypeCorrect`, `AnswersAreOnesOwn` (`OwnDataOnly`), `AnswersAreFresh` (`FreshWhereItMatters`), `RefusalsAreTrue` (`RefusedIsNotDone`).
  `ClientInv`: what is in the shared cache was made for nobody in particular (`CacheIsAnonymous`), and what was done or refused is no longer at the service.

`CatalogueProofs.tla`, for any products, variants, categories, administrators, relays, workers, purchases and faults:

- `ProductOutbox`: `OutboxTypeCorrect`, `NoStockWithoutProduct`, `EventsTell` (`EventsTellTheCatalog`), `OnlyOwnersFinish` (`OnlyTheClaimFinishes`) and
  `OutboxKeepsThePromise`, the refinement of `DurableJobs`. `OutboxInv` adds that two relays that hold one event have different attempts
  (`ClaimsDiffer`), which fences the older, and that what is published was sent.
  `Told`: the newest event of a product tells the revision of its row, and its category unless that was renamed since.
- `StripeCatalog`: `SyncTypeCorrect`, `SyncedWhenQuiet` (`QuietIsSynchronised`), `DeletedIsOffSale` (`DeletedHasNoActivePrice`), `PriceNeverGoesBack`
  (`NeverOlderPrice`). `StripeInv` says whose price holds the lookup key (`KeyIsNewest`), how far a run has come with what it read
  (`SeenIsNewest`, `Come`), and that as long as Stripe is not as the product is, a hint is open that nobody has, or the worker with the lock has read the
  product as it is (`SomebodyWill`). It was written by checking it with TLC first.
- `CatalogSeed`: `SeedTypeCorrect`, `SeedsAreStoredOnce` (`OneProductPerName`), `ReplaysAreComplete` (`ReplayIsComplete`). `KnownInv`: whoever bears the name of a
  product still to come is the row the run read for it, because editors give no product a seed's name; `SilentInv`: a product that
  no event told of is one of the seeds, stored by the run or still before it. Without `SilentInv` nothing is known of what earlier,
  failed runs left. The proof asked for a condition on the constants that the model had silently used: no
  category is called as the mark of a deleted row.
- `ThemeTabs`: `TabsAgree` (`QuietTabsAgree`), `ChoicesStay` (`LastChoiceStays`). `ThemeInv`: a tab shows what is stored, or the news of it is on
  its way (`HeardInv`).
- `StockConsole`: `CountsAreMeant` (`SavesWhatWasMeant`), `CountsAreLoaded` (`SavesOnLoadedCounts`); a draft is of the variant it is shown with.
- `CatalogConsole`: `SavesAreForWhatWasOpened` (`SavesWhatWasOpened`), `OwnWorkIsShown` (`RestShowsOwnWork`). `OpenedInv`: the form in the sheet was filled
  from the item that the save will name; `RefreshInv`: what a refresh under way will show is no older than what was saved before it.
- `ProductForm`: `UntouchedPicturesStay` (`PicturesStay`), `PicturesDoNotMove` (`PicturesKeepTheirColor`), from what the lines of the form say (`LinesInv`).
- `AdminReports`: `EachPaymentCountsOnce` (`CountedOnce`), `KnownPaymentsCount` (`KnownPaymentsAreCounted`).

`BrowsingProofs.tla`, lemmas for any catalogue, cart, page size, number of readers and edits:

- `ProductChoice` (`ChoiceInv`): the units a page shows were there at some moment since it was asked for (`UnitsWereThere`).
- `CartCheck` (`CheckInv`): each line that was passed is answered or in the hands of a worker (`LinesAccounted`).
- `OrderHistory` (`HistoryInv`) and `SitemapWalk` (`WalkInv`): an item that was there all along is seen, or its place in the list is behind the
  pages read so far (`Turned`, `PageKept`). Places in a finite set of numbers are cardinalities; their lemmas come first.
- `CatalogBrowse` (`BrowseInv`): where the visitor is going is what he asked for (`OnTheWay`); while nobody edits, what was read is so still
  (`ReadSoFar`), and a walk has seen the matches from the first on (`Walked`).

`PayingProofs.tla`, for any tabs, accounts, visits, requests, retries and faults:

- `PaymentForm`: `FormTypeCorrect`, `PaidForWhatWasShown` (`PaidAsShown`), `CallsDoNotOvertake` (`OneCallAtATime`). `FormInv`: calls of several forms wait at
  Stripe in the order of the forms (`CallsInOrder`); a confirmation among them is the next, and Stripe has by then what the customer agreed to
  (`ConfirmIsNext`); `Progress` says what Stripe has when the form on the page has come so far.
- `SharedBrowser`: `SharedTypeCorrect`, `FormIsTheOwners` (`FormIsForItsAccount`), `PaymentIsTheBuyers` (`PaymentShownToItsBuyer`), `CartIsTheBuyers`
  (`CartLeavesWithItsBuyer`). `SharedInv`: the answer the payment step waits for is for the account and the cart it shows (`AskedAsShown`); a return record
  tells the cart of its session (`MemoIsTrue`). `MaxPolls # 0` is assumed: in the code a status still processing is asked for four times more.
- `CheckoutAttempt`: `NobodyPaysTwice` (`NotPaidTwice`), `ClearedIsPaid` (`ClearedCopyWasPaid`), `PaidWithDetails` (`PaidWithTheDetailsShown`). `AttemptInv`: the
  carts an attempt is known for, in requests on their way, at payment-service and in the tab, have one signature (`OneSignature`), the next attempt of
  a tab has another unless the former was acknowledged or lapsed (`NextDiffers`), and a tab saves its last attempt until then (`SavedIsLast`).
- `CheckoutSteps` (`StepsInv`): every entry of the history but the first was a link that was followed (`LinksFollowed`); the details
  taken are as the form takes them, so that reading them back gives the same (`DetailsTaken`).

`StorefrontProofs.tla`, for any products, stores and tabs, before the composition:

- `BrowserStorage` (`StorageInv`): while a tab is not cut off, the storage is at least as new as what the tab was last told (`StorageIsAhead`).
- `ShoppingBag` (`BagInv`): the bag is stored as it is and within what a stored bag may be (`LinesFit`).

Names in brackets are what the runs check. The proofs use the assumptions that the modules name (`RateLimitAssumption`, ...) and
that the runs evaluate. Most say that bounds are natural numbers. Those that say more:

- `RateLimit`: `Window + Delay <= Day`. A statement is given up after 10 seconds, a window is 60 seconds, cleanup deletes rows
  after a day.
- `SharedBrowser`: `MaxPolls # 0`; a status still processing is asked for four times more.
- `CheckoutAttempt`: finitely many items, as a signature sorts them. `OrderHistory`, `StockConsole`: at least one order, one unit and one variant.
- `ShoppingBag`, `CartCheck`, `SitemapWalk`, `CatalogBrowse`: page sizes, limits and workers are not 0; carts have a line.
- `ProductForm`: the kinds of texts exclude one another. `CatalogConsole`, `BrowserStorage`: so do the kinds of items, and of tabs.
- `CatalogSeed`: the seeds have distinct names, which the other editors do not use.
- marks such as `Nobody`, `Out`, `NoAnswer` are none of the values they stand beside; `Cardinality` needs the sets it counts to be finite.

Only model-checked: liveness under fairness and `ENABLED` (`PaidIsOrdered`, `ExpiredIsReleased`, `EverythingSettles`), which are out of the
prover's reach. Induction over data is too; where a component folds over a sequence, its module writes the fold as a recursive
function or a set, and the proofs use only what its definition says at once.

## 5. What is left out, and why

Of the parts that are modelled:

- **Wording, prices in cents, addresses, layout, logging**: no property depends on them. A missing delivery address is one of the
  ways an enrichment fails.
- **Legacy sessions** without a checkout id: they hold no stock.
- **A hold without a session**: when a process dies between the hold and the creation of the session, reconciliation leaves the
  purchase alone by design (`docs/adr/0002-payment-inventory.md`) and an operator must decide. No property claims that these units return.
- **One broken item in reconciliation**: a release that fails for ever ends every pass at the same place. The fairness of
  `checkout_live` assumes that failures are transient.
- **A recount against an old page**, and a recount whose lost request arrives late: `setStock` takes an absolute count by design.
- `InventoryTx`, `PaymentJobs`: statements of one transaction that no other transaction can see are one step.
- `StripeCatalog`: the advisory lock belongs to a connection (StripeCatalogService.ts:15-23); that it is lost while its worker lives and
  goes on calling Stripe is not modelled, so nothing is claimed of that case; one product, since products share nothing; a hint that is quarantined after eight failures, the busy lock among
  them, is not counted.
- `ServiceRuntime`: payment's monitor sets readiness while the service drains, so `DrainingIsNotReady` is claimed of product and
  order only; a handler that the request timeout answered for is not awaited by a drain; payment's `stripe.api` task is left out; a
  configured webhook secret and enabled workers are assumed; the consumer's `healthy` flag is left out.
- `RequestPipeline`: metrics enabled; no restart (counters start again from zero); validation is among the failures of a handler.
- `ProductOutbox`: a new slug is of no product yet, for it is unique; creating and deleting categories touches no product.
- `RateLimit`: one key, since rows share nothing; the database's clock does not go back.
- `KafkaTopics`: the three product topics are one name; a disconnect that throws is left out. That one missing broker makes payment
  report "not ready", though every topic exists, is a hazard without a property.
- `TraceChain`: span ids and parsing rules; a job that is done is not redriven.
- `CheckoutAttempt`: one signed-in account (several are in `SharedBrowser`); a change of quantity is a removal and an addition; denied storage
  is in `BrowserStorage`; calls for one Stripe session land in their order. A second payment after the attempt's hour, or by a cart
  changed and changed back, or by another tab, is outside `NotPaidTwice`.
- `SharedBrowser`: answers come with their body (the 20-second timer covers headers only); expiry of attempts, reloads and the order of items are
  in `CheckoutAttempt`; records made in the lag between a change of account and the tab's notice of it are exempted.
- `CheckoutSteps`: Next's router lets the last navigation win and makes no second entry for the same address.
- `PaymentForm`: Stripe takes the calls of one session in order; details change only while the form is away; an error of the provider is
  left by leaving the form.
- `ShoppingBag`: merged lines keep the data of the older one; other tabs are in `CheckoutAttempt`. `BrowserStorage`: after a reload what the
  storage kept is all there is.
- `ProductChoice`: state is kept across navigations to the same page; a choice that was made implicitly, by the default colour, is not
  kept when the product reorders its colours; the bag's limit is in `ShoppingBag`.
- `CatalogBrowse`: the back button, the search form of other pages, unknown categories and over-long searches. A link clicked while another
  navigation is pending starts from the page still shown, so the earlier choice is lost, as in the code.
- `ProductForm`: colors with commas (`parseCsv` splits them), names that every JavaScript object has, and texts other than colors, pictures
  and price. A color that begins like a path makes its own line an address for all colors: the two properties except that line, and
  hold for such colors when the pictures are written as JSON.
- `CatalogConsole`, `StockConsole`: filters, pages and a refresh that fails; Next answers refreshes in order. A variant stands for a size with
  a colour. Creations have no identity, so a creation submitted again after a lost answer makes two.
- `AdminReports`: the overview's list of transactions, amounts, averages, sorting, latest activity, the timeline and health cards; one payment process; orders carry session and
  intent ids.
- `CartCheck`: the range check of the total and the saving, which is in `Checkout`.
- `ThemeTabs`: the system's preference is followed, as the layout configures; events arrive in the order of writes.
- `CatalogSeed`: one run at a time; editors do not use the seeds' names (a name is not unique in the schema); a renamed category's
  cascade is not counted as unannounced; reruns overwrite editors' changes by design.
- `ServiceClient`: Next's cache is assumed to be keyed by the operation, the worst case; no page asks for cached answers today, but the
  options and the tests allow it. The merging of headers is left out.

Not modelled:

- **Markup, metadata, navigation bars, icons, vendored interface components** (`components/ui`): no state that another part depends on.
  The dialog and the remembered colour of a product card are a hazard without a property.
- **Contracts, schemas and shared types**: they decide which inputs a handler sees; each module takes its inputs from what they let through.
- **Generated contracts, deployment, charts, scripts, examples and tests**: configuration and data.
- **Clerk and Stripe**: external; modelled from how the code uses them, and marked so in the map.
- **The connection of the Kafka producer**: a publication is a call that may fail before or after its effect.

## 6. Findings

Two runs show a disagreement between the code and what is said of it:

- `payment_jobs_limit`: `docs/adr/0002-payment-inventory.md:41` says "retries stop at quarantine after eight failures". Only `fail` compares the
  attempts with the limit. `claim` (payment-store.ts:176) takes over every job whose lease ran out, so a job that
  kills its worker, or whose worker cannot write in `fail`, is attempted beyond the limit and never quarantined.
- `checkout_additions`: `docs/OPERATIONS.md:29-30` says "Adding items while payment is underway cannot silently erase the additions", and
  the return page tells the customer that changes made during checkout have been kept (ReturnClient.tsx:146). The page compares the
  paid cart with the copy its tab read when it loaded (ReturnClient.tsx:77), and then stores the empty cart. In the run another tab
  stores an item between the two; the copy still matches, and the item is gone. `ClearedCopyWasPaid`, which holds, says no more
  than that the copy was paid for.

Others were met while modelling. The models contain the behaviour, and the properties are stated so that they hold with it; no
run is given to them:

- Creating the successor of a price moves the lookup key away, and only prices that hold it are listed and archived
  (StripeCatalogService.ts:56, 116); a failure between the two leaves the old price active for ever. `DeletedHasNoActivePrice` is
  therefore claimed only of behaviours in which no call failed.
- `updateCategory` (CategoryService.ts:61) changes products by a cascade and enqueues no event, so Stripe keeps the old slug until
  the product changes; ADR 0001 has every product change announced. `ProductOutbox!EventsTellTheCatalog` excepts the category of a
  product whose category was renamed since, and `StripeCatalog!QuietIsSynchronised` claims the category only of behaviours
  without a renaming.
- order-service's monitor (order-service/src/index.ts:88) marks the database ready on a ping, although
  `docs/OPERATIONS.md:34` wants usable migrated storage.
- The browser compares a sorted signature of the cart, the service a hash of the cart as sent (StripeCheckoutService.ts:237): an
  item removed and added again is refused as a different cart until the attempt's hour is over.
- The status page enqueues without the trace of its request (StripeCheckoutService.ts:428), against `docs/QUALITY.md:12`.
- The administration's overview waits for an event that no code records (admin/src/app/page.tsx:82), so its "Successful payments will
  appear here as they arrive." never comes true.
- "Decrease quantity" (ProductInteraction.tsx:49) lowers the number once requested, not the one shown.
- "Check your connection and try again." (CheckoutForm.tsx:90) is said of a failed transfer of the details that nothing on the form
  starts again.

## 7. What could follow

The code the map does not cover is markup, schemas, generated and vendored code. Worth adding:

1. The loss of the connection that holds a lock under a living worker, in `StripeCatalog`: which of its promises survive.
2. `checkout_additions` turned into a run that passes, once the return page takes the paid lines out of the stored cart instead of
   emptying it.
3. Proofs that the other constants of `MCEventually` would do: liveness is checked on one small instance of each component.
