---------------------------- MODULE StripeCatalog ----------------------------
(***************************************************************************)
(* Synchronisation of one catalog product with Stripe                      *)
(* (StripeCatalogService.reconcileProduct).  Catalog events are hints: each*)
(* becomes a durable job (utils/subscriptions.ts), and whoever works on it *)
(* reads the product as it is then, under an advisory lock.  Products share*)
(* nothing, so one of them is enough.                                      *)
(*                                                                         *)
(* Every call to the product service and to Stripe is a step of its own.   *)
(* A worker may fail or die before each of them; the transaction is rolled *)
(* back, which frees the lock, and the hint stays open.  The lock belongs  *)
(* to the transaction's connection: that the connection is lost while its  *)
(* worker lives and goes on calling Stripe is not modelled.                *)
(***************************************************************************)
EXTENDS Integers, FiniteSets

CONSTANTS
  Worker,      \* catalog loops of the payment service
  Amount,      \* prices in cents
  Category,    \* category slugs
  MaxChanges,  \* bound on catalog writes after the creation
  MaxRepeats,  \* bound on hints delivered under a second Kafka offset
  MaxRenames,  \* bound on category renames
  MaxFaults    \* bound on failed calls and crashes

\* What is asked of the constants.
CatalogAssumption ==
  /\ IsFiniteSet(Worker)
  /\ {MaxChanges, MaxRepeats, MaxRenames, MaxFaults} \subseteq Nat

VARIABLES
  source,  \* the product service's row; rev is its updatedAt
  hints,   \* the number of open catalog jobs of the product
  budget,  \* what is left of the bounds
  stripe,  \* Stripe's product, its default price, and the category it records
  price,   \* Stripe's prices, by the revision in their idempotency key
  run,     \* what each worker is doing
  lock     \* the holders of the advisory lock

vars == <<source, hints, budget, stripe, price, run, lock>>

Revs == 1..(MaxChanges + 1)
NoPrice == [state |-> "absent", amount |-> 0, keyed |-> FALSE]
Idle == [step |-> "idle", seen |-> [live |-> FALSE, rev |-> 0, amount |-> 0, category |-> "none"],
         listed |-> {}, price |-> 0]

Init ==
  /\ \E m \in Amount, c \in Category :
       source = [live |-> TRUE, rev |-> 1, amount |-> m, category |-> c]
  /\ hints = 1
  /\ budget = [repeats |-> MaxRepeats, renames |-> MaxRenames, faults |-> MaxFaults]
  /\ stripe = [active |-> FALSE, known |-> FALSE, default |-> 0, category |-> "none"]
  /\ price = [r \in Revs |-> NoPrice]
  /\ run = [w \in Worker |-> Idle]
  /\ lock = {}

Spend(what) == budget[what] > 0 /\ budget' = [budget EXCEPT ![what] = @ - 1]

-----------------------------------------------------------------------------
(* The product service; every write leaves an event, hence a hint *)

Update(m, c) ==
  /\ source.live /\ source.rev <= MaxChanges
  /\ source' = [source EXCEPT !.rev = @ + 1, !.amount = m, !.category = c]
  /\ hints' = hints + 1
  /\ UNCHANGED <<budget, stripe, price, run, lock>>

Delete ==
  /\ source.live
  /\ source' = [source EXCEPT !.live = FALSE]
  /\ hints' = hints + 1
  /\ UNCHANGED <<budget, stripe, price, run, lock>>

\* A renamed slug reaches the products through ON UPDATE CASCADE, without event.
RenameCategory(c) ==
  /\ source.category # c
  /\ Spend("renames")
  /\ source' = [source EXCEPT !.category = c]
  /\ UNCHANGED <<hints, stripe, price, run, lock>>

\* The relay publishes an event twice: two offsets, two hints.
RepeatHint ==
  /\ Spend("repeats")
  /\ hints' = hints + 1
  /\ UNCHANGED <<source, stripe, price, run, lock>>

-----------------------------------------------------------------------------
(* reconcileProduct *)

At(w, step) == run[w].step = step
Goto(w, step) == run' = [run EXCEPT ![w].step = step]

\* A faulty form of TryLock that does not look at the answer.
TryLockIgnored == TRUE

TryLock == lock = {}

\* pg_try_advisory_xact_lock; a busy product fails the attempt, the hint stays.
Begin(w) ==
  /\ At(w, "idle")
  /\ hints > Cardinality({u \in Worker : ~At(u, "idle")})
  /\ TryLock
  /\ lock' = lock \cup {w}
  /\ Goto(w, "read")
  /\ UNCHANGED <<source, hints, budget, stripe, price>>

\* getProduct: the current row, or 404.
ReadSource(w) ==
  /\ At(w, "read")
  /\ run' = [run EXCEPT ![w].seen = source, ![w].step = "list"]
  /\ UNCHANGED <<source, hints, budget, stripe, price, lock>>

\* The Stripe product comes from payment.catalog or is adopted by its metadata;
\* prices.list returns the active prices that hold the lookup key.
ListPrices(w) ==
  /\ At(w, "list")
  /\ run' = [run EXCEPT ![w].listed = {r \in Revs : price[r].state = "active" /\ price[r].keyed},
                        ![w].step = IF run[w].seen.live THEN "product" ELSE "retire"]
  /\ UNCHANGED <<source, hints, budget, stripe, price, lock>>

\* products.create, when Stripe does not know it, and products.update.
WriteProduct(w) ==
  /\ At(w, "product")
  /\ stripe' = [stripe EXCEPT !.known = TRUE, !.active = TRUE, !.category = run[w].seen.category]
  /\ Goto(w, "price")
  /\ UNCHANGED <<source, hints, budget, price, lock>>

Matches(w) == {r \in run[w].listed : price[r].amount = run[w].seen.amount}

\* A listed price of the wanted amount is kept, else one is created under the
\* revision's idempotency key; the lookup key moves to the new price.
ChoosePrice(w) ==
  LET rev == run[w].seen.rev IN
    /\ At(w, "price")
    /\ IF Matches(w) # {}
         THEN /\ \E r \in Matches(w) :
                   run' = [run EXCEPT ![w].price = r, ![w].step = "default"]
              /\ UNCHANGED price
         ELSE /\ run' = [run EXCEPT ![w].price = rev, ![w].step = "default"]
              /\ price' = IF price[rev].state # "absent" THEN price
                          ELSE [r \in Revs |->
                            IF r = rev
                              THEN [state |-> "active", amount |-> run[w].seen.amount, keyed |-> TRUE]
                              ELSE [price[r] EXCEPT !.keyed = FALSE]]
    /\ UNCHANGED <<source, hints, budget, stripe, lock>>

SetDefault(w) ==
  /\ At(w, "default")
  /\ stripe' = [stripe EXCEPT !.default = run[w].price]
  /\ run' = [run EXCEPT ![w].listed = @ \ {run[w].price}, ![w].step = "retire"]
  /\ UNCHANGED <<source, hints, budget, price, lock>>

\* The listed prices that are not wanted any more, one call for each.
RetirePrice(w) ==
  /\ At(w, "retire")
  /\ \E r \in run[w].listed :
       /\ price' = [price EXCEPT ![r].state = "inactive"]
       /\ run' = [run EXCEPT ![w].listed = @ \ {r}]
  /\ UNCHANGED <<source, hints, budget, stripe, lock>>

Retired(w) ==
  /\ At(w, "retire") /\ run[w].listed = {}
  /\ stripe' = IF run[w].seen.live THEN stripe ELSE [stripe EXCEPT !.active = FALSE]
  /\ Goto(w, "commit")
  /\ UNCHANGED <<source, hints, budget, price, lock>>

\* COMMIT stores the mapping and frees the lock; the job is completed after it.
Commit(w) ==
  /\ At(w, "commit")
  /\ lock' = lock \ {w}
  /\ Goto(w, "complete")
  /\ UNCHANGED <<source, hints, budget, stripe, price>>

Complete(w) ==
  /\ At(w, "complete")
  /\ hints' = hints - 1
  /\ run' = [run EXCEPT ![w] = Idle]
  /\ UNCHANGED <<source, budget, stripe, price, lock>>

\* A call throws, or the process dies: ROLLBACK, and the job is tried again.  The
\* worker stops as the lock is freed (a lost connection is not modelled).
Fail(w) ==
  /\ ~At(w, "idle")
  /\ Spend("faults")
  /\ run' = [run EXCEPT ![w] = Idle]
  /\ lock' = lock \ {w}
  /\ UNCHANGED <<source, hints, stripe, price>>

-----------------------------------------------------------------------------
Work(w) ==
  \/ Begin(w) \/ ReadSource(w) \/ ListPrices(w) \/ WriteProduct(w) \/ ChoosePrice(w)
  \/ SetDefault(w) \/ RetirePrice(w) \/ Retired(w) \/ Commit(w) \/ Complete(w)

Next ==
  \/ \E m \in Amount, c \in Category : Update(m, c)
  \/ Delete
  \/ \E c \in Category : RenameCategory(c)
  \/ RepeatHint
  \/ \E w \in Worker : Work(w) \/ Fail(w)

Spec == Init /\ [][Next]_vars

-----------------------------------------------------------------------------
(* Properties *)

\* Stripe's prices, the runs and the lock have their declared types.
TypeOK ==
  /\ price \in [Revs -> [state : {"absent", "active", "inactive"},
                         amount : Amount \cup {0}, keyed : BOOLEAN]]
  /\ stripe.default \in Revs \cup {0}
  /\ \A w \in Worker : run[w].listed \subseteq Revs /\ run[w].price \in Revs \cup {0}
  /\ lock \subseteq Worker
  /\ hints \in Nat

Quiet == hints = 0 /\ \A w \in Worker : At(w, "idle")
OnSale == {r \in Revs : price[r].state = "active"}

\* When every hint was worked off Stripe shows the product as it is: the lookup
\* key and the default price name an active price of the current amount, or the
\* product is archived, in whatever order the hints were handled and whatever
\* runs failed half way (reconcileProduct); and the recorded category is the
\* product's, unless it was renamed, which gives no hint.
QuietIsSynchronised ==
  Quiet =>
    /\ stripe.known => (stripe.active <=> source.live)
    /\ source.live =>
         /\ stripe.known /\ stripe.default \in OnSale
         /\ price[stripe.default].amount = source.amount
         /\ {r \in OnSale : price[r].keyed} = {stripe.default}
         /\ budget.renames = MaxRenames => stripe.category = source.category

\* In every step, the default price never goes back to an older revision of the product, as
\* the lock orders the reads of the product with the writes to Stripe.
NeverOlderPrice == stripe'.default >= stripe.default

\* Of a product that is gone no active price is left, as
\* integration-tests/payment-inventory.test.ts:520 has it, unless a run failed.
DeletedHasNoActivePrice ==
  budget.faults = MaxFaults /\ Quiet /\ ~source.live => OnSale = {}
=============================================================================
