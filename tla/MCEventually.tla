---------------------------- MODULE MCEventually ----------------------------
(***************************************************************************)
(* What has to happen at last, component by component, on small instances   *)
(* and under the fairness that the timers, the retries and the restarts of  *)
(* the code justify.                                                        *)
(***************************************************************************)
EXTENDS Integers, Sequences, TLC

CONSTANTS a, b, c

\* The component that runs gives its own names to the first of the variables.
VARIABLES part, v1, v2, v3, v4, v5, v6, v7, v8, v9, v10, v11, v12, v13, v14

all == <<part, v1, v2, v3, v4, v5, v6, v7, v8, v9, v10, v11, v12, v13, v14>>

MCSeeds == <<[name |-> "tee", slug |-> "shirts"], [name |-> "coat", slug |-> "outerwear"]>>

MCKind == <<"denim", "shoes">>
At(path, category, page) ==
  [path |-> path, category |-> category, search |-> "none", sort |-> "none", page |-> page]
MCLandings == {At("products", "none", 2), At("products", "denim", 3), At("admin", "none", 3)}

Both == [sizes |-> <<"S", "M">>, colors |-> <<"red", "blue">>]
MCStock == [v \in [size : {"S", "M"}, color : {"red", "blue"}] |-> 1]

\* One purchase, two replicas; two crashes, stalls, storage errors or redrives.
Jobs == INSTANCE PaymentJobs WITH
  Purchase <- {c}, CatalogHint <- {}, Replica <- {a, b}, MaxAttempts <- 2, MaxFaults <- 2,
  job <- v1, loop <- v2, payment <- v3, performed <- v4, faults <- v5

\* Two relays, two events, two crashes or failed calls.
Relay == INSTANCE ProductOutbox WITH
  Product <- {c}, Variant <- {}, Category <- {"tops"}, Admin <- {}, Replica <- {a, b}, MaxEvents <- 2,
  MaxEdits <- 0, MaxFaults <- 2,
  product <- v1, stock <- v2, outbox <- v3, sent <- v4, request <- v5, relay <- v6,
  edits <- v7, faults <- v8

\* Two workers, a product that changes twice, two failures.
Stripe == INSTANCE StripeCatalog WITH
  Worker <- {a, b}, Amount <- {10, 20}, Category <- {"tops"}, MaxChanges <- 2,
  MaxRepeats <- 0, MaxRenames <- 0, MaxFaults <- 2,
  source <- v1, hints <- v2, budget <- v3, stripe <- v4, price <- v5, run <- v6,
  lock <- v7

\* Two products, a run that fails twice and an edit.
Seed == INSTANCE CatalogSeed WITH
  Seeds <- MCSeeds, OtherNames <- {"other"}, OtherSlugs <- {"new"}, MaxRuns <- 1,
  MaxFaults <- 2, MaxEdits <- 1,
  slugs <- v1, rows <- v2, silent <- v3, at <- v4, todo <- v5, known <- v6,
  next <- v7, stored <- v8, ended <- v9, calm <- v10, runs <- v11, faults <- v12,
  edits <- v13

\* Two replicas, two records, one rebalance, crash or failed call.
Consumer == INSTANCE EventConsumer WITH
  Member <- {a, b}, Order <- {c}, NoOne <- "no one", Attempts <- 2, MaxLog <- 2,
  MaxFaults <- 1,
  log <- v1, owner <- v2, committed <- v3, dead <- v4, orders <- v5, member <- v6,
  fixed <- v7, faults <- v8

\* Three brokers, some of which go away and come back.
Topics == INSTANCE KafkaTopics WITH
  Brokers <- 3, Replicas <- {0}, Minima <- {0}, MaxOutages <- 1, MaxFaults <- 0,
  MaxRestarts <- 0,
  env <- v1, live <- v2, topics <- v3, proc <- v4, open <- v5, published <- v6,
  outages <- v7, faults <- v8, restarts <- v9

\* Outages of the storage and of the broker, and a closing step that throws.
Runtime == INSTANCE ServiceRuntime WITH
  MaxFlips <- 2, MaxFaults <- 1,
  service <- v1, up <- v2, migrated <- v3, linked <- v4, boot <- v5, on <- v6,
  busy <- v7, closed <- v8, ready <- v9, drain <- v10, phase <- v11, flips <- v12,
  faults <- v13

\* Two deployers of one build.
Migrate == INSTANCE Migration WITH
  Deployer <- {a, b}, File <- {c}, MaxFaults <- 2,
  pc <- v1, file <- v2, lock <- v3, tables <- v4, version <- v5, made <- v6,
  faults <- v7

\* One call of any operation.
Client == INSTANCE ServiceClient WITH
  Calls <- {1}, Accounts <- {"ann"}, Nobody <- "nobody", NoAnswer <- "no answer",
  MaxChanges <- 1,
  call <- v1, landed <- v2, version <- v3, cache <- v4

\* An account that signs out and in again between the pages.
Shared == INSTANCE SharedBrowser WITH
  Account <- {"ann"}, Out <- "out", MaxCart <- 1, MaxPolls <- 2, MaxAsks <- 2,
  MaxSwitches <- 2, MaxEdits <- 1, MaxVisits <- 2,
  cookie <- v1, seen <- v2, cart <- v3, saved <- v4, memo <- v5, page <- v6,
  form <- v7, back <- v8, sent <- v9, session <- v10, asks <- v11, switches <- v12,
  edits <- v13, visits <- v14

\* Every address a visit may begin with; two links and two moves.
Steps == INSTANCE CheckoutSteps WITH
  Field <- {"state"}, MaxTyped <- 1, MaxPushes <- 2, MaxMoves <- 2,
  history <- v1, at <- v2, pending <- v3, hasMounted <- v4, items <- v5,
  shippingForm <- v6, values <- v7, errors <- v8, typed <- v9, pushes <- v10,
  moves <- v11

\* Two visits to the payment form and two faults.
PayForm == INSTANCE PaymentForm WITH
  Details <- {"home", "work"}, Nothing <- "nothing", MaxVisits <- 2, MaxFaults <- 2,
  visit <- v1, page <- v2, shown <- v3, provider <- v4, sync <- v5, element <- v6,
  filledIn <- v7, confirming <- v8, calls <- v9, held <- v10, paid <- v11,
  agreed <- v12, faults <- v13

\* Two products that are deleted under the pages of the catalog.
Browse == INSTANCE CatalogBrowse WITH
  Product <- {1, 2}, Initial <- {1, 2}, Kind <- MCKind, Words <- {1, 2},
  Prices <- {1}, FirstPrices <- {<<1, 1>>}, HomeLimit <- 1, PageSize <- 1,
  Landings <- MCLandings, MaxClicks <- 1, MaxEdits <- 2,
  catalog <- v1, price <- v2, edits <- v3, url <- v4, shown <- v5, pending <- v6,
  clicks <- v7, want <- v8, walk <- v9

\* Two sizes and two colours of a product that may be deleted.
Choice == INSTANCE ProductChoice WITH
  Sizes <- {"S", "M"}, Colors <- {"red", "blue"}, Offers <- {Both},
  FirstOffer <- Both, FirstStock <- MCStock, MaxUnits <- 1, Moving <- {},
  MaxMoves <- 0, MaxItemQuantity <- 1, NoChoice <- "none",
  offer <- v1, stocks <- v2, address <- v3, nav <- v4, pending <- v5, view <- v6,
  product <- v7, selected <- v8, answered <- v9, available <- v10, asked <- v11,
  requestedQuantity <- v12, added <- v13

ASSUME EventuallyAssumption ==
  /\ Relay!OutboxAssumption
  /\ Stripe!CatalogAssumption
  /\ Seed!SeedAssumption
  /\ Consumer!ConsumerAssumption
  /\ Topics!KafkaTopicsAssumption
  /\ Runtime!RuntimeAssumption
  /\ Migrate!MigrationAssumption
  /\ Client!ClientAssumption
  /\ Shared!SharedBrowserAssumption
  /\ Steps!CheckoutStepsAssumption
  /\ PayForm!PaymentFormAssumption
  /\ Browse!CatalogBrowseAssumption
  /\ Choice!ChoiceAssumption

-----------------------------------------------------------------------------
(* One component to a behaviour.  What it has no name for stays Unused.      *)

Unused == "unused"

\* Part p, with n variables, is the one that runs.
Begin(p, n) ==
  /\ part = p
  /\ (n < 5 => v5 = Unused)   /\ (n < 6 => v6 = Unused)   /\ (n < 7 => v7 = Unused)
  /\ (n < 8 => v8 = Unused)   /\ (n < 9 => v9 = Unused)   /\ (n < 10 => v10 = Unused)
  /\ (n < 11 => v11 = Unused) /\ (n < 12 => v12 = Unused) /\ (n < 13 => v13 = Unused)
  /\ (n < 14 => v14 = Unused)

\* A step of part p.
In(p, n) ==
  /\ part = p /\ part' = p
  /\ (n < 5 => v5' = v5)    /\ (n < 6 => v6' = v6)    /\ (n < 7 => v7' = v7)
  /\ (n < 8 => v8' = v8)    /\ (n < 9 => v9' = v9)    /\ (n < 10 => v10' = v10)
  /\ (n < 11 => v11' = v11) /\ (n < 12 => v12' = v12) /\ (n < 13 => v13' = v13)
  /\ (n < 14 => v14' = v14)

Init ==
  \/ Begin("jobs", 5) /\ Jobs!Init
  \/ Begin("relay", 8) /\ Relay!Init
  \/ Begin("stripe", 7) /\ Stripe!Init
  \/ Begin("seed", 13) /\ Seed!Init
  \/ Begin("consumer", 8) /\ Consumer!Init
  \/ Begin("topics", 9) /\ Topics!Init
  \/ Begin("runtime", 13) /\ Runtime!Init
  \/ Begin("migration", 7) /\ Migrate!Init
  \/ Begin("client", 4) /\ Client!Init
  \/ Begin("shared", 14) /\ Shared!Init
  \/ Begin("steps", 11) /\ Steps!Init
  \/ Begin("form", 13) /\ PayForm!Init
  \/ Begin("browse", 9) /\ Browse!Init
  \/ Begin("choice", 13) /\ Choice!Init

JobsStep == In("jobs", 5) /\ Jobs!Next
RelayStep == In("relay", 8) /\ Relay!Next
StripeStep == In("stripe", 7) /\ Stripe!Next
SeedStep == In("seed", 13) /\ Seed!Next
ConsumerStep == In("consumer", 8) /\ Consumer!Next
TopicsStep == In("topics", 9) /\ Topics!Next
RuntimeStep == In("runtime", 13) /\ Runtime!Next
MigrateStep == In("migration", 7) /\ Migrate!Next
ClientStep == In("client", 4) /\ Client!Next
SharedStep == In("shared", 14) /\ Shared!Next
StepsStep == In("steps", 11) /\ Steps!Next
PayFormStep == In("form", 13) /\ PayForm!Next
BrowseStep == In("browse", 9) /\ Browse!Next
ChoiceStep == In("choice", 13) /\ Choice!Next

Next ==
  \/ JobsStep \/ RelayStep \/ StripeStep \/ SeedStep \/ ConsumerStep
  \/ TopicsStep \/ RuntimeStep \/ MigrateStep \/ ClientStep
  \/ SharedStep \/ StepsStep \/ PayFormStep \/ BrowseStep
  \/ ChoiceStep

\* Timers fire, relays, workers and consumers go on, services and browsers do what
\* they were asked, failed jobs are restarted, and a free lock is granted at last.
\* A loop of payment-service polls every second and always ends the job it holds;
\* delays end, and so do the leases of claims that nobody works under.
Fairness ==
  /\ \A l \in Jobs!Loop : WF_all(In("jobs", 5) /\ Jobs!Step(l))
  /\ \A j \in Jobs!Job : WF_all(In("jobs", 5) /\ Jobs!BackoffEnds(j))
  /\ \A j \in Jobs!Job : WF_all(In("jobs", 5) /\ Jobs!LeaseEnds(j))
  /\ \A r \in {a, b} : WF_all(In("relay", 8) /\ Relay!RelayStep(r))
  /\ \A i \in 1..2 : WF_all(In("relay", 8) /\ Relay!TimePasses(i))
  /\ \A w \in {a, b} : WF_all(In("stripe", 7) /\ Stripe!Work(w))
  /\ WF_all(In("seed", 13) /\ Seed!JobStep)
  /\ WF_all(In("seed", 13) /\ Seed!StartAgain)
  /\ \A m \in {a, b} : WF_all(In("consumer", 8) /\ Consumer!Consume(m))
  /\ WF_all(In("topics", 9) /\ Topics!Publish)
  /\ \A s \in Topics!Service : WF_all(In("topics", 9) /\ Topics!GoesOn(s))
  /\ WF_all(In("runtime", 13) /\ Runtime!Drain)
  /\ WF_all(In("runtime", 13) /\ Runtime!Boot)
  /\ \A m \in Runtime!Monitors : WF_all(In("runtime", 13) /\ Runtime!Begin(m))
  /\ \A m \in Runtime!Monitors : WF_all(In("runtime", 13) /\ Runtime!Check(m))
  /\ \A m \in {a, b} : WF_all(In("migration", 7) /\ Migrate!Step(m))
  /\ \A m \in {a, b} : SF_all(In("migration", 7) /\ Migrate!TakeLock(m))
  /\ WF_all(In("client", 4) /\ Client!TimeOut(1))
  /\ WF_all(In("shared", 14) /\ Shared!TimeOut)
  /\ WF_all(In("shared", 14) /\ Shared!Poll)
  /\ WF_all(In("shared", 14) /\ (Shared!Status \/ Shared!StatusFails))
  /\ WF_all(In("steps", 11) /\ Steps!Mount)
  /\ WF_all(In("steps", 11) /\ Steps!Navigate)
  /\ WF_all(In("form", 13) /\ PayForm!StripeTakes)
  /\ WF_all(In("form", 13) /\ PayForm!ProviderLoads)
  /\ WF_all(In("form", 13) /\ PayForm!ElementLoads)
  /\ WF_all(In("form", 13) /\ PayForm!ReloadElement)
  /\ WF_all(In("form", 13) /\ PayForm!FillIn)
  /\ WF_all(In("form", 13) /\ PayForm!handleSubmit)
  /\ WF_all(In("browse", 9) /\ Browse!Serve)
  /\ WF_all(In("choice", 13) /\ Choice!LoadProduct)
  /\ WF_all(In("choice", 13) /\ Choice!Show)

\* Nobody follows the pictures of a product for ever.
PicturesEnd == <>[][~(In("choice", 13) /\ Choice!FollowPicture)]_all

Spec == Init /\ [][Next]_all /\ Fairness /\ PicturesEnd

-----------------------------------------------------------------------------
(* Properties: each line is stated and explained in its component's module *)

\* Something is under way, and it is over.
UnderWay ==
  \/ part = "jobs" /\ ~Jobs!EveryJobSettled
  \/ part = "relay" /\ ~Relay!AllPublished
  \/ part = "stripe" /\ ~Stripe!Quiet
  \/ part = "seed" /\ Seed!HasFailed
  \/ part = "consumer" /\ Consumer!Behind
  \/ part = "topics" /\ Topics!BrokersStay
  \/ part = "runtime" /\ Runtime!Draining
  \/ part = "migration" /\ Migrate!Waits(a)
  \/ part = "client" /\ Client!SomeoneWaits
  \/ part = "shared" /\ Shared!FormWaits
  \/ part = "steps" /\ ~Steps!AtRest
  \/ part = "form" /\ PayForm!ButtonIsBusy
  \/ part = "browse" /\ Browse!Arriving
  \/ part = "choice" /\ Choice!Chooses
IsOver ==
  \/ part = "jobs" /\ Jobs!EveryJobSettled
  \/ part = "relay" /\ Relay!AllPublished
  \/ part = "stripe" /\ Stripe!Quiet
  \/ part = "seed" /\ Seed!Completed
  \/ part = "consumer" /\ ~Consumer!Behind
  \/ part = "topics" /\ (Topics!EverythingAttached \/ ~Topics!BrokersStay)
  \/ part = "runtime" /\ Runtime!Ended
  \/ part = "migration" /\ Migrate!Over(a)
  \/ part = "client" /\ ~Client!SomeoneWaits
  \/ part = "shared" /\ ~Shared!FormWaits
  \/ part = "steps" /\ Steps!AtRest
  \/ part = "form" /\ ~PayForm!ButtonIsBusy
  \/ part = "browse" /\ ~Browse!Arriving
  \/ part = "choice" /\ ~Choice!Chooses

\* The same of the second thing some components have to bring about.
UnderWayToo ==
  \/ part = "runtime" /\ Runtime!StorageAnswers
  \/ part = "shared" /\ Shared!ReturnWaits
  \/ part = "form" /\ PayForm!FieldsAreMissing
IsOverToo ==
  \/ part = "runtime" /\ (Runtime!IsReady \/ ~Runtime!StorageAnswers)
  \/ part = "shared" /\ ~Shared!ReturnWaits
  \/ part = "form" /\ ~PayForm!FieldsAreMissing

\* Whatever fails, crashes or is lost within the bounds, and whoever waits: what
\* is under way comes to its end.  Payments are stored and published or set aside,
\* events are published, records are handled,
\* Stripe follows the catalog, a failed seed is completed, brokers that stay get
\* their consumers, a process becomes ready or ends, a deployment ends, calls and
\* pages get their answer or give up.
EverythingSettles ==
  /\ UnderWay ~> IsOver
  /\ UnderWayToo ~> IsOverToo
=============================================================================
