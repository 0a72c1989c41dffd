------------------------------ MODULE Checkout ------------------------------
(***************************************************************************)
(* A purchase from the checkout request to the stored order: the checkout  *)
(* calls of the payment service (StripeCheckoutService), Stripe itself,    *)
(* the finite inventory (module Inventory), enrichment of paid sessions    *)
(* (StripePaymentEventService), reconciliation (ReconciliationService),    *)
(* publication to Kafka, and the order service.                            *)
(*                                                                         *)
(* The durable jobs appear by their promise, module DurableJobs, which     *)
(* PaymentJobs is checked to keep.  A purchase id stands for the checkout  *)
(* id (a hash of user and attempt), for its reservation, and for the one   *)
(* Stripe session that the idempotency key checkout:<id> allows.           *)
(***************************************************************************)
EXTENDS Inventory

CONSTANTS
  Owner,     \* the user of each purchase
  Price,     \* the prices a product may have
  Lifetime,  \* snapshot.expiresAt - now: one hour
  Call       \* concurrent POST /checkout requests

ASSUME CheckoutAssumption ==
  /\ Owner \in [ReservationId -> User]
  /\ Lifetime \in 1..HoldWindow

Purchase == ReservationId
Enrich(id) == <<"enrich", id>>
Publish(id) == <<"publish", id>>
Job == {"enrich", "publish"} \X Purchase
PublishAfter(j) == IF j[1] = "enrich" THEN {Publish(j[2])} ELSE {}

VARIABLES
  price,      \* the catalog's current price
  record,     \* payment.checkout by id
  session,    \* the Stripe session of each purchase
  call,       \* the checkout requests in progress
  late,       \* inventory requests whose caller gave up but that may still run
  recon,      \* the reconciliation pass: the session it is looking at
  status,     \* the durable jobs
  performed,  \* the jobs whose work was carried out
  topic,      \* the payments published to Kafka
  order       \* the order service's collection

INSTANCE DurableJobs WITH Followers <- PublishAfter

inventoryVars == <<stock, onHand, reserved, reservation, audit, now>>
jobVars == <<status, performed>>
storeVars == <<record, session, call, recon>>
coVars == <<inventoryVars, price, storeVars, late, jobVars, topic, order>>

\* What the customer agreed to: an immutable, server-priced cart.
Snapshot == [cart : Requests, price : Price, expiresAt : 0..(MaxTime + Lifetime)]
NoSnapshot == [cart |-> <<>>, price |-> 0, expiresAt |-> 0]

NoRecord == [exists |-> FALSE, snapshot |-> NoSnapshot, attached |-> FALSE,
             payment |-> FALSE, released |-> FALSE]
NoSession == [status |-> "none", snapshot |-> NoSnapshot]

\* A request between steps: the purchase, the cart it asks for, the snapshot it
\* works with, and whether it read a session id with the record.
NoCall == [step |-> "idle", id |-> {}, cart |-> <<>>, snapshot |-> NoSnapshot, attached |-> FALSE]
NoPass == [step |-> "idle", id |-> {}]

CoInit ==
  /\ Init
  /\ DJInit
  /\ price \in Price
  /\ record = [id \in Purchase |-> NoRecord]
  /\ session = [id \in Purchase |-> NoSession]
  /\ call = [k \in Call |-> NoCall]
  /\ late = {}
  /\ recon = NoPass
  /\ topic = {}
  /\ order = [id \in Purchase |-> NoSnapshot]

-----------------------------------------------------------------------------
(* The inventory calls of the payment service *)

\* The three internal requests, as the product service executes them: they
\* carry what the stored snapshot says.
Hold(id, snapshot) == ReserveStock(id, Owner[id], snapshot.cart, snapshot.expiresAt)
Commit(id) == FinishReservation(id, "committed")
Release(id) == FinishReservation(id, "released")

\* A request that timed out, or whose caller died, runs later or never.
RunLate(id) ==
  \/ /\ <<"reserve", id>> \in late
     /\ Hold(id, record[id].snapshot)
     /\ late' = late \ {<<"reserve", id>>}
  \/ /\ <<"commit", id>> \in late
     /\ Commit(id)
     /\ late' = late \ {<<"commit", id>>}
  \/ /\ <<"release", id>> \in late
     /\ Release(id)
     /\ late' = late \ {<<"release", id>>}

LateRequest(id) ==
  RunLate(id) /\ UNCHANGED <<price, storeVars, jobVars, topic, order>>

LoseLate(r) ==
  /\ r \in late
  /\ late' = late \ {r}
  /\ UNCHANGED <<inventoryVars, price, storeVars, jobVars, topic, order>>

-----------------------------------------------------------------------------
(* createCheckoutSession *)

CallStep(k, step) == call' = [call EXCEPT ![k].step = step]

\* store.checkout(checkoutId): a different cart under the same attempt is refused.
ReadRecord(k, id, cart) ==
  /\ call[k].step = "idle"
  /\ record[id].exists => record[id].snapshot.cart = cart
  /\ call' = [call EXCEPT ![k] =
       [step |-> IF record[id].exists THEN "verify" ELSE "resolve",
        id |-> id, cart |-> cart, snapshot |-> record[id].snapshot,
        attached |-> record[id].attached]]
  /\ UNCHANGED <<inventoryVars, price, record, session, late, recon, jobVars, topic, order>>

\* resolveCheckoutCatalog and the snapshot literal: prices come from the catalog.
Resolve(k) ==
  /\ call[k].step = "resolve"
  /\ call' = [call EXCEPT
       ![k].step = "save",
       ![k].snapshot = [cart |-> call[k].cart, price |-> price, expiresAt |-> now + Lifetime]]
  /\ UNCHANGED <<inventoryVars, price, record, session, late, recon, jobVars, topic, order>>

\* A faulty form of SaveCheckout that goes on with the snapshot it computed
\* itself, although another request stored the purchase first.
SaveOwnSnapshot(k) ==
  LET id == call[k].id IN
    /\ call[k].step = "save"
    /\ record' = [record EXCEPT ![id] =
         IF record[id].exists THEN record[id]
         ELSE [NoRecord EXCEPT !.exists = TRUE, !.snapshot = call[k].snapshot]]
    /\ CallStep(k, "verify")
    /\ UNCHANGED <<inventoryVars, price, session, late, recon, jobVars, topic, order>>

\* saveCheckout: INSERT ... ON CONFLICT DO NOTHING, then the stored record wins.
SaveCheckout(k) ==
  LET id == call[k].id
      new == [NoRecord EXCEPT !.exists = TRUE, !.snapshot = call[k].snapshot]
      stored == IF record[id].exists THEN record[id] ELSE new IN
    /\ call[k].step = "save"
    /\ record' = [record EXCEPT ![id] = stored]
    /\ call' = [call EXCEPT ![k] =
         IF stored.snapshot.cart = call[k].cart
           THEN [@ EXCEPT !.step = "verify", !.snapshot = stored.snapshot, !.attached = stored.attached]
           ELSE NoCall]
    /\ UNCHANGED <<inventoryVars, price, session, late, recon, jobVars, topic, order>>

\* Faulty forms of VerifyExpiry: one that releases the stock of an expired
\* snapshot, one that leaves the reservation for after the session.
VerifyOrRelease(k) ==
  /\ call[k].step = "verify"
  /\ IF call[k].snapshot.expiresAt <= now
       THEN Release(call[k].id) /\ call' = [call EXCEPT ![k] = NoCall]
       ELSE CallStep(k, "reserve") /\ UNCHANGED inventoryVars
  /\ UNCHANGED <<price, record, session, late, recon, jobVars, topic, order>>
VerifyThenOpen(k) ==
  /\ call[k].step = "verify"
  /\ CallStep(k, "session")
  /\ UNCHANGED <<inventoryVars, price, record, session, late, recon, jobVars, topic, order>>

\* An expired snapshot is refused; otherwise the stock is requested.
VerifyExpiry(k) ==
  /\ call[k].step = "verify"
  /\ call' = [call EXCEPT ![k] =
       IF call[k].snapshot.expiresAt <= now THEN NoCall ELSE [@ EXCEPT !.step = "reserve"]]
  /\ UNCHANGED <<inventoryVars, price, record, session, late, recon, jobVars, topic, order>>

\* reserveCheckoutStock answered 200.
Reserve(k) ==
  /\ call[k].step = "reserve"
  /\ Hold(call[k].id, call[k].snapshot)
  /\ CallStep(k, "session")
  /\ UNCHANGED <<price, record, session, late, recon, jobVars, topic, order>>

\* It timed out after 10 seconds: the request fails, the reservation may follow.
ReserveTimeout(k) ==
  /\ call[k].step = "reserve"
  /\ late' = late \cup {<<"reserve", call[k].id>>}
  /\ call' = [call EXCEPT ![k] = NoCall]
  /\ UNCHANGED <<inventoryVars, price, record, session, recon, jobVars, topic, order>>

\* sessions.retrieve of the session id read with the record, or sessions.create
\* under the purchase's idempotency key: a repeated create returns the session
\* of the first.  Stripe refuses an expiry in the past.
OpenSession(k) ==
  LET id == call[k].id IN
    /\ call[k].step = "session"
    /\ IF call[k].attached \/ session[id].status # "none"
         THEN UNCHANGED session
         ELSE /\ now < call[k].snapshot.expiresAt
              /\ session' = [session EXCEPT ![id] = [status |-> "open", snapshot |-> call[k].snapshot]]
    /\ CallStep(k, "attach")
    /\ UNCHANGED <<inventoryVars, price, record, late, recon, jobVars, topic, order>>

\* attachSession; the answer to the browser follows.
Attach(k) ==
  /\ call[k].step = "attach"
  /\ record' = [record EXCEPT ![call[k].id].attached = TRUE]
  /\ call' = [call EXCEPT ![k] = NoCall]
  /\ UNCHANGED <<inventoryVars, price, session, late, recon, jobVars, topic, order>>

\* The request fails or its process dies between two steps: a refusal by the
\* inventory or Stripe, a lost connection, a crash.
Abandon(k) ==
  /\ call[k].step # "idle"
  /\ call' = [call EXCEPT ![k] = NoCall]
  /\ UNCHANGED <<inventoryVars, price, record, session, late, recon, jobVars, topic, order>>

CheckoutStep(k) ==
  \/ Resolve(k) \/ SaveCheckout(k) \/ VerifyExpiry(k) \/ Reserve(k)
  \/ OpenSession(k) \/ Attach(k)

-----------------------------------------------------------------------------
(* Stripe and the catalog *)

\* The customer pays, or the session ends unpaid: by Stripe's clock, which is
\* not ours, or because somebody ended it.  Both are final.
SessionBecomes(id, new) ==
  /\ session[id].status = "open"
  /\ session' = [session EXCEPT ![id].status = new]
  /\ UNCHANGED <<inventoryVars, price, record, call, late, recon, jobVars, topic, order>>

Pay(id) == SessionBecomes(id, "paid")
Expire(id) == SessionBecomes(id, "expired")

ChangePrice ==
  /\ price' \in Price
  /\ UNCHANGED <<inventoryVars, storeVars, late, jobVars, topic, order>>

-----------------------------------------------------------------------------
(* The ways a paid session enters the durable inbox *)

EnqueuePaid(id) ==
  /\ session[id].status = "paid"
  /\ Accept(Enrich(id))
  /\ UNCHANGED <<inventoryVars, price, storeVars, late, topic, order>>

\* handleEvent: Stripe repeats the event until the insert was acknowledged.
Webhook(id) == EnqueuePaid(id)

\* getCheckoutSessionStatus: the return page asks, and the inbox is filled.
StatusCheck(id) == EnqueuePaid(id)

-----------------------------------------------------------------------------
(* reconcilePayments: one session at a time, from the list or from the store *)

\* Faulty forms of ReconRead: one that trusts the local clock instead of
\* Stripe, one that looks at purchases that have no session, one that reads
\* only the store and never Stripe's list.
ReconByClock(id) ==
  /\ recon.step = "idle"
  /\ session[id].status # "none" /\ record[id].exists
  /\ record' = [record EXCEPT ![id].attached = TRUE]
  /\ recon' = [step |-> IF record[id].snapshot.expiresAt <= now THEN "expired"
                        ELSE session[id].status,
               id |-> id]
  /\ UNCHANGED <<inventoryVars, price, session, call, late, jobVars, topic, order>>
ReconUnattached(id) ==
  /\ recon.step = "idle"
  /\ record[id].exists
  /\ recon' = [step |-> session[id].status, id |-> id]
  /\ UNCHANGED <<inventoryVars, price, record, session, call, late, jobVars, topic, order>>

ReconStoreOnly(id) ==
  /\ recon.step = "idle"
  /\ record[id].attached /\ ~record[id].payment /\ ~record[id].released
  /\ record[id].snapshot.expiresAt <= now
  /\ recon' = [step |-> session[id].status, id |-> id]
  /\ UNCHANGED <<inventoryVars, price, record, session, call, late, jobVars, topic, order>>

\* sessions.list within the overlap window, or sessions.retrieve of an
\* unsettled record that is past its expiry.  A session of the list is attached.
ReconRead(id) ==
  LET listed == session[id].status # "none" /\ record[id].exists
      unsettled == /\ record[id].attached
                   /\ ~record[id].payment /\ ~record[id].released
                   /\ record[id].snapshot.expiresAt <= now IN
    /\ recon.step = "idle"
    /\ listed \/ unsettled
    /\ record' = [record EXCEPT ![id].attached = TRUE]
    /\ recon' = [step |-> session[id].status, id |-> id]
    /\ UNCHANGED <<inventoryVars, price, session, call, late, jobVars, topic, order>>

\* A faulty form of ReconEnqueue that leaves paid sessions to the webhook.
ReconTrustsWebhook ==
  /\ recon.step = "paid"
  /\ recon' = NoPass
  /\ UNCHANGED <<inventoryVars, price, record, session, call, late, jobVars, topic, order>>

\* A paid session enters the inbox; ON CONFLICT DO NOTHING when it is there.
ReconEnqueue ==
  /\ recon.step = "paid"
  /\ IF status[Enrich(recon.id)] = "absent" THEN Accept(Enrich(recon.id)) ELSE UNCHANGED jobVars
  /\ recon' = NoPass
  /\ UNCHANGED <<inventoryVars, price, record, session, call, late, topic, order>>

\* An expired session releases its hold, then the record is marked.
ReconRelease ==
  /\ recon.step = "expired"
  /\ Release(recon.id)
  /\ recon' = [recon EXCEPT !.step = "mark"]
  /\ UNCHANGED <<price, record, session, call, late, jobVars, topic, order>>

\* The release timed out: the pass fails.  A faulty form marks the record anyway.
ReconReleaseUnknown ==
  /\ recon.step = "expired"
  /\ late' = late \cup {<<"release", recon.id>>}
  /\ recon' = [recon EXCEPT !.step = "mark"]
  /\ UNCHANGED <<inventoryVars, price, record, session, call, jobVars, topic, order>>

ReconReleaseTimeout ==
  /\ recon.step = "expired"
  /\ late' = late \cup {<<"release", recon.id>>}
  /\ recon' = NoPass
  /\ UNCHANGED <<inventoryVars, price, record, session, call, jobVars, topic, order>>

\* markReleased: only a record without a payment.
ReconMark ==
  /\ recon.step = "mark"
  /\ record' = [record EXCEPT ![recon.id].released = @ \/ ~record[recon.id].payment]
  /\ recon' = NoPass
  /\ UNCHANGED <<inventoryVars, price, session, call, late, jobVars, topic, order>>

\* Nothing to do for an open session; an error or a crash ends the pass anywhere.
ReconEnd ==
  /\ recon.step # "idle"
  /\ recon' = NoPass
  /\ UNCHANGED <<inventoryVars, price, record, session, call, late, jobVars, topic, order>>

ReconStep == ReconEnqueue \/ ReconRelease \/ ReconMark \/ (recon.step = "open" /\ ReconEnd)

-----------------------------------------------------------------------------
(* Durable jobs: enrichment and publication *)

\* The session is paid and matches the stored snapshot.
Matches(id) ==
  /\ session[id].status = "paid"
  /\ record[id].exists
  /\ record[id].snapshot = session[id].snapshot

\* processCompletedCheckout, up to attachSession.
EnrichAttach(id) ==
  /\ status[Enrich(id)] # "absent"
  /\ Matches(id)
  /\ record' = [record EXCEPT ![id].attached = TRUE]
  /\ UNCHANGED <<inventoryVars, price, session, call, late, recon, jobVars, topic, order>>

\* Its last step, commitCheckoutStock.  A worker that lost its claim may still
\* take it.
EnrichCommit(id) ==
  /\ record[id].attached
  /\ Matches(id)
  /\ Commit(id)
  /\ Perform(Enrich(id))
  /\ UNCHANGED <<price, storeVars, late, topic, order>>

\* A faulty form of EnrichTimeout that takes the lost answer for a success.
EnrichUnknown(id) ==
  /\ record[id].attached
  /\ Matches(id)
  /\ Perform(Enrich(id))
  /\ late' = late \cup {<<"commit", id>>}
  /\ UNCHANGED <<inventoryVars, price, storeVars, topic, order>>

\* The commit timed out and may run later; the attempt failed.
EnrichTimeout(id) ==
  /\ status[Enrich(id)] # "absent"
  /\ record[id].attached
  /\ Matches(id)
  /\ late' = late \cup {<<"commit", id>>}
  /\ UNCHANGED <<inventoryVars, price, storeVars, jobVars, topic, order>>

\* PaymentStore.complete of an enrichment: job, payment and publication job.
StorePayment(id) ==
  /\ Finish(Enrich(id))
  /\ record' = [record EXCEPT ![id].payment = record[id].attached]
  /\ UNCHANGED <<inventoryVars, price, session, call, late, recon, topic, order>>

\* The publication job sends the stored payment: again on every retry.
PublishPayment(id) ==
  /\ Perform(Publish(id))
  /\ topic' = topic \cup {[id |-> id, snapshot |-> record[id].snapshot]}
  /\ UNCHANGED <<inventoryVars, price, storeVars, late, order>>

PublicationDone(id) ==
  /\ Finish(Publish(id))
  /\ UNCHANGED <<inventoryVars, price, storeVars, late, topic, order>>

\* Quarantine after repeated failures, and the operator's redrive.
Quarantine(j) ==
  SetAside(j) /\ UNCHANGED <<inventoryVars, price, storeVars, late, topic, order>>
RedriveJob(j) ==
  TakeUp(j) /\ UNCHANGED <<inventoryVars, price, storeVars, late, topic, order>>

\* createOrder: an upsert with $setOnInsert, for every delivery of a message.
CreateOrder(m) ==
  /\ m \in topic
  /\ order' = [order EXCEPT ![m.id] = IF @ = NoSnapshot THEN m.snapshot ELSE @]
  /\ UNCHANGED <<inventoryVars, price, storeVars, late, jobVars, topic>>

-----------------------------------------------------------------------------
\* Administrators count stock, and time passes.
Count(v, count) ==
  SetStock(v, count) /\ UNCHANGED <<price, storeVars, late, jobVars, topic, order>>
CoTick == Tick /\ UNCHANGED <<price, storeVars, late, jobVars, topic, order>>

CoNext ==
  \/ \E k \in Call :
       \/ \E id \in Purchase, cart \in Requests : ReadRecord(k, id, cart)
       \/ CheckoutStep(k) \/ ReserveTimeout(k) \/ Abandon(k)
  \/ \E id \in Purchase :
       \/ Pay(id) \/ Expire(id) \/ Webhook(id) \/ StatusCheck(id)
       \/ LateRequest(id) \/ ReconRead(id)
       \/ EnrichAttach(id) \/ EnrichCommit(id) \/ EnrichTimeout(id) \/ StorePayment(id)
       \/ PublishPayment(id) \/ PublicationDone(id)
  \/ \E r \in late : LoseLate(r)
  \/ \E j \in Job : Quarantine(j) \/ RedriveJob(j)
  \/ \E m \in topic : CreateOrder(m)
  \/ ReconStep \/ ReconReleaseTimeout \/ ReconEnd
  \/ \E v \in Variant, count \in 0..MaxOnHand : Count(v, count)
  \/ ChangePrice \/ CoTick

CoSpec == CoInit /\ [][CoNext]_coVars

\* Retries go on until they succeed: enrichment and publication as long as the
\* job is open, the order consumer by its committed offset, and reconciliation
\* by passes every five minutes that look at every session again.  Webhooks,
\* status checks, late requests and callers may fail forever.
CoFairness ==
  /\ \A id \in Purchase :
       /\ WF_coVars(status[Enrich(id)] = "open" /\ EnrichAttach(id))
       /\ WF_coVars(status[Enrich(id)] = "open" /\ EnrichCommit(id))
       /\ WF_coVars(StorePayment(id))
       /\ WF_coVars(status[Publish(id)] = "open" /\ PublishPayment(id))
       /\ WF_coVars(PublicationDone(id))
       /\ SF_coVars(ReconRead(id))
       /\ SF_coVars(recon.id = id /\ ReconEnqueue)
       /\ SF_coVars(recon.id = id /\ ReconRelease)
  /\ WF_coVars(ReconStep)
  /\ WF_coVars(\E m \in topic : CreateOrder(m))

CoFairSpec == CoSpec /\ CoFairness

-----------------------------------------------------------------------------
(* Properties *)

SessionStates == {"none", "open", "paid", "expired"}
Snapshots == Snapshot \cup {NoSnapshot}

\* The stores, the messages and the requests in progress have their types.
CoTypeOK ==
  /\ TypeOK
  /\ price \in Price
  /\ record \in [Purchase -> [exists : BOOLEAN, snapshot : Snapshots, attached : BOOLEAN,
                              payment : BOOLEAN, released : BOOLEAN]]
  /\ session \in [Purchase -> [status : SessionStates, snapshot : Snapshots]]
  /\ \A k \in Call :
       /\ call[k].step \in {"idle", "resolve", "save", "verify", "reserve", "session", "attach"}
       /\ call[k].snapshot \in Snapshots
       /\ call[k].step # "idle" => call[k].id \in Purchase /\ call[k].cart \in Requests
  /\ late \subseteq {"reserve", "commit", "release"} \X Purchase
  /\ recon.step \in {"idle", "open", "paid", "expired", "mark"}
  /\ recon.step # "idle" => recon.id \in Purchase
  /\ status \in [Job -> {"absent", "open", "done", "aside"}]
  /\ performed \subseteq Job
  /\ topic \subseteq [id : Purchase, snapshot : Snapshot]
  /\ order \in [Purchase -> Snapshots]

\* Whoever paid still has the units: no interleaving of checkout retries, late
\* requests and reconciliation lets a paid session lose its hold
\* (ReconciliationService: only authoritative expiry releases).
PaidIsHeld ==
  \A id \in Purchase :
    session[id].status = "paid" => reservation[id].state \in {"reserved", "committed"}

\* The units that were paid for and are not yet sold in the inventory.
PaidUnits(v) ==
  UNION {{id} \X (1..NormalizeStockItems(session[id].snapshot.cart)[v]) :
           id \in {p \in Purchase : /\ session[p].status = "paid"
                                    /\ reservation[p].state # "committed"}}

\* Nobody pays for units that are not there: whatever purchases compete and
\* whatever administrators count, the shelf covers every payment whose sale is
\* still to be committed (reserveStock before sessions.create; setStock).
PaidIsCovered == \A v \in Variant : Cardinality(PaidUnits(v)) <= onHand[v]

\* The inventory settles a purchase as Stripe did: a session exists only for a
\* hold, units are sold only to a paid session, and return only from an
\* expired one (createCheckoutSession, processCompletedCheckout, reconcilePayments).
SettledAsStripeSays ==
  \A id \in Purchase :
    /\ session[id].status # "none" => reservation[id].state # "none"
    /\ reservation[id].state = "committed" => session[id].status = "paid"
    /\ reservation[id].state = "released" => session[id].status = "expired"

\* One purchase, one snapshot: whatever requests race with different carts or
\* across a price change, the hold, the session, the published payment and
\* the order are those of the stored snapshot (saveCheckout).
OneSnapshot ==
  \A id \in Purchase :
    /\ session[id].status # "none" => session[id].snapshot = record[id].snapshot
    /\ reservation[id].state # "none" =>
         record[id].exists /\ reservation[id].items = NormalizeStockItems(record[id].snapshot.cart)
    /\ \A m \in topic : m.id = id => m.snapshot = session[id].snapshot
    /\ order[id] # NoSnapshot => order[id] = session[id].snapshot

\* An order exists only for a payment that was made and stored, and for units
\* that were sold (processCompletedCheckout, PaymentStore.complete, createOrder).
OrderedIsSold ==
  \A id \in Purchase :
    order[id] # NoSnapshot =>
      /\ session[id].status = "paid"
      /\ reservation[id].state = "committed"
      /\ record[id].payment

\* What the payment store says of a purchase is so in the inventory: a
\* payment means sold units, a release means returned units, never both.
\* A record marked too early would never be looked at again (unsettled).
RecordIsTrue ==
  \A id \in Purchase :
    /\ record[id].payment => reservation[id].state = "committed"
    /\ record[id].released => reservation[id].state = "released"
    /\ record[id].attached => session[id].status # "none"

\* Every paid session becomes an order, unless its job is in quarantine.
PaidIsOrdered ==
  \A id \in Purchase :
    session[id].status = "paid" ~>
      \/ order[id] # NoSnapshot
      \/ status[Enrich(id)] = "aside" \/ status[Publish(id)] = "aside"

\* The units of every expired session return, also when the request that opened
\* it died before it could attach the session to the purchase.
ExpiredIsReleased ==
  \A id \in Purchase :
    session[id].status = "expired" ~> reservation[id].state = "released"
=============================================================================
