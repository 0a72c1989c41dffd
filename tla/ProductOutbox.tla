---------------------------- MODULE ProductOutbox ----------------------------
(***************************************************************************)
(* The product service: catalog writes that commit their event in the same *)
(* transaction (ProductService.ts), the stock editor in front of them      *)
(* (rpc.ts), and the relay that publishes the events to Kafka              *)
(* (ProductOutboxRelay.ts), one loop per replica.                          *)
(*                                                                         *)
(* Outbox rows are numbered in the order of their creation.  Counts of     *)
(* stock are abstracted to what these operations tell apart.  What a       *)
(* message tells of a product is its content: the category, and for name,  *)
(* price and updatedAt the number of the write that left them.             *)
(***************************************************************************)
EXTENDS Integers, FiniteSets, Sequences

CONSTANTS
  Product,
  Variant,    \* pairs of a size and a color
  Category,   \* slugs
  Admin,      \* requests of the stock editor and of product.delete
  Replica,    \* product service processes
  MaxEvents,  \* bound on catalog writes
  MaxEdits,   \* bound on requests of the Admins
  MaxFaults   \* bound on crashes, stalls and failed calls

\* What is asked of the constants.
OutboxAssumption == MaxEvents \in Nat /\ MaxEdits \in Nat /\ MaxFaults \in Nat

VARIABLES
  product,  \* the rows of Product, or why there is none
  stock,    \* the rows of inventory.stock
  outbox,   \* the rows of ProductOutboxEvent
  sent,     \* the events that Kafka accepted at least once
  request,  \* what each request of an administrator is doing
  relay,    \* what each relay loop is doing
  edits,
  faults

catalogVars == <<product, stock, outbox>>
vars == <<product, stock, outbox, sent, request, relay, edits, faults>>

Nothing == [rev |-> 0, category |-> "none"]
Unborn == [state |-> "unborn", offers |-> {}, content |-> Nothing, renamed |-> FALSE]
Deleted == [Unborn EXCEPT !.state = "deleted"]
Live(p) == product[p].state = "live"

\* A stock row: none, "empty" (sold out), "free" (units and no hold), "held".
Rows(p) == {v \in Variant : stock[p, v] # "none"}

NoRequest == [step |-> "none", op |-> "none", product |-> "none", variant |-> "none", zero |-> FALSE]
IdleRelay == [step |-> "idle", event |-> 0, attempts |-> 0]

Init ==
  /\ product = [p \in Product |-> Unborn]
  /\ stock = [pv \in Product \X Variant |-> "none"]
  /\ outbox = <<>>
  /\ sent = {}
  /\ request = [a \in Admin |-> NoRequest]
  /\ relay = [r \in Replica |-> IdleRelay]
  /\ edits = 0
  /\ faults = 0

Fault == faults < MaxFaults /\ faults' = faults + 1

-----------------------------------------------------------------------------
(* Catalog writes: the row and its event commit together *)

Event(p, topic, content) ==
  [product |-> p, topic |-> topic, content |-> content, status |-> "PENDING", attempts |-> 0,
   lapsed |-> FALSE, available |-> TRUE]

Enqueue(p, topic, content) ==
  /\ Len(outbox) < MaxEvents
  /\ outbox' = Append(outbox, Event(p, topic, content))

\* The message is made of the row that the write returns.
Write(p, topic, offers, category) ==
  LET content == [rev |-> product[p].content.rev + 1, category |-> category] IN
    /\ product' = [product EXCEPT ![p] = [state |-> "live", offers |-> offers,
                                         content |-> content, renamed |-> FALSE]]
    /\ Enqueue(p, topic, content)
    /\ UNCHANGED <<stock, sent, request, relay, edits, faults>>

CreateProduct(p, offers, category) ==
  product[p] = Unborn /\ Write(p, "created", offers, category)

\* A faulty form of UpdateProduct that writes the row without its event.
UpdateProductSilently(p, offers, category) ==
  /\ Live(p)
  /\ product' = [product EXCEPT ![p].offers = offers, ![p].content.category = category,
                               ![p].content.rev = @ + 1]
  /\ UNCHANGED <<stock, outbox, sent, request, relay, edits, faults>>

\* The code looks for the row first: no row, no event.
UpdateProduct(p, offers, category) ==
  Live(p) /\ Write(p, "updated", offers, category)

\* updateCategory writes Category; ON UPDATE CASCADE takes the new slug to the
\* products, and their rows are otherwise as they were.  No event tells of it.
\* The slug is unique, so it is of no product yet.
RenameCategory(old, new) ==
  LET renamed == {p \in Product : Live(p) /\ product[p].content.category = old} IN
    /\ renamed # {}
    /\ \A p \in Product : product[p].content.category # new
    /\ product' = [p \in Product |->
         IF p \in renamed
           THEN [product[p] EXCEPT !.content.category = new, !.renamed = TRUE]
           ELSE product[p]]
    /\ UNCHANGED <<stock, outbox, sent, request, relay, edits, faults>>

-----------------------------------------------------------------------------
(* product.delete and inventory.set: a check, an await, and the write *)

Request(a, op, p, v, zero) ==
  /\ request[a] = NoRequest
  /\ edits < MaxEdits
  /\ edits' = edits + 1
  /\ request' = [request EXCEPT ![a] = [step |-> "check", op |-> op, product |-> p,
                                        variant |-> v, zero |-> zero]]
  /\ UNCHANGED <<catalogVars, sent, relay, faults>>

Answer(a) == request' = [request EXCEPT ![a] = NoRequest]
Proceed(a, step) == request' = [request EXCEPT ![a].step = step]

\* product.delete refuses a product with stock rows; otherwise it goes on.
CheckDelete(a) ==
  /\ request[a].step = "check" /\ request[a].op = "delete"
  /\ IF Rows(request[a].product) # {} THEN Answer(a) ELSE Proceed(a, "write")
  /\ UNCHANGED <<catalogVars, sent, relay, edits, faults>>

\* deleteProduct: 404 without the row; the foreign key of inventory.stock
\* restricts it when a stock row arrived since the check.
DeleteProduct(a) ==
  LET p == request[a].product IN
    /\ request[a].step = "write" /\ request[a].op = "delete"
    /\ IF Live(p) /\ Rows(p) = {}
         THEN product' = [product EXCEPT ![p] = Deleted] /\ Enqueue(p, "deleted", Nothing)
         ELSE UNCHANGED <<product, outbox>>
    /\ Answer(a)
    /\ UNCHANGED <<stock, sent, relay, edits, faults>>

\* inventory.set accepts an offered variant; of a retired one only the clearing
\* of a row that exists, for which it looks a second time.
CheckSet(a) ==
  LET r == request[a] IN
    /\ r.step = "check" /\ r.op = "set"
    /\ \/ Live(r.product) /\ r.variant \in product[r.product].offers /\ Proceed(a, "write")
       \/ /\ r.variant \notin product[r.product].offers
          /\ IF Live(r.product) /\ r.zero THEN Proceed(a, "retired") ELSE Answer(a)
    /\ UNCHANGED <<catalogVars, sent, relay, edits, faults>>

CheckRetired(a) ==
  /\ request[a].step = "retired"
  /\ IF request[a].variant \in Rows(request[a].product) THEN Proceed(a, "write") ELSE Answer(a)
  /\ UNCHANGED <<catalogVars, sent, relay, edits, faults>>

\* What setStock leaves of a row; held units refuse a count below them.
Counted(row, zero) ==
  IF row = "held" THEN "held" ELSE IF zero THEN "none" ELSE "free"

\* setStock: the foreign key refuses a row of a product that is gone.
SetStock(a) ==
  LET r == request[a] IN
    /\ r.step = "write" /\ r.op = "set"
    /\ stock' = IF Live(r.product)
                  THEN [stock EXCEPT ![<<r.product, r.variant>>] = Counted(@, r.zero)]
                  ELSE stock
    /\ Answer(a)
    /\ UNCHANGED <<product, outbox, sent, relay, edits, faults>>

\* Purchases hold, give back or sell units of a row meanwhile (module Inventory).
Trade(p, v) ==
  /\ \/ stock[p, v] = "free" /\ stock' = [stock EXCEPT ![<<p, v>>] = "held"]
     \/ stock[p, v] = "held" /\ stock' \in {[stock EXCEPT ![<<p, v>>] = s] : s \in {"free", "empty"}}
  /\ UNCHANGED <<product, outbox, sent, request, relay, edits, faults>>

-----------------------------------------------------------------------------
(* relayProductOutboxOnce *)

\* A faulty form of Claimable that forgets rows whose relay died.
ClaimablePending(e) == e.available /\ e.status = "PENDING"

Claimable(e) ==
  /\ e.available
  /\ e.status = "PENDING" \/ (e.status = "PUBLISHING" /\ e.lapsed)

\* The oldest claimable row.
Read(r) ==
  \E i \in 1..Len(outbox) :
    /\ relay[r].step = "idle"
    /\ Claimable(outbox[i])
    /\ \A k \in 1..(i - 1) : ~Claimable(outbox[k])
    /\ relay' = [relay EXCEPT ![r] = [step |-> "claim", event |-> i, attempts |-> outbox[i].attempts]]
    /\ UNCHANGED <<catalogVars, sent, request, edits, faults>>

\* The conditional UPDATE: nothing when another relay claimed the row meanwhile.
Claim(r) ==
  LET i == relay[r].event
      n == relay[r].attempts + 1 IN
    /\ relay[r].step = "claim"
    /\ IF Claimable(outbox[i]) /\ outbox[i].attempts = relay[r].attempts
         THEN /\ outbox' = [outbox EXCEPT ![i].status = "PUBLISHING", ![i].attempts = n,
                                          ![i].lapsed = FALSE]
              /\ relay' = [relay EXCEPT ![r].step = "send", ![r].attempts = n]
         ELSE /\ relay' = [relay EXCEPT ![r] = IdleRelay]
              /\ UNCHANGED outbox
    /\ UNCHANGED <<product, stock, sent, request, edits, faults>>

\* ownedEvent: the row is still this claim's.
OwnedEvent(r) ==
  /\ outbox[relay[r].event].status = "PUBLISHING"
  /\ outbox[relay[r].event].attempts = relay[r].attempts

\* producer.send succeeded; or threw, before or after Kafka took the record.
Send(r) ==
  /\ relay[r].step = "send"
  /\ sent' = sent \cup {relay[r].event}
  /\ relay' = [relay EXCEPT ![r].step = "finish"]
  /\ UNCHANGED <<catalogVars, request, edits, faults>>

SendFails(r) ==
  /\ relay[r].step = "send"
  /\ Fault
  /\ sent' \in {sent, sent \cup {relay[r].event}}
  /\ relay' = [relay EXCEPT ![r].step = "fail"]
  /\ UNCHANGED <<catalogVars, request, edits>>

Published(r) ==
  IF OwnedEvent(r)
    THEN outbox' = [outbox EXCEPT ![relay[r].event].status = "PUBLISHED",
                                  ![relay[r].event].lapsed = FALSE]
    ELSE UNCHANGED outbox

Finish(r) ==
  /\ relay[r].step = "finish"
  /\ Published(r)
  /\ relay' = [relay EXCEPT ![r] = IdleRelay]
  /\ UNCHANGED <<product, stock, sent, request, edits, faults>>

\* The update failed, or was applied and its answer lost: the catch block runs.
FinishFails(r) ==
  /\ relay[r].step = "finish"
  /\ Fault
  /\ Published(r) \/ UNCHANGED outbox
  /\ relay' = [relay EXCEPT ![r].step = "fail"]
  /\ UNCHANGED <<product, stock, sent, request, edits>>

\* The catch block: back to PENDING after a delay, if the row is still owned.
Fail(r) ==
  /\ relay[r].step = "fail"
  /\ outbox' = IF OwnedEvent(r)
                 THEN [outbox EXCEPT ![relay[r].event].status = "PENDING",
                                     ![relay[r].event].lapsed = FALSE,
                                     ![relay[r].event].available = FALSE]
                 ELSE outbox
  /\ relay' = [relay EXCEPT ![r] = IdleRelay]
  /\ UNCHANGED <<product, stock, sent, request, edits, faults>>

\* A storage error anywhere else ends the cycle; so does a crash of the replica.
Abandon(r) ==
  /\ relay[r].step # "idle"
  /\ Fault
  /\ relay' = [relay EXCEPT ![r] = IdleRelay]
  /\ UNCHANGED <<catalogVars, sent, request, edits>>

Attended(i) == \E r \in Replica : relay[r].event = i /\ relay[r].step # "claim" /\ OwnedEvent(r)

\* leaseUntil passes; under a live relay that takes a publish of 30 seconds.
Lapse(i) ==
  /\ i <= Len(outbox)
  /\ outbox[i].status = "PUBLISHING" /\ ~outbox[i].lapsed
  /\ IF Attended(i) THEN Fault ELSE UNCHANGED faults
  /\ outbox' = [outbox EXCEPT ![i].lapsed = TRUE]
  /\ UNCHANGED <<product, stock, sent, request, relay, edits>>

\* availableAt passes.
DelayEnds(i) ==
  /\ i <= Len(outbox)
  /\ ~outbox[i].available
  /\ outbox' = [outbox EXCEPT ![i].available = TRUE]
  /\ UNCHANGED <<product, stock, sent, request, relay, edits, faults>>

-----------------------------------------------------------------------------
AdminStep(a) ==
  \/ CheckDelete(a) \/ DeleteProduct(a)
  \/ CheckSet(a) \/ CheckRetired(a) \/ SetStock(a)

RelayStep(r) ==
  Read(r) \/ Claim(r) \/ Send(r) \/ SendFails(r) \/ Finish(r) \/ FinishFails(r) \/ Fail(r)

Next ==
  \/ \E p \in Product, offers \in SUBSET Variant, category \in Category :
       CreateProduct(p, offers, category) \/ UpdateProduct(p, offers, category)
  \/ \E old, new \in Category : RenameCategory(old, new)
  \/ \E a \in Admin, p \in Product, v \in Variant, zero \in BOOLEAN :
       Request(a, "set", p, v, zero)
  \/ \E a \in Admin, p \in Product : Request(a, "delete", p, "none", FALSE)
  \/ \E a \in Admin : AdminStep(a)
  \/ \E p \in Product, v \in Variant : Trade(p, v)
  \/ \E r \in Replica : RelayStep(r) \/ Abandon(r)
  \/ \E i \in 1..MaxEvents : Lapse(i) \/ DelayEnds(i)

\* The relay polls every second; delays end and abandoned leases run out.
TimePasses(i) == DelayEnds(i) \/ (~Attended(i) /\ Lapse(i))

Spec == Init /\ [][Next]_vars

-----------------------------------------------------------------------------
(* Properties *)

Content == [rev : Nat, category : Category \cup {"none"}]
EventRow == [product : Product, topic : {"created", "updated", "deleted"}, content : Content,
             status : {"PENDING", "PUBLISHING", "PUBLISHED"}, attempts : Nat,
             lapsed : BOOLEAN, available : BOOLEAN]

\* The rows, requests and relays have their declared types.
TypeOK ==
  /\ \A p \in Product : product[p] \in [state : {"unborn", "live", "deleted"}, offers : SUBSET Variant,
                                        content : Content, renamed : BOOLEAN]
  /\ stock \in [Product \X Variant -> {"none", "empty", "free", "held"}]
  /\ outbox \in Seq(EventRow)
  /\ sent \subseteq 1..Len(outbox)
  /\ \A a \in Admin : request[a].step \in {"none", "check", "retired", "write"}
  /\ \A r \in Replica : relay[r].step \in {"idle", "claim", "send", "finish", "fail"}
  /\ \A r \in Replica : relay[r].step # "idle" => relay[r].event \in 1..Len(outbox)

\* Every committed create, update and delete of a product left its event, and
\* only those did: the newest event of a product tells whether its row exists,
\* and of a row what its newest write left (ProductService.ts).  A category
\* renamed since then is not a write of the product and has no event; docs/
\* ARCHITECTURE.md asks for events of create, update and delete.
EventsTellTheCatalog ==
  \A p \in Product :
    LET own == {i \in 1..Len(outbox) : outbox[i].product = p} IN
      /\ product[p].state = "unborn" <=> own = {}
      /\ own # {} =>
           LET last == outbox[CHOOSE i \in own : \A k \in own : k <= i] IN
             /\ Live(p) <=> last.topic # "deleted"
             /\ Live(p) => last.content.rev = product[p].content.rev
             /\ Live(p) /\ last.content.category # product[p].content.category => product[p].renamed

\* No stock row outlives its product, although product.delete and
\* inventory.set check and write in different transactions (rpc.ts).
StockHasItsProduct ==
  \A p \in Product : Rows(p) # {} => Live(p)

\* In every step an event leaves PUBLISHING only by the newest claim, never by a relay whose
\* lease another one took over; a published event stays published.
OnlyTheClaimFinishes ==
  \A i \in 1..Len(outbox) :
       outbox'[i].status # outbox[i].status =>
         \/ outbox'[i].status = "PUBLISHING" /\ outbox[i].status # "PUBLISHED"
         \/ /\ outbox[i].status = "PUBLISHING"
            /\ \E r \in Replica :
                 /\ relay[r].event = i
                 /\ relay[r].attempts = outbox[i].attempts
                 /\ relay'[r] # relay[r]

\* The outbox keeps the promise of a durable job table: an event once
\* committed is never forgotten and is published only after Kafka took it.
EventStatus ==
  [i \in 1..MaxEvents |->
     IF i > Len(outbox) THEN "absent"
     ELSE IF outbox[i].status = "PUBLISHED" THEN "done" ELSE "open"]

Promise == INSTANCE DurableJobs WITH Job <- 1..MaxEvents, status <- EventStatus,
             performed <- sent, Followers <- LAMBDA i : {}
KeepsThePromise == [Promise!DJNext]_(Promise!djVars)

\* Every committed event is eventually published, whatever relays crash,
\* stall or fail to reach Kafka on the way.
AllPublished == \A i \in 1..Len(outbox) : outbox[i].status = "PUBLISHED"
=============================================================================
