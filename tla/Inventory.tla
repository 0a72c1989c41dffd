------------------------------ MODULE Inventory ------------------------------
(***************************************************************************)
(* The finite inventory of packages/product-db/src/inventory.ts over the   *)
(* tables of 001-inventory.sql.  Every action is one committed database    *)
(* transaction; a transaction that ends in ROLLBACK changes no table and   *)
(* has no step here.  InventoryTx.tla models the same operations statement *)
(* by statement, with their locks, and is checked to implement this        *)
(* module.                                                                 *)
(***************************************************************************)
EXTENDS Integers, FiniteSets, Sequences

CONSTANTS
  ReservationId,  \* reservation.id: the purchase identity of the payment service
  User,           \* reservation.user_id
  Variant,        \* (product_id, size, color), the primary key of stock
  MaxQuantity,    \* bound of one request line (inventoryRoutes allows 9900)
  Requests,       \* the item lists that callers send to reserveStock
  MaxOnHand,      \* bound of the counts administrators enter
  HoldWindow,     \* reserveStock refuses an expiry further away than this
  MaxTime,        \* bound of the clock
  MaxAudits       \* bound of the audit rows of one variant

Lines == [variant : Variant, quantity : 1..MaxQuantity]

\* Item lists are finite and non-empty, with positive quantities: the checks
\* at the head of reserveStock, and of the route before it.
ASSUME InventoryAssumption ==
  /\ IsFiniteSet(ReservationId)
  /\ MaxQuantity \in Nat
  /\ MaxOnHand \in Nat
  /\ HoldWindow \in Nat
  /\ MaxTime \in Nat
  /\ MaxAudits \in Nat
  /\ Requests \subseteq Seq(Lines) \ {<<>>}

VARIABLES
  stock,        \* the variants that have a row in inventory.stock
  onHand,       \* stock.on_hand, 0 for a variant without a row
  reserved,     \* stock.reserved, 0 for a variant without a row
  reservation,  \* inventory.reservation by id
  audit,        \* inventory.stock_audit: how many rows a variant has and the newest count
  now           \* the database service's clock

stockVars == <<stock, onHand, reserved, audit>>
vars == <<stock, onHand, reserved, reservation, audit, now>>

States == {"reserved", "committed", "released"}

\* Merged items: the total quantity asked of each variant.
Items == [Variant -> Nat]

NoItems == [v \in Variant |-> 0]

\* The value of `reservation` for an id that has no row.
NoReservation == [state |-> "none", user |-> {}, items |-> NoItems]

Reservation == [state : States, user : User, items : Items]

\* normalizeStockItems merges the lines of one variant by adding their
\* quantities: the total is the number of single units the lines ask for.
NormalizeStockItems(request) ==
  [v \in Variant |->
     Cardinality({unit \in (1..Len(request)) \X (1..MaxQuantity) :
                    /\ request[unit[1]].variant = v
                    /\ unit[2] <= request[unit[1]].quantity})]

Init ==
  /\ stock = {}
  /\ onHand = NoItems
  /\ reserved = NoItems
  /\ reservation = [id \in ReservationId |-> NoReservation]
  /\ audit = [v \in Variant |-> [rows |-> 0, count |-> 0]]
  /\ now = 0

-----------------------------------------------------------------------------
(* Administration *)

\* What a successful setStock writes: the count, an audit row, and no row at
\* all for a variant that has nothing on hand and nothing held.
WriteCount(v, count) ==
  /\ onHand' = [onHand EXCEPT ![v] = count]
  /\ audit' = [audit EXCEPT ![v] = [rows |-> @.rows + 1, count |-> count]]
  /\ stock' = IF count = 0 /\ reserved[v] = 0 THEN stock \ {v} ELSE stock \cup {v}
  /\ UNCHANGED <<reserved, reservation, now>>

\* The upsert is refused below the units that are held.
AcceptsCount(v, count) ==
  /\ audit[v].rows < MaxAudits
  /\ v \in stock => reserved[v] <= count

SetStock(v, count) == AcceptsCount(v, count) /\ WriteCount(v, count)

-----------------------------------------------------------------------------
(* Holds *)

\* A faulty form of Fits that forgets the units held for other purchases.
FitsOnHand(items) ==
  \A v \in Variant : items[v] > 0 => v \in stock /\ onHand[v] >= items[v]

\* Every UPDATE of reserveStock finds its row with enough free units.
Fits(items) ==
  \A v \in Variant :
    items[v] > 0 => v \in stock /\ onHand[v] - reserved[v] >= items[v]

\* What a first reserveStock writes: all variants are held, and the purchase
\* is recorded.
WriteHold(id, user, items) ==
  /\ reserved' = [v \in Variant |-> reserved[v] + items[v]]
  /\ reservation' = [reservation EXCEPT
       ![id] = [state |-> "reserved", user |-> user, items |-> items]]
  /\ UNCHANGED <<stock, onHand, audit, now>>

\* The expiry was compared with the clock at some moment of the transaction,
\* not with the clock at its commit.
ExpiryAccepted(expiresAt) ==
  \E checkedAt \in 0..now :
    checkedAt < expiresAt /\ expiresAt <= checkedAt + HoldWindow

\* A faulty form of OpenHold without the ROLLBACK: when one variant is short,
\* those that fit stay held.
OpenHoldPartly(id, user, items, expiresAt) ==
  /\ reservation[id].state = "none"
  /\ ExpiryAccepted(expiresAt)
  /\ IF Fits(items)
       THEN WriteHold(id, user, items)
       ELSE /\ reserved' = [v \in Variant |->
                 IF onHand[v] - reserved[v] >= items[v] THEN reserved[v] + items[v] ELSE reserved[v]]
            /\ UNCHANGED <<stock, onHand, reservation, audit, now>>

OpenHold(id, user, items, expiresAt) ==
  /\ reservation[id].state = "none"
  /\ ExpiryAccepted(expiresAt)
  /\ Fits(items)
  /\ WriteHold(id, user, items)

\* A repeated reserveStock of the same purchase succeeds without a change,
\* also when the hold was committed in the meantime.
IsRepeat(id, user, items) ==
  /\ reservation[id].state \in {"reserved", "committed"}
  /\ reservation[id].user = user
  /\ reservation[id].items = items

RepeatHold(id, user, items) ==
  /\ IsRepeat(id, user, items)
  /\ UNCHANGED vars

ReserveStock(id, user, request, expiresAt) ==
  LET items == NormalizeStockItems(request) IN
    OpenHold(id, user, items, expiresAt) \/ RepeatHold(id, user, items)

\* A faulty form of WriteOutcome in which a release lowers the count as well.
WriteSale(id, target) ==
  LET items == reservation[id].items IN
    /\ reserved' = [v \in Variant |-> reserved[v] - items[v]]
    /\ onHand' = [v \in Variant |-> onHand[v] - items[v]]
    /\ reservation' = [reservation EXCEPT ![id].state = target]
    /\ UNCHANGED <<stock, audit, now>>

\* What finishReservation writes: the units leave `reserved`, and leave
\* `on_hand` too when they are sold.  An UPDATE of an absent row changes nothing.
WriteOutcome(id, target) ==
  LET items == reservation[id].items IN
    /\ reserved' = [v \in Variant |->
         IF v \in stock THEN reserved[v] - items[v] ELSE reserved[v]]
    /\ onHand' = [v \in Variant |->
         IF v \in stock /\ target = "committed"
           THEN onHand[v] - items[v] ELSE onHand[v]]
    /\ reservation' = [reservation EXCEPT ![id].state = target]
    /\ UNCHANGED <<stock, audit, now>>

\* Faulty forms of Settle: one that accepts a release after the sale, and one
\* that applies the same outcome again.
SettleAnyOther(id, target) ==
  /\ reservation[id].state \notin {"none", target}
  /\ WriteOutcome(id, target)
SettleAgain(id, target) ==
  /\ reservation[id].state \in {"reserved", target}
  /\ WriteOutcome(id, target)

Settle(id, target) ==
  /\ reservation[id].state = "reserved"
  /\ WriteOutcome(id, target)

\* The calls of finishReservation that succeed without a change: the outcome
\* is already recorded, or there is nothing to release.
FinishIsNoOp(id, target) ==
  \/ reservation[id].state = target
  \/ reservation[id].state = "none" /\ target = "released"

FinishReservation(id, target) ==
  \/ Settle(id, target)
  \/ FinishIsNoOp(id, target) /\ UNCHANGED vars

Tick ==
  /\ now < MaxTime
  /\ now' = now + 1
  /\ UNCHANGED <<stock, onHand, reserved, reservation, audit>>

-----------------------------------------------------------------------------
Next ==
  \/ \E v \in Variant, count \in 0..MaxOnHand : SetStock(v, count)
  \/ \E id \in ReservationId, user \in User, request \in Requests,
        expiresAt \in 0..(MaxTime + HoldWindow) :
       ReserveStock(id, user, request, expiresAt)
  \/ \E id \in ReservationId, target \in {"committed", "released"} :
       FinishReservation(id, target)
  \/ Tick

Spec == Init /\ [][Next]_vars

-----------------------------------------------------------------------------
(* Properties *)

\* The rows of every table have their declared types.
TypeOK ==
  /\ stock \subseteq Variant
  /\ onHand \in [Variant -> Nat]
  /\ reserved \in [Variant -> Nat]
  /\ reservation \in [ReservationId -> Reservation \cup {NoReservation}]
  /\ audit \in [Variant -> [rows : 0..MaxAudits, count : 0..MaxOnHand]]
  /\ now \in 0..MaxTime

\* The single units of variant v in the reservations of `res` in state s.
Units(res, v, s) ==
  UNION {{id} \X (1..res[id].items[v]) : id \in {r \in ReservationId : res[r].state = s}}

\* The units of v that open purchases hold, and those that were sold.
HeldUnits(v) == Units(reservation, v, "reserved")
SoldUnits(v) == Units(reservation, v, "committed")

\* The `reserved` column of a variant is exactly what the open reservations
\* hold of it: no failed, repeated or settled purchase leaves units behind
\* (reserveStock, finishReservation).
ReservedIsHeld ==
  \A v \in Variant : reserved[v] = Cardinality(HeldUnits(v))

\* No variant is oversold, and a variant whose row was removed by setStock
\* neither has nor holds a unit, so no settlement can miss its row
\* (the CHECKs of inventory.stock, the DELETE of setStock).
NeverOversold ==
  /\ \A v \in Variant : reserved[v] <= onHand[v]
  /\ \A v \in Variant \ stock : onHand[v] = 0 /\ reserved[v] = 0

\* The count of a variant changes only with an audit row or by the units that
\* the same step sells: nothing else creates or destroys stock.
CountsAreAccountedFor ==
  [][\A v \in Variant :
       audit'[v].rows = audit[v].rows =>
         onHand'[v] + Cardinality(SoldUnits(v)')
           = onHand[v] + Cardinality(SoldUnits(v))]_vars

\* A purchase is settled at most once and never re-opened, and its owner and
\* items never change once they were held (docs/adr/0002-payment-inventory.md:
\* terminal states cannot be reversed).
TerminalStatesStay ==
  [][\A id \in ReservationId :
       /\ reservation[id].state \in {"committed", "released"} =>
            reservation'[id] = reservation[id]
       /\ reservation[id].state = "reserved" =>
            /\ reservation'[id].state # "none"
            /\ reservation'[id].user = reservation[id].user
            /\ reservation'[id].items = reservation[id].items]_vars
=============================================================================
