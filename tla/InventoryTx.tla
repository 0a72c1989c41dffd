----------------------------- MODULE InventoryTx -----------------------------
(***************************************************************************)
(* The transactions of packages/product-db/src/inventory.ts, statement by  *)
(* statement, on the connections of one or several product services.       *)
(*                                                                         *)
(* The tables hold committed rows only.  A transaction keeps its own       *)
(* writes to itself until COMMIT, and holds what PostgreSQL makes it hold  *)
(* until then: the advisory lock of its purchase and the lock of every     *)
(* stock row it has written.  A lock that is taken makes the statement     *)
(* wait; a transaction may end in ROLLBACK before any statement, because   *)
(* of a conflict, the statement timeout, or a lost connection.             *)
(***************************************************************************)
EXTENDS Inventory
LOCAL INSTANCE TLC

CONSTANTS
  Connection,  \* connections to the database, of every replica
  Free,        \* the owner of a lock that nobody holds
  Rank         \* the order in which normalizeStockItems sorts the variants

ASSUME TxAssumption ==
  /\ IsFiniteSet(Connection)
  /\ Free \notin Connection
  /\ Rank \in [Variant -> Nat]
  /\ \A v, w \in Variant : Rank[v] = Rank[w] => v = w

VARIABLES
  tx,      \* the transaction each connection runs
  idLock,  \* pg_advisory_xact_lock by purchase
  rowLock  \* row locks of inventory.stock

txVars == <<stock, onHand, reserved, reservation, audit, now, tx, idLock, rowLock>>
tableVars == vars

\* The calls of the three operations.
ReserveCalls ==
  [op : {"reserve"}, id : ReservationId, user : User,
   items : {NormalizeStockItems(request) : request \in Requests},
   expiresAt : 0..(MaxTime + HoldWindow)]
FinishCalls == [op : {"finish"}, id : ReservationId, target : {"committed", "released"}]
SetCalls == [op : {"set"}, variant : Variant, count : 0..MaxOnHand]

Idle == [step |-> "idle", call |-> [op |-> "none"], todo |-> {}]

TxInit ==
  /\ Init
  /\ tx = [c \in Connection |-> Idle]
  /\ idLock = [id \in ReservationId |-> Free]
  /\ rowLock = [v \in Variant |-> Free]

\* Locks end with their transaction.
ReleaseLocks(c) ==
  /\ idLock' = [id \in ReservationId |-> IF idLock[id] = c THEN Free ELSE idLock[id]]
  /\ rowLock' = [v \in Variant |-> IF rowLock[v] = c THEN Free ELSE rowLock[v]]

\* A faulty form of FirstRows: the rows in whatever order the cart lists them.
Unsorted(todo) == todo

\* The variant of `todo` that comes first in the order of normalizeStockItems.
FirstRows(todo) == {v \in todo : \A w \in todo : Rank[v] <= Rank[w]}

Touched(items) == {v \in Variant : items[v] > 0}

-----------------------------------------------------------------------------
\* connection.connect and BEGIN.
Begin(c, call) ==
  /\ tx[c].step = "idle"
  /\ tx' = [tx EXCEPT ![c] = [step |-> IF call.op = "set" THEN "rows" ELSE "lock",
                              call |-> call,
                              todo |-> IF call.op = "set" THEN {call.variant} ELSE {}]]
  /\ UNCHANGED <<tableVars, idLock, rowLock>>

\* A faulty form of LockPurchase that does not take the advisory lock.
SkipPurchaseLock(c) ==
  /\ tx[c].step = "lock"
  /\ tx' = [tx EXCEPT ![c].step = "read"]
  /\ UNCHANGED <<tableVars, idLock, rowLock>>

\* SELECT pg_advisory_xact_lock(id) waits for the other calls of this purchase.
LockPurchase(c) ==
  LET id == tx[c].call.id IN
    /\ tx[c].step = "lock"
    /\ idLock[id] = Free
    /\ idLock' = [idLock EXCEPT ![id] = c]
    /\ tx' = [tx EXCEPT ![c].step = "read"]
    /\ UNCHANGED <<tableVars, rowLock>>

\* SELECT ... FOR UPDATE of the reservation, and what its row decides.  A call
\* that is refused rolls back: see Rollback.
ReadForReserve(c) ==
  LET call == tx[c].call IN
    /\ tx[c].step = "read"
    /\ call.op = "reserve"
    /\ \/ /\ IsRepeat(call.id, call.user, call.items)
          /\ tx' = [tx EXCEPT ![c].step = "end"]
       \/ /\ reservation[call.id].state = "none"
          /\ now < call.expiresAt /\ call.expiresAt <= now + HoldWindow
          /\ tx' = [tx EXCEPT ![c].step = "rows", ![c].todo = Touched(call.items)]
    /\ UNCHANGED <<tableVars, idLock, rowLock>>

\* A faulty form of ReadForFinish that settles whatever state it reads.
FinishUnread(c) ==
  LET call == tx[c].call IN
    /\ tx[c].step = "read"
    /\ call.op = "finish"
    /\ tx' = [tx EXCEPT ![c].step = "rows", ![c].todo = Touched(reservation[call.id].items)]
    /\ UNCHANGED <<tableVars, idLock, rowLock>>

ReadForFinish(c) ==
  LET call == tx[c].call IN
    /\ tx[c].step = "read"
    /\ call.op = "finish"
    /\ \/ /\ FinishIsNoOp(call.id, call.target)
          /\ tx' = [tx EXCEPT ![c].step = "end"]
       \/ /\ reservation[call.id].state = "reserved"
          /\ tx' = [tx EXCEPT ![c].step = "rows",
                              ![c].todo = Touched(reservation[call.id].items)]
    /\ UNCHANGED <<tableVars, idLock, rowLock>>

\* The UPDATE or upsert of one stock row: what it requires of the committed row.
RowAccepts(call, v) ==
  CASE call.op = "reserve" -> v \in stock /\ onHand[v] - reserved[v] >= call.items[v]
    [] call.op = "finish"  -> TRUE
    [] call.op = "set"     -> AcceptsCount(v, call.count)

\* One statement of the loop over the rows.  It waits for the row lock, and is
\* evaluated on the row as committed by the previous owner.  An UPDATE that
\* finds no row locks none.
WriteRow(c, v) ==
  LET call == tx[c].call IN
    /\ tx[c].step = "rows"
    /\ v \in FirstRows(tx[c].todo)
    /\ RowAccepts(call, v)
    /\ \/ /\ v \in stock \/ call.op = "set"
          /\ rowLock[v] = Free
          /\ rowLock' = [rowLock EXCEPT ![v] = c]
       \/ /\ v \notin stock /\ call.op = "finish"
          /\ UNCHANGED rowLock
    /\ tx' = [tx EXCEPT ![c].todo = @ \ {v}]
    /\ UNCHANGED <<tableVars, idLock>>

\* COMMIT makes the writes of the transaction visible at once: the rows, and
\* the statements after the loop (the INSERT or UPDATE of the reservation, the
\* audit row and the DELETE of an empty row), which wait for nobody.
CommitWrites(c) ==
  LET call == tx[c].call IN
    /\ tx[c].step = "rows"
    /\ tx[c].todo = {}
    /\ \/ call.op = "reserve" /\ WriteHold(call.id, call.user, call.items)
       \/ call.op = "finish" /\ WriteOutcome(call.id, call.target)
       \/ call.op = "set" /\ WriteCount(call.variant, call.count)
    /\ tx' = [tx EXCEPT ![c] = Idle]
    /\ ReleaseLocks(c)

\* The COMMIT of a call that found its outcome already recorded.
CommitNothing(c) ==
  /\ tx[c].step = "end"
  /\ tx' = [tx EXCEPT ![c] = Idle]
  /\ ReleaseLocks(c)
  /\ UNCHANGED tableVars

\* A conflict, the statement timeout or a lost connection: ROLLBACK.
Rollback(c) ==
  /\ tx[c].step # "idle"
  /\ tx' = [tx EXCEPT ![c] = Idle]
  /\ ReleaseLocks(c)
  /\ UNCHANGED tableVars

TxTick == Tick /\ UNCHANGED <<tx, idLock, rowLock>>

Statement(c) ==
  \/ LockPurchase(c)
  \/ ReadForReserve(c)
  \/ ReadForFinish(c)
  \/ \E v \in Variant : WriteRow(c, v)
  \/ CommitWrites(c)
  \/ CommitNothing(c)

TxNext ==
  \/ \E c \in Connection, call \in ReserveCalls \cup FinishCalls \cup SetCalls : Begin(c, call)
  \/ \E c \in Connection : Statement(c) \/ Rollback(c)
  \/ TxTick

TxSpec == TxInit /\ [][TxNext]_txVars

-----------------------------------------------------------------------------
(* Properties *)

TxTypeOK ==
  /\ TypeOK
  /\ \A c \in Connection :
       /\ tx[c].step \in {"idle", "lock", "read", "rows", "end"}
       /\ tx[c].call \in ReserveCalls \cup FinishCalls \cup SetCalls \cup {Idle.call}
       /\ tx[c].todo \subseteq Variant
  /\ idLock \in [ReservationId -> Connection \cup {Free}]
  /\ rowLock \in [Variant -> Connection \cup {Free}]

\* Whatever the interleaving of statements, lock waits and rollbacks, the
\* committed tables change only as the transactions of module Inventory do:
\* inventory.ts is atomic although PostgreSQL runs it at READ COMMITTED.
ImplementsInventory == Spec

\* The connection that the next statement of c waits for.
Awaits(c, d) ==
  \/ tx[c].step = "lock" /\ idLock[tx[c].call.id] = d
  \/ /\ tx[c].step = "rows"
     /\ \E v \in FirstRows(tx[c].todo) : RowAccepts(tx[c].call, v) /\ rowLock[v] = d

\* No set of transactions wait for one another, so none is sacrificed to
\* PostgreSQL's deadlock detection: carts take their rows in one order
\* (comment of normalizeStockItems, inventory.ts:128).
NoLockCycle ==
  \A S \in (SUBSET Connection) \ {{}} :
    \E c \in S : \A d \in S : ~Awaits(c, d)

-----------------------------------------------------------------------------
(* Small instances: every cart takes one unit of every variant, in any order *)
(* of its lines, so that carts, settlements and counts meet on the same rows *)

EveryVariant ==
  LET places == 1..Cardinality(Variant) IN
  {cart \in [places -> [variant : Variant, quantity : {1}]] :
     \A v \in Variant : \E i \in places : cart[i].variant = v}

AnyRank ==
  CHOOSE rank \in [Variant -> 1..Cardinality(Variant)] :
    \A v, w \in Variant : rank[v] = rank[w] => v = w

\* Nothing tells two purchases or two connections apart.
TxSymmetry == Permutations(ReservationId) \cup Permutations(Connection)
=============================================================================
