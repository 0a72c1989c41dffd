--------------------------- MODULE InventoryProofs ---------------------------
(***************************************************************************)
(* Of Inventory: type correctness, conservation of held units, and the     *)
(* absence of overselling, for any set of variants and any finite set of   *)
(* purchases.                                                              *)
(*                                                                         *)
(* Of InventoryTx: its transactions implement Inventory, and never wait    *)
(* for one another in a cycle, for any finite number of connections.  The  *)
(* argument is what locks are for.  Each transaction relies on what it     *)
(* read and wrote so far, and every one of these facts is about a purchase *)
(* or a row that it has locked; a commit changes only what its own         *)
(* transaction has locked.  The cycle is excluded by the order in which    *)
(* rows are taken.                                                         *)
(***************************************************************************)
EXTENDS InventoryTx, FiniteSetTheorems, WellFoundedInduction, TLAPS

USE InventoryAssumption

\* An interval of units tagged with a purchase has as many elements.
LEMMA TaggedUnits ==
  ASSUME NEW id, NEW q \in Nat
  PROVE  /\ IsFiniteSet({id} \X (1..q))
         /\ Cardinality({id} \X (1..q)) = q
<1>1. IsFiniteSet({id}) /\ Cardinality({id}) = 1
  BY FS_Singleton
<1>2. IsFiniteSet(1..q) /\ Cardinality(1..q) = q
  BY FS_Interval
<1>3. /\ IsFiniteSet({id} \X (1..q))
      /\ Cardinality({id} \X (1..q)) = Cardinality({id}) * Cardinality(1..q)
  BY <1>1, <1>2, FS_Product
<1> QED
  BY <1>1, <1>2, <1>3

\* The units of a set of purchases are finite in number.
LEMMA UnitsFinite ==
  ASSUME NEW res \in [ReservationId -> Reservation \cup {NoReservation}],
         NEW v \in Variant, NEW s
  PROVE  IsFiniteSet(Units(res, v, s))
<1> DEFINE ids == {r \in ReservationId : res[r].state = s}
           Tagged(id) == {id} \X (1..res[id].items[v])
<1>1. IsFiniteSet(ids)
  BY FS_Subset
<1>2. IsFiniteSet({Tagged(id) : id \in ids})
  <2> DEFINE f == [id \in ids |-> Tagged(id)]
             T == {Tagged(id) : id \in ids}
  <2>1. f \in Surjection(ids, T)
    BY DEF Surjection
  <2> QED BY <1>1, <2>1, FS_Surjection
<1>3. \A T \in {Tagged(id) : id \in ids} : IsFiniteSet(T)
  <2>1. ASSUME NEW id \in ids PROVE IsFiniteSet(Tagged(id))
    <3>1. res[id].items[v] \in Nat
      BY DEF Reservation, NoReservation, NoItems, Items
    <3> QED BY <3>1, TaggedUnits
  <2> QED BY <2>1
<1>4. IsFiniteSet(UNION {Tagged(id) : id \in ids})
  BY <1>2, <1>3, FS_UNION
<1> QED BY <1>4 DEF Units

\* A purchase that enters state s adds its units to those in s.
LEMMA UnitsEntering ==
  ASSUME NEW res \in [ReservationId -> Reservation \cup {NoReservation}],
         NEW next \in [ReservationId -> Reservation \cup {NoReservation}],
         NEW id \in ReservationId, NEW v \in Variant, NEW s,
         \A other \in ReservationId \ {id} : next[other] = res[other],
         res[id].state # s, next[id].state = s
  PROVE  Cardinality(Units(next, v, s))
           = Cardinality(Units(res, v, s)) + next[id].items[v]
<1> DEFINE tag == {id} \X (1..next[id].items[v])
<1>1. next[id].items[v] \in Nat
  BY DEF Reservation, NoReservation, NoItems, Items
<1>2. Units(next, v, s) = Units(res, v, s) \cup tag
  BY DEF Units
<1>3. Units(res, v, s) \cap tag = {}
  BY DEF Units
<1>4. /\ IsFiniteSet(Units(res, v, s))
      /\ IsFiniteSet(tag)
      /\ Cardinality(tag) = next[id].items[v]
  BY <1>1, UnitsFinite, TaggedUnits
<1>5. Cardinality(Units(res, v, s) \cup tag)
        = Cardinality(Units(res, v, s)) + Cardinality(tag)
            - Cardinality(Units(res, v, s) \cap tag)
  BY <1>4, FS_Union
<1>6. Cardinality(Units(res, v, s)) \in Nat
  BY <1>4, FS_CardinalityType
<1>7. Cardinality(Units(res, v, s) \cap tag) = 0
  BY <1>3, FS_EmptySet
<1>8. Cardinality(Units(next, v, s)) = Cardinality(Units(res, v, s)) + Cardinality(tag)
  BY <1>1, <1>2, <1>4, <1>5, <1>6, <1>7
<1> QED
  BY <1>4, <1>8

\* A purchase that is not in state s, before or after, adds none.
LEMMA UnitsElsewhere ==
  ASSUME NEW res, NEW next,
         NEW id \in ReservationId, NEW v \in Variant, NEW s,
         \A other \in ReservationId \ {id} : next[other] = res[other],
         res[id].state # s, next[id].state # s
  PROVE  Units(next, v, s) = Units(res, v, s)
BY DEF Units

-----------------------------------------------------------------------------
(* Type correctness *)

\* Merging a list of lines gives every variant a natural number of units.
LEMMA NormalizeType ==
  ASSUME NEW request \in Requests
  PROVE  NormalizeStockItems(request) \in Items
<1> DEFINE grid == (1..Len(request)) \X (1..MaxQuantity)
<1>1. Len(request) \in Nat
  OBVIOUS
<1>2. IsFiniteSet(grid)
  <2>1. IsFiniteSet(1..Len(request)) /\ IsFiniteSet(1..MaxQuantity)
    BY <1>1, FS_Interval
  <2> HIDE <1>1
  <2> QED
    BY <2>1, FS_Product
<1>3. ASSUME NEW v \in Variant
      PROVE  NormalizeStockItems(request)[v] \in Nat
  <2> DEFINE units == {unit \in grid : /\ request[unit[1]].variant = v
                                       /\ unit[2] <= request[unit[1]].quantity}
  <2>1. IsFiniteSet(units)
    BY <1>2, FS_Subset
  <2>2. Cardinality(units) \in Nat
    BY <2>1, FS_CardinalityType
  <2> QED
    BY <2>2 DEF NormalizeStockItems
<1> QED
  BY <1>3 DEF NormalizeStockItems, Items

\* Held units never exceed the count, the count of an absent row is zero, and
\* the reserved column is what open purchases hold: together inductive.
IInv == TypeOK /\ ReservedIsHeld /\ NeverOversold

LEMMA InitIInv == Init => IInv
<1> SUFFICES ASSUME Init PROVE IInv
  OBVIOUS
<1>1. TypeOK
  BY DEF Init, TypeOK, NoItems
<1>2. ReservedIsHeld
  <2>1. ASSUME NEW v \in Variant PROVE HeldUnits(v) = {}
    BY DEF Init, HeldUnits, Units, NoReservation
  <2> QED
    BY <2>1, FS_EmptySet DEF ReservedIsHeld, Init, NoItems
<1>3. NeverOversold
  BY DEF Init, NeverOversold, NoItems
<1> QED
  BY <1>1, <1>2, <1>3 DEF IInv

\* A step that leaves reservations and the reserved column alone keeps ReservedIsHeld.
LEMMA HoldsUntouched ==
  ASSUME ReservedIsHeld, UNCHANGED <<reserved, reservation>>
  PROVE  ReservedIsHeld'
BY DEF ReservedIsHeld, HeldUnits, Units

LEMMA SetStockIInv ==
  ASSUME IInv, NEW v \in Variant, NEW count \in 0..MaxOnHand, SetStock(v, count)
  PROVE  IInv'
<1> USE DEF IInv
<1>1. TypeOK'
  <2>1. onHand' \in [Variant -> Nat]
    BY DEF SetStock, AcceptsCount, WriteCount, TypeOK
  <2>2. audit' \in [Variant -> [rows : 0..MaxAudits, count : 0..MaxOnHand]]
    BY DEF SetStock, AcceptsCount, WriteCount, TypeOK
  <2>3. stock' \subseteq Variant
    BY DEF SetStock, AcceptsCount, WriteCount, TypeOK
  <2> QED
    BY <2>1, <2>2, <2>3 DEF SetStock, AcceptsCount, WriteCount, TypeOK
<1>2. ReservedIsHeld'
  BY HoldsUntouched DEF SetStock, AcceptsCount, WriteCount
<1>3. NeverOversold'
  <2>1. reserved[v] <= count
    BY DEF SetStock, AcceptsCount, WriteCount, NeverOversold, TypeOK
  <2>2. \A w \in Variant : reserved'[w] <= onHand'[w]
    BY <2>1 DEF SetStock, AcceptsCount, WriteCount, NeverOversold, TypeOK
  <2>3. \A w \in Variant \ stock' : onHand'[w] = 0 /\ reserved'[w] = 0
    BY DEF SetStock, AcceptsCount, WriteCount, NeverOversold, TypeOK
  <2> QED
    BY <2>2, <2>3 DEF NeverOversold
<1> QED
  BY <1>1, <1>2, <1>3

LEMMA OpenHoldIInv ==
  ASSUME IInv, NEW id \in ReservationId, NEW user \in User, NEW items \in Items,
         NEW expiresAt \in Nat, OpenHold(id, user, items, expiresAt)
  PROVE  IInv'
<1> USE DEF IInv
<1>1. TypeOK'
  <2>1. reserved' \in [Variant -> Nat]
    BY DEF OpenHold, WriteHold, TypeOK, Items
  <2>2. [state |-> "reserved", user |-> user, items |-> items] \in Reservation
    BY DEF Reservation, States
  <2>3. reservation' \in [ReservationId -> Reservation \cup {NoReservation}]
    BY <2>2 DEF OpenHold, WriteHold, TypeOK
  <2> QED
    BY <2>1, <2>3 DEF OpenHold, WriteHold, TypeOK
<1>2. ReservedIsHeld'
  <2> SUFFICES ASSUME NEW v \in Variant
               PROVE  reserved'[v] = Cardinality(Units(reservation', v, "reserved"))
    BY DEF ReservedIsHeld, HeldUnits, Units
  <2>1. /\ reservation'[id].state = "reserved"
        /\ reservation'[id].items = items
        /\ reservation[id].state # "reserved"
        /\ \A other \in ReservationId \ {id} : reservation'[other] = reservation[other]
    BY DEF OpenHold, WriteHold, TypeOK
  <2>2. Cardinality(Units(reservation', v, "reserved"))
          = Cardinality(Units(reservation, v, "reserved")) + items[v]
    <3>1. /\ reservation \in [ReservationId -> Reservation \cup {NoReservation}]
          /\ reservation' \in [ReservationId -> Reservation \cup {NoReservation}]
      BY <1>1 DEF TypeOK
    <3>2. Cardinality(Units(reservation', v, "reserved"))
            = Cardinality(Units(reservation, v, "reserved")) + reservation'[id].items[v]
      BY <2>1, <3>1, UnitsEntering
    <3> QED
      BY <2>1, <3>2
  <2>3. reserved'[v] = reserved[v] + items[v]
    BY DEF OpenHold, WriteHold
  <2> QED
    BY <2>2, <2>3 DEF ReservedIsHeld, HeldUnits
<1>3. NeverOversold'
  <2>1. ASSUME NEW v \in Variant PROVE reserved'[v] <= onHand'[v]
    <3>1. /\ reserved[v] \in Nat /\ onHand[v] \in Nat /\ items[v] \in Nat
          /\ reserved[v] <= onHand[v]
      BY DEF TypeOK, Items, NeverOversold
    <3>2. items[v] > 0 => onHand[v] - reserved[v] >= items[v]
      BY DEF OpenHold, WriteHold, Fits
    <3>3. reserved'[v] = reserved[v] + items[v] /\ onHand'[v] = onHand[v]
      BY DEF OpenHold, WriteHold
    <3> QED
      BY <3>1, <3>2, <3>3
  <2>2. ASSUME NEW v \in Variant \ stock' PROVE onHand'[v] = 0 /\ reserved'[v] = 0
    BY DEF OpenHold, WriteHold, Fits, NeverOversold, TypeOK, Items
  <2> QED
    BY <2>1, <2>2 DEF NeverOversold
<1> QED
  BY <1>1, <1>2, <1>3

\* A settled hold was counted in the reserved column of each of its variants.
LEMMA SettledUnits ==
  ASSUME IInv, NEW id \in ReservationId, NEW target \in {"committed", "released"},
         Settle(id, target), NEW v \in Variant
  PROVE  /\ Cardinality(Units(reservation, v, "reserved"))
              = Cardinality(Units(reservation', v, "reserved")) + reservation[id].items[v]
         /\ Cardinality(Units(reservation', v, "reserved")) \in Nat
         /\ reservation[id].items[v] \in Nat
         /\ reservation' \in [ReservationId -> Reservation \cup {NoReservation}]
<1>1. reservation \in [ReservationId -> Reservation \cup {NoReservation}]
  BY DEF IInv, TypeOK
<1>2. reservation[id] \in Reservation
  BY <1>1 DEF Settle, WriteOutcome, NoReservation
<1>3. [reservation[id] EXCEPT !.state = target] \in Reservation
  BY <1>2 DEF Reservation, States
<1>4. reservation' \in [ReservationId -> Reservation \cup {NoReservation}]
  BY <1>1, <1>3 DEF Settle, WriteOutcome
<1>5. /\ reservation'[id].state = target
      /\ reservation[id].state = "reserved"
      /\ \A other \in ReservationId \ {id} : reservation[other] = reservation'[other]
  BY <1>1, <1>2 DEF Settle, WriteOutcome, Reservation
<1>6. reservation'[id].state # "reserved"
  BY <1>5
<1>7. Cardinality(Units(reservation, v, "reserved"))
        = Cardinality(Units(reservation', v, "reserved")) + reservation[id].items[v]
  BY <1>1, <1>4, <1>5, <1>6, UnitsEntering
<1>8. Cardinality(Units(reservation', v, "reserved")) \in Nat
  BY <1>4, UnitsFinite, FS_CardinalityType
<1>9. reservation[id].items[v] \in Nat
  BY <1>2 DEF Reservation, Items
<1> QED
  BY <1>4, <1>7, <1>8, <1>9

LEMMA SettleIInv ==
  ASSUME IInv, NEW id \in ReservationId, NEW target \in {"committed", "released"},
         Settle(id, target)
  PROVE  IInv'
<1> DEFINE items == reservation[id].items
<1>1. ASSUME NEW v \in Variant
      PROVE  /\ items[v] \in Nat /\ reserved[v] \in Nat /\ onHand[v] \in Nat
             /\ items[v] <= reserved[v]
             /\ reserved[v] <= onHand[v]
             /\ reserved[v] - items[v] = Cardinality(Units(reservation', v, "reserved"))
             /\ v \notin stock => onHand[v] = 0 /\ reserved[v] = 0 /\ items[v] = 0
  <2>1. reserved[v] = Cardinality(Units(reservation, v, "reserved"))
    BY DEF IInv, ReservedIsHeld, HeldUnits
  <2>2. reserved[v] \in Nat /\ onHand[v] \in Nat /\ reserved[v] <= onHand[v]
    BY DEF IInv, TypeOK, NeverOversold
  <2>3. v \notin stock => onHand[v] = 0 /\ reserved[v] = 0
    BY DEF IInv, NeverOversold
  <2>4. /\ Cardinality(Units(reservation, v, "reserved"))
             = Cardinality(Units(reservation', v, "reserved")) + items[v]
        /\ Cardinality(Units(reservation', v, "reserved")) \in Nat
        /\ items[v] \in Nat
    BY SettledUnits
  <2> QED
    BY <2>1, <2>2, <2>3, <2>4
<1>2. ASSUME NEW v \in Variant
      PROVE  /\ reserved'[v] = reserved[v] - items[v]
             /\ onHand'[v] = IF target = "committed" THEN onHand[v] - items[v] ELSE onHand[v]
  BY <1>1 DEF Settle, WriteOutcome
<1>3. TypeOK'
  <2>1. reserved' \in [Variant -> Nat]
    <3>1. ASSUME NEW v \in Variant PROVE reserved'[v] \in Nat
      BY <1>1, <1>2
    <3> QED
      BY <3>1 DEF Settle, WriteOutcome
  <2>2. onHand' \in [Variant -> Nat]
    <3>1. ASSUME NEW v \in Variant PROVE onHand'[v] \in Nat
      BY <1>1, <1>2
    <3> QED
      BY <3>1 DEF Settle, WriteOutcome
  <2>3. reservation' \in [ReservationId -> Reservation \cup {NoReservation}]
    <3>1. CASE Variant = {}
      <4>1. /\ reservation[id] \in Reservation
            /\ reservation \in [ReservationId -> Reservation \cup {NoReservation}]
        BY DEF IInv, TypeOK, Settle, WriteOutcome, NoReservation
      <4>2. [reservation[id] EXCEPT !.state = target] \in Reservation
        BY <4>1 DEF Reservation, States
      <4> QED
        BY <4>1, <4>2 DEF Settle, WriteOutcome
    <3>2. CASE Variant # {}
      BY <3>2, SettledUnits
    <3> QED
      BY <3>1, <3>2
  <2> QED
    BY <2>1, <2>2, <2>3 DEF IInv, TypeOK, Settle, WriteOutcome
<1>4. ReservedIsHeld'
  <2> SUFFICES ASSUME NEW v \in Variant
               PROVE  reserved'[v] = Cardinality(Units(reservation', v, "reserved"))
    BY DEF ReservedIsHeld, HeldUnits, Units
  <2> QED
    BY <1>1, <1>2
<1>5. NeverOversold'
  <2>1. ASSUME NEW v \in Variant PROVE reserved'[v] <= onHand'[v]
    BY <1>1, <1>2
  <2>2. ASSUME NEW v \in Variant \ stock' PROVE onHand'[v] = 0 /\ reserved'[v] = 0
    <3>1. v \notin stock
      BY DEF Settle, WriteOutcome
    <3> QED
      BY <1>1, <1>2, <3>1
  <2> QED
    BY <2>1, <2>2 DEF NeverOversold
<1> QED
  BY <1>3, <1>4, <1>5 DEF IInv

\* Every step preserves the invariant.
LEMMA NextIInv == IInv /\ [Next]_vars => IInv'
<1> SUFFICES ASSUME IInv, [Next]_vars PROVE IInv'
  OBVIOUS
<1>1. CASE UNCHANGED vars
  BY <1>1 DEF IInv, TypeOK, ReservedIsHeld, NeverOversold, HeldUnits, Units, vars
<1>2. CASE Tick
  BY <1>2 DEF Tick, IInv, TypeOK, ReservedIsHeld, NeverOversold, HeldUnits, Units
<1>3. ASSUME NEW v \in Variant, NEW count \in 0..MaxOnHand, SetStock(v, count)
      PROVE  IInv'
  BY <1>3, SetStockIInv
<1>4. ASSUME NEW id \in ReservationId, NEW user \in User, NEW request \in Requests,
             NEW expiresAt \in 0..(MaxTime + HoldWindow),
             ReserveStock(id, user, request, expiresAt)
      PROVE  IInv'
  <2>1. NormalizeStockItems(request) \in Items
    BY NormalizeType
  <2>2. CASE OpenHold(id, user, NormalizeStockItems(request), expiresAt)
    BY <2>1, <2>2, OpenHoldIInv
  <2>3. CASE RepeatHold(id, user, NormalizeStockItems(request))
    BY <2>3, <1>1 DEF RepeatHold
  <2> QED
    BY <1>4, <2>2, <2>3 DEF ReserveStock
<1>5. ASSUME NEW id \in ReservationId, NEW target \in {"committed", "released"},
             FinishReservation(id, target)
      PROVE  IInv'
  BY <1>1, <1>5, SettleIInv DEF FinishReservation
<1> QED
  BY <1>1, <1>2, <1>3, <1>4, <1>5 DEF Next

-----------------------------------------------------------------------------
(* Theorems *)

LEMMA Invariance == Spec => []IInv
BY InitIInv, NextIInv, PTL DEF Spec

\* The tables always hold rows of their declared types.
THEOREM TypeCorrect == Spec => []TypeOK
BY Invariance, PTL DEF IInv

\* The reserved column always equals what the open purchases hold, for any
\* finite number of purchases, any variants and any quantities.
THEOREM ReservedMatchesHolds == Spec => []ReservedIsHeld
BY Invariance, PTL DEF IInv

\* No variant is ever oversold, and no row with units is ever removed.
THEOREM NoOverselling == Spec => []NeverOversold
BY Invariance, PTL DEF IInv

\* A purchase never leaves a terminal state, and keeps its owner and items.
THEOREM SettledOnce == Spec => TerminalStatesStay
<1> DEFINE Stays(id) ==
      /\ reservation[id].state \in {"committed", "released"} =>
           reservation'[id] = reservation[id]
      /\ reservation[id].state = "reserved" =>
           /\ reservation'[id].state # "none"
           /\ reservation'[id].user = reservation[id].user
           /\ reservation'[id].items = reservation[id].items
<1>1. ASSUME TypeOK, Next, NEW id \in ReservationId
      PROVE  Stays(id)
  <2>1. CASE UNCHANGED reservation
    BY <2>1
  <2>2. ASSUME NEW other \in ReservationId, NEW user, NEW items, NEW expiresAt,
               OpenHold(other, user, items, expiresAt)
        PROVE  Stays(id)
    BY <1>1, <2>2 DEF OpenHold, WriteHold, TypeOK
  <2>3. ASSUME NEW other \in ReservationId, NEW target \in {"committed", "released"},
               Settle(other, target)
        PROVE  Stays(id)
    <3>1. reservation[other] \in Reservation
      BY <1>1, <2>3 DEF Settle, WriteOutcome, TypeOK, NoReservation
    <3> QED
      BY <1>1, <2>3, <3>1 DEF Settle, WriteOutcome, TypeOK, Reservation
  <2> QED
    BY <1>1, <2>1, <2>2, <2>3
    DEF Next, SetStock, AcceptsCount, WriteCount, ReserveStock, RepeatHold, FinishReservation, Tick, vars
<1>2. TypeOK /\ [Next]_vars => [\A id \in ReservationId : Stays(id)]_vars
  BY <1>1
<1> QED
  BY <1>2, TypeCorrect, PTL DEF Spec, TerminalStatesStay

\* Stock is created and destroyed only by an audited count or by a sale.
THEOREM LedgerBalances == Spec => CountsAreAccountedFor
<1> DEFINE Balanced(v) ==
      audit'[v].rows = audit[v].rows =>
        onHand'[v] + Cardinality(SoldUnits(v)') = onHand[v] + Cardinality(SoldUnits(v))
<1>1. ASSUME IInv, Next, NEW v \in Variant
      PROVE  Balanced(v)
  <2>1. CASE UNCHANGED <<onHand, reservation>>
    BY <2>1 DEF SoldUnits, Units
  <2>2. ASSUME NEW w \in Variant, NEW count \in 0..MaxOnHand, SetStock(w, count)
        PROVE  Balanced(v)
    <3>1. CASE w = v
      BY <1>1, <2>2, <3>1 DEF SetStock, AcceptsCount, WriteCount, IInv, TypeOK
    <3>2. CASE w # v
      <4>1. onHand'[v] = onHand[v]
        BY <1>1, <2>2, <3>2 DEF SetStock, AcceptsCount, WriteCount, IInv, TypeOK
      <4> QED
        BY <2>2, <4>1 DEF SetStock, AcceptsCount, WriteCount, SoldUnits, Units
    <3> QED
      BY <3>1, <3>2
  <2>3. ASSUME NEW id \in ReservationId, NEW user, NEW items, NEW expiresAt,
               OpenHold(id, user, items, expiresAt)
        PROVE  Balanced(v)
    <3>1. /\ reservation[id].state # "committed"
          /\ reservation'[id].state # "committed"
          /\ \A other \in ReservationId \ {id} : reservation'[other] = reservation[other]
      BY <1>1, <2>3 DEF OpenHold, WriteHold, IInv, TypeOK
    <3>2. SoldUnits(v)' = SoldUnits(v)
      BY <3>1, UnitsElsewhere DEF SoldUnits, Units
    <3> QED
      BY <2>3, <3>2 DEF OpenHold, WriteHold
  <2>4. ASSUME NEW id \in ReservationId, NEW target \in {"committed", "released"},
               Settle(id, target)
        PROVE  Balanced(v)
    <3> DEFINE units == reservation[id].items[v]
    <3>1. /\ reservation \in [ReservationId -> Reservation \cup {NoReservation}]
          /\ reservation' \in [ReservationId -> Reservation \cup {NoReservation}]
          /\ units \in Nat
      BY <1>1, <2>4, SettledUnits DEF IInv, TypeOK
    <3>2. reservation[id] \in Reservation
      BY <2>4, <3>1 DEF Settle, WriteOutcome, NoReservation
    <3>3. /\ reservation[id].state = "reserved"
          /\ reservation'[id].state = target
          /\ reservation'[id].items = reservation[id].items
          /\ \A other \in ReservationId \ {id} : reservation'[other] = reservation[other]
      BY <2>4, <3>1, <3>2 DEF Settle, WriteOutcome, Reservation
    <3>4. onHand[v] \in Nat /\ (v \notin stock => onHand[v] = 0 /\ units = 0)
      <4>1. /\ reserved[v] = Cardinality(Units(reservation, v, "reserved"))
            /\ v \notin stock => onHand[v] = 0 /\ reserved[v] = 0
            /\ onHand[v] \in Nat
        BY <1>1 DEF IInv, ReservedIsHeld, HeldUnits, NeverOversold, TypeOK
      <4>2. /\ Cardinality(Units(reservation, v, "reserved"))
                 = Cardinality(Units(reservation', v, "reserved")) + units
            /\ Cardinality(Units(reservation', v, "reserved")) \in Nat
        BY <1>1, <2>4, SettledUnits
      <4> QED
        BY <3>1, <4>1, <4>2
    <3>5. CASE target = "committed"
      <4>1. reservation[id].state # "committed" /\ reservation'[id].state = "committed"
        BY <3>3, <3>5
      <4>2. Cardinality(Units(reservation', v, "committed"))
              = Cardinality(Units(reservation, v, "committed")) + units
        BY <3>1, <3>3, <4>1, UnitsEntering
      <4>3. Cardinality(Units(reservation, v, "committed")) \in Nat
        BY <3>1, UnitsFinite, FS_CardinalityType
      <4>4. onHand'[v] = onHand[v] - units
        BY <2>4, <3>4, <3>5 DEF Settle, WriteOutcome
      <4>5. SoldUnits(v)' = Units(reservation', v, "committed")
        BY DEF SoldUnits, Units
      <4> QED
        BY <3>1, <3>4, <4>2, <4>3, <4>4, <4>5 DEF SoldUnits
    <3>6. CASE target = "released"
      <4>1. reservation[id].state # "committed" /\ reservation'[id].state # "committed"
        BY <3>3, <3>6
      <4>2. SoldUnits(v)' = SoldUnits(v)
        BY <3>3, <4>1, UnitsElsewhere DEF SoldUnits, Units
      <4>3. onHand'[v] = onHand[v]
        BY <2>4, <3>6 DEF Settle, WriteOutcome
      <4> QED
        BY <4>2, <4>3
    <3> QED
      BY <3>5, <3>6
  <2> QED
    BY <1>1, <2>1, <2>2, <2>3, <2>4
    DEF Next, ReserveStock, RepeatHold, FinishReservation, Tick, vars
<1>2. IInv /\ [Next]_vars => [\A v \in Variant : Balanced(v)]_vars
  BY <1>1
<1> QED
  BY <1>2, Invariance, PTL DEF Spec, CountsAreAccountedFor

-----------------------------------------------------------------------------
(***************************************************************************)
(* The transactions of InventoryTx.                                        *)
(***************************************************************************)
USE TxAssumption

Calls == ReserveCalls \cup FinishCalls \cup SetCalls
TxRow == [step : {"idle", "lock", "read", "rows", "end"}, call : Calls \cup {Idle.call},
          todo : SUBSET Variant]

\* The rows that the loop of a transaction goes through.
RowsOf(c) ==
  IF tx[c].call.op = "reserve" THEN Touched(tx[c].call.items)
  ELSE IF tx[c].call.op = "finish" THEN Touched(reservation[tx[c].call.id].items)
  ELSE {tx[c].call.variant}

Called(c) ==
  /\ tx[c].step = "idle" => tx[c] = Idle
  /\ tx[c].step \in {"lock", "read", "end"} => tx[c].call \in ReserveCalls \cup FinishCalls
  /\ tx[c].step = "rows" => tx[c].call \in Calls

\* From its first statement on, a call of a purchase holds the purchase's lock.
PurchaseLocked(c) ==
  tx[c].step \in {"read", "rows", "end"} /\ tx[c].call.op # "set" =>
    idLock[tx[c].call.id] = c

\* What it read of the reservation is still so.
StillRead(c) ==
  LET call == tx[c].call IN
    tx[c].step = "rows" =>
      /\ call.op = "reserve" => reservation[call.id].state = "none" /\ ExpiryAccepted(call.expiresAt)
      /\ call.op = "finish" => reservation[call.id].state = "reserved"

\* The rows it has been through are locked, and still as they were required to be.
StillAccepted(c) ==
  tx[c].step = "rows" =>
    /\ tx[c].todo \subseteq RowsOf(c)
    /\ \A v \in RowsOf(c) \ tx[c].todo : rowLock[v] = c /\ RowAccepts(tx[c].call, v)

\* Locks belong to transactions at work, and rows are taken in the one order.
LocksOwned ==
  /\ \A id \in ReservationId : idLock[id] # Free =>
       LET c == idLock[id] IN
         tx[c].step \in {"read", "rows", "end"} /\ tx[c].call.op # "set" /\ tx[c].call.id = id
  /\ \A v \in Variant : rowLock[v] # Free =>
       LET c == rowLock[v] IN
         tx[c].step = "rows" /\ \A w \in tx[c].todo : Rank[v] < Rank[w]

TxInv ==
  /\ IInv
  /\ tx \in [Connection -> TxRow]
  /\ idLock \in [ReservationId -> Connection \cup {Free}]
  /\ rowLock \in [Variant -> Connection \cup {Free}]
  /\ \A c \in Connection : Called(c) /\ PurchaseLocked(c) /\ StillRead(c) /\ StillAccepted(c)
  /\ LocksOwned

-----------------------------------------------------------------------------
LEMMA CallFields ==
  ASSUME NEW call \in Calls
  PROVE  /\ call.op \in {"reserve", "finish", "set"}
         /\ call.op = "reserve" =>
              /\ call \in ReserveCalls
              /\ call.id \in ReservationId /\ call.user \in User /\ call.items \in Items
              /\ call.expiresAt \in 0..(MaxTime + HoldWindow)
              /\ \E request \in Requests : call.items = NormalizeStockItems(request)
         /\ call.op = "finish" =>
              /\ call \in FinishCalls
              /\ call.id \in ReservationId /\ call.target \in {"committed", "released"}
         /\ call.op = "set" => call.variant \in Variant /\ call.count \in 0..MaxOnHand
         /\ call \in ReserveCalls \cup FinishCalls => call.op # "set"
<1>1. CASE call \in ReserveCalls
  <2>1. PICK request \in Requests : call.items = NormalizeStockItems(request)
    BY <1>1 DEF ReserveCalls
  <2>2. call.items \in Items
    BY <2>1, NormalizeType
  <2> QED BY <1>1, <2>1, <2>2 DEF ReserveCalls
<1>2. CASE call \in FinishCalls
  BY <1>2 DEF FinishCalls
<1>3. CASE call \in SetCalls
  BY <1>3 DEF SetCalls, ReserveCalls, FinishCalls
<1> QED BY <1>1, <1>2, <1>3 DEF Calls

LEMMA AcceptsByOp ==
  ASSUME NEW call, NEW v
  PROVE  /\ call.op = "reserve" =>
              (RowAccepts(call, v) <=> v \in stock /\ onHand[v] - reserved[v] >= call.items[v])
         /\ call.op = "finish" => RowAccepts(call, v)
         /\ call.op = "set" => (RowAccepts(call, v) <=> AcceptsCount(v, call.count))
BY DEF RowAccepts

\* A transaction keeps what it relies on, when the purchase and the rows it has
\* locked are left alone.
LEMMA Undisturbed ==
  ASSUME TxInv, NEW d \in Connection, tx'[d] = tx[d],
         \A id \in ReservationId : idLock[id] = d =>
           idLock'[id] = d /\ reservation'[id] = reservation[id],
         \A v \in Variant : rowLock[v] = d =>
           /\ rowLock'[v] = d
           /\ v \in stock' <=> v \in stock
           /\ onHand'[v] = onHand[v] /\ reserved'[v] = reserved[v] /\ audit'[v] = audit[v],
         now' \in Nat, now <= now'
  PROVE  Called(d)' /\ PurchaseLocked(d)' /\ StillRead(d)' /\ StillAccepted(d)'
<1> DEFINE call == tx[d].call
<1>1. Called(d) /\ PurchaseLocked(d) /\ StillRead(d) /\ StillAccepted(d)
  BY DEF TxInv
<1>2. Called(d)'
  BY <1>1 DEF Called
<1>3. ASSUME tx[d].step \in {"read", "rows", "end"}, call.op # "set"
      PROVE  /\ call.id \in ReservationId /\ idLock[call.id] = d
             /\ idLock'[call.id] = d /\ reservation'[call.id] = reservation[call.id]
  <2>1. call \in Calls
    BY <1>1, <1>3 DEF Called, Calls
  <2>2. call.id \in ReservationId
    BY <2>1, <1>3, CallFields
  <2> QED BY <2>2, <1>1, <1>3 DEF PurchaseLocked
<1>4. PurchaseLocked(d)'
  BY <1>3 DEF PurchaseLocked
<1>5. StillRead(d)'
  <2>1. ASSUME NEW expiresAt, ExpiryAccepted(expiresAt) PROVE ExpiryAccepted(expiresAt)'
    BY <2>1 DEF ExpiryAccepted, TxInv, IInv, TypeOK
  <2> QED BY <1>1, <1>3, <2>1 DEF StillRead
<1>6. StillAccepted(d)'
  <2> SUFFICES ASSUME tx[d].step = "rows" PROVE StillAccepted(d)'
    BY DEF StillAccepted
  <2>1. RowsOf(d)' = RowsOf(d) /\ RowsOf(d) \subseteq Variant
    <3>1. call \in Calls
      BY <1>1 DEF Called
    <3>2. call.op = "finish" => reservation'[call.id] = reservation[call.id]
      BY <1>3
    <3>3. \A items : Touched(items) \subseteq Variant
      BY DEF Touched
    <3>4. RowsOf(d) \subseteq Variant
      BY <3>1, <3>3, CallFields DEF RowsOf
    <3>5. RowsOf(d)' = RowsOf(d)
      BY <3>2 DEF RowsOf
    <3> QED BY <3>4, <3>5
  <2>2. ASSUME NEW v \in RowsOf(d) \ tx[d].todo
        PROVE  rowLock'[v] = d /\ RowAccepts(call, v)'
    <3>1. v \in Variant /\ rowLock[v] = d /\ RowAccepts(call, v)
      BY <2>1, <1>1 DEF StillAccepted
    <3>2. /\ rowLock'[v] = d /\ (v \in stock' <=> v \in stock)
          /\ onHand'[v] = onHand[v] /\ reserved'[v] = reserved[v] /\ audit'[v] = audit[v]
      BY <3>1
    <3>3. tx'[d].call = call
      OBVIOUS
    <3> QED BY <3>1, <3>2, <3>3 DEF RowAccepts, AcceptsCount
  <2> QED BY <2>1, <2>2, <1>1 DEF StillAccepted
<1> QED BY <1>2, <1>4, <1>5, <1>6

\* A statement of c that changes no table, and no lock but its own, leaves the
\* other transactions what they rely on.
LEMMA OthersUndisturbed ==
  ASSUME TxInv, UNCHANGED tableVars, NEW c \in Connection, NEW d \in Connection \ {c},
         tx'[d] = tx[d],
         \A id \in ReservationId : idLock[id] = d => idLock'[id] = d,
         \A v \in Variant : rowLock[v] = d => rowLock'[v] = d
  PROVE  Called(d)' /\ PurchaseLocked(d)' /\ StillRead(d)' /\ StillAccepted(d)'
<1>1. now' \in Nat /\ now <= now'
  BY DEF tableVars, vars, TxInv, IInv, TypeOK
<1> QED BY <1>1, Undisturbed DEF tableVars, vars

LEMMA TablesUnchanged ==
  ASSUME IInv, UNCHANGED tableVars
  PROVE  IInv'
BY NextIInv DEF tableVars

-----------------------------------------------------------------------------
(* The statements, up to COMMIT *)

LEMMA InitTxInv == TxInit => TxInv
<1> SUFFICES ASSUME TxInit PROVE TxInv
  OBVIOUS
<1>1. IInv
  BY InitIInv DEF TxInit
<1>2. Idle \in TxRow /\ Idle.step = "idle"
  BY DEF Idle, TxRow
<1>3. ASSUME NEW c \in Connection PROVE Called(c) /\ PurchaseLocked(c) /\ StillRead(c) /\ StillAccepted(c)
  <2>1. tx[c] = Idle
    BY DEF TxInit
  <2> QED BY <2>1, <1>2 DEF Called, PurchaseLocked, StillRead, StillAccepted
<1>4. LocksOwned
  BY DEF TxInit, LocksOwned
<1> QED BY <1>1, <1>2, <1>3, <1>4 DEF TxInit, TxInv

\* A transaction that holds nothing begins.
LEMMA BeginTxInv ==
  ASSUME TxInv, NEW c \in Connection, NEW call \in Calls, Begin(c, call)
  PROVE  TxInv'
<1> DEFINE row == [step |-> IF call.op = "set" THEN "rows" ELSE "lock", call |-> call,
                   todo |-> IF call.op = "set" THEN {call.variant} ELSE {}]
<1>1. /\ tx \in [Connection -> TxRow] /\ tx' = [tx EXCEPT ![c] = row]
      /\ UNCHANGED <<tableVars, idLock, rowLock>> /\ tx[c].step = "idle"
  BY DEF TxInv, Begin
<1>2. row \in TxRow /\ (call.op # "set" => call \in ReserveCalls \cup FinishCalls)
  BY CallFields DEF TxRow
<1>3. tx' \in [Connection -> TxRow] /\ tx'[c] = row /\ \A d \in Connection \ {c} : tx'[d] = tx[d]
  BY <1>1, <1>2
<1>4. Called(c)' /\ PurchaseLocked(c)' /\ StillRead(c)'
  <2>1. row.step \in {"rows", "lock"} /\ row.call = call /\ (row.step = "rows" <=> call.op = "set")
    OBVIOUS
  <2> HIDE DEF row
  <2> QED BY <1>2, <1>3, <2>1 DEF Called, PurchaseLocked, StillRead
<1>5. StillAccepted(c)'
  <2>1. row.step = "rows" => call.op = "set" /\ row.call = call /\ row.todo = {call.variant}
    OBVIOUS
  <2> HIDE DEF row
  <2> QED BY <1>3, <2>1 DEF StillAccepted, RowsOf
<1>6. LocksOwned'
  BY <1>1, <1>3 DEF TxInv, LocksOwned
<1> QED BY <1>1, <1>3, <1>4, <1>5, <1>6, OthersUndisturbed, TablesUnchanged DEF TxInv

LEMMA LockPurchaseTxInv ==
  ASSUME TxInv, NEW c \in Connection, LockPurchase(c)
  PROVE  TxInv'
<1> DEFINE call == tx[c].call
           row == [tx[c] EXCEPT !.step = "read"]
<1>1. /\ tx \in [Connection -> TxRow] /\ tx[c] \in TxRow /\ tx[c].step = "lock" /\ Called(c)
      /\ UNCHANGED <<tableVars, rowLock>>
      /\ idLock \in [ReservationId -> Connection \cup {Free}]
  BY DEF TxInv, LockPurchase
<1>2. call \in ReserveCalls \cup FinishCalls /\ call.id \in ReservationId /\ call.op # "set"
  <2>1. call \in ReserveCalls \cup FinishCalls
    BY <1>1 DEF Called
  <2>2. call \in Calls
    BY <2>1 DEF Calls
  <2> QED BY <2>1, <2>2, CallFields
<1>3. /\ row \in TxRow /\ row.step = "read" /\ row.call = call
      /\ tx' = [tx EXCEPT ![c] = row] /\ tx'[c] = row /\ tx' \in [Connection -> TxRow]
      /\ \A d \in Connection \ {c} : tx'[d] = tx[d]
  BY <1>1 DEF TxRow, LockPurchase
<1>4. /\ idLock[call.id] = Free /\ idLock' = [idLock EXCEPT ![call.id] = c]
      /\ idLock' \in [ReservationId -> Connection \cup {Free}]
  BY <1>1 DEF LockPurchase
<1>5. /\ idLock'[call.id] = c
      /\ \A id \in ReservationId \ {call.id} : idLock'[id] = idLock[id]
      /\ \A d \in Connection, id \in ReservationId : idLock[id] = d => idLock'[id] = d
  BY <1>1, <1>2, <1>4
<1>6. Called(c)' /\ PurchaseLocked(c)' /\ StillRead(c)' /\ StillAccepted(c)'
  <2> HIDE DEF row
  <2> QED BY <1>2, <1>3, <1>5 DEF Called, PurchaseLocked, StillRead, StillAccepted
<1>7. LocksOwned'
  <2>1. ASSUME NEW id \in ReservationId, idLock'[id] # Free
        PROVE  /\ tx'[idLock'[id]].step \in {"read", "rows", "end"}
               /\ tx'[idLock'[id]].call.op # "set" /\ tx'[idLock'[id]].call.id = id
    <3> HIDE DEF row
    <3>1. CASE id = call.id
      BY <3>1, <1>2, <1>3, <1>5
    <3>2. CASE id # call.id
      <4>1. /\ idLock'[id] = idLock[id] /\ idLock[id] \in Connection
            /\ tx[idLock[id]].step \in {"read", "rows", "end"}
            /\ tx[idLock[id]].call.op # "set" /\ tx[idLock[id]].call.id = id
        BY <3>2, <2>1, <1>1, <1>5 DEF TxInv, LocksOwned
      <4>2. idLock[id] # c
        BY <4>1, <1>1
      <4> QED BY <4>1, <4>2, <1>3
    <3> QED BY <3>1, <3>2
  <2>2. ASSUME NEW v \in Variant, rowLock'[v] # Free
        PROVE  tx'[rowLock'[v]].step = "rows" /\ \A w \in tx'[rowLock'[v]].todo : Rank[v] < Rank[w]
    <3>1. /\ rowLock'[v] = rowLock[v] /\ rowLock[v] \in Connection
          /\ tx[rowLock[v]].step = "rows" /\ \A w \in tx[rowLock[v]].todo : Rank[v] < Rank[w]
      BY <2>2, <1>1 DEF TxInv, LocksOwned
    <3> QED BY <3>1, <1>1, <1>3
  <2> QED BY <2>1, <2>2 DEF LocksOwned
<1> QED BY <1>1, <1>3, <1>4, <1>5, <1>6, <1>7, OthersUndisturbed, TablesUnchanged DEF TxInv

\* Locks stay with a transaction that goes on from its read.
LEMMA LocksStay ==
  ASSUME TxInv, NEW c \in Connection, NEW row \in TxRow, tx' = [tx EXCEPT ![c] = row],
         UNCHANGED <<idLock, rowLock>>,
         tx[c].step = "read", row.step \in {"rows", "end"}, row.call = tx[c].call
  PROVE  LocksOwned'
<1>1. tx'[c] = row /\ \A d \in Connection \ {c} : tx'[d] = tx[d]
  BY DEF TxInv
<1>2. ASSUME NEW id \in ReservationId, idLock[id] # Free
      PROVE  /\ tx'[idLock[id]].step \in {"read", "rows", "end"}
             /\ tx'[idLock[id]].call.op # "set" /\ tx'[idLock[id]].call.id = id
  <2>1. /\ idLock[id] \in Connection /\ tx[idLock[id]].step \in {"read", "rows", "end"}
        /\ tx[idLock[id]].call.op # "set" /\ tx[idLock[id]].call.id = id
    BY <1>2 DEF TxInv, LocksOwned
  <2>2. CASE idLock[id] = c
    BY <2>1, <2>2, <1>1
  <2>3. CASE idLock[id] # c
    BY <2>1, <2>3, <1>1
  <2> QED BY <2>2, <2>3
<1>3. ASSUME NEW v \in Variant, rowLock[v] # Free
      PROVE  tx'[rowLock[v]].step = "rows" /\ \A w \in tx'[rowLock[v]].todo : Rank[v] < Rank[w]
  <2>1. /\ rowLock[v] \in Connection /\ tx[rowLock[v]].step = "rows"
        /\ \A w \in tx[rowLock[v]].todo : Rank[v] < Rank[w]
    BY <1>3 DEF TxInv, LocksOwned
  <2> QED BY <2>1, <1>1
<1> QED BY <1>2, <1>3 DEF LocksOwned

\* What a call that reads its reservation is.
LEMMA Reading ==
  ASSUME TxInv, NEW c \in Connection, tx[c].step = "read"
  PROVE  /\ tx \in [Connection -> TxRow] /\ tx[c] \in TxRow
         /\ tx[c].call \in ReserveCalls \cup FinishCalls /\ tx[c].call \in Calls
         /\ tx[c].call.id \in ReservationId /\ idLock[tx[c].call.id] = c
         /\ tx[c].call.op \in {"reserve", "finish"}
<1>1. tx[c].call \in ReserveCalls \cup FinishCalls /\ PurchaseLocked(c)
  BY DEF TxInv, Called
<1>2. tx[c].call \in Calls
  BY <1>1 DEF Calls
<1> QED BY <1>1, <1>2, CallFields DEF TxInv, PurchaseLocked

\* A call that finds nothing to do goes to its end.
LEMMA ReadNothingTxInv ==
  ASSUME TxInv, NEW c \in Connection, tx[c].step = "read",
         tx' = [tx EXCEPT ![c].step = "end"],
         UNCHANGED <<tableVars, idLock, rowLock>>
  PROVE  TxInv'
<1> DEFINE row == [tx[c] EXCEPT !.step = "end"]
<1>1. /\ row \in TxRow /\ row.step = "end" /\ row.call = tx[c].call
      /\ tx' = [tx EXCEPT ![c] = row] /\ tx'[c] = row /\ tx' \in [Connection -> TxRow]
      /\ \A d \in Connection \ {c} : tx'[d] = tx[d]
  BY Reading DEF TxRow
<1> HIDE DEF row
<1>2. Called(c)' /\ PurchaseLocked(c)' /\ StillRead(c)' /\ StillAccepted(c)'
  BY <1>1, Reading DEF Called, PurchaseLocked, StillRead, StillAccepted
<1>3. LocksOwned'
  BY <1>1, LocksStay
<1> QED BY <1>1, <1>2, <1>3, OthersUndisturbed, TablesUnchanged DEF TxInv

\* A call that goes on takes its rows from what it read.
LEMMA ReadRowsTxInv ==
  ASSUME TxInv, NEW c \in Connection, tx[c].step = "read",
         NEW todo, todo = RowsOf(c),
         tx' = [tx EXCEPT ![c].step = "rows", ![c].todo = todo],
         tx[c].call.op = "reserve" =>
           reservation[tx[c].call.id].state = "none" /\ ExpiryAccepted(tx[c].call.expiresAt),
         tx[c].call.op = "finish" => reservation[tx[c].call.id].state = "reserved",
         UNCHANGED <<tableVars, idLock, rowLock>>
  PROVE  TxInv'
<1> DEFINE row == [tx[c] EXCEPT !.step = "rows", !.todo = todo]
<1>0. todo \subseteq Variant
  BY Reading DEF RowsOf, Touched
<1>1. /\ row \in TxRow /\ row.step = "rows" /\ row.call = tx[c].call /\ row.todo = todo
      /\ tx' = [tx EXCEPT ![c] = row] /\ tx'[c] = row /\ tx' \in [Connection -> TxRow]
      /\ \A d \in Connection \ {c} : tx'[d] = tx[d]
  <2>1. tx \in [Connection -> TxRow] /\ tx[c] \in TxRow
    BY Reading
  <2>2. /\ row \in TxRow /\ row.step = "rows" /\ row.call = tx[c].call /\ row.todo = todo
    BY <1>0, <2>1 DEF TxRow
  <2>3. tx' = [tx EXCEPT ![c] = row]
    BY <2>1
  <2> HIDE DEF row
  <2> QED BY <2>1, <2>2, <2>3
<1> HIDE DEF row
<1>2. Called(c)' /\ PurchaseLocked(c)'
  BY <1>1, Reading DEF Called, PurchaseLocked
<1>3. StillRead(c)'
  BY <1>1 DEF StillRead, ExpiryAccepted, tableVars, vars
<1>4. StillAccepted(c)'
  <2>1. RowsOf(c)' = todo
    BY <1>1 DEF RowsOf, tableVars, vars
  <2> QED BY <2>1, <1>1 DEF StillAccepted
<1>5. LocksOwned'
  BY <1>1, LocksStay
<1> QED BY <1>1, <1>2, <1>3, <1>4, <1>5, OthersUndisturbed, TablesUnchanged DEF TxInv

LEMMA ReadForReserveTxInv ==
  ASSUME TxInv, NEW c \in Connection, ReadForReserve(c)
  PROVE  TxInv'
<1> DEFINE call == tx[c].call
<1>1. tx[c].step = "read" /\ call.op = "reserve" /\ UNCHANGED <<tableVars, idLock, rowLock>>
  BY DEF ReadForReserve
<1>2. CASE tx' = [tx EXCEPT ![c].step = "end"]
  BY <1>1, <1>2, ReadNothingTxInv
<1>3. CASE /\ reservation[call.id].state = "none"
           /\ now < call.expiresAt /\ call.expiresAt <= now + HoldWindow
           /\ tx' = [tx EXCEPT ![c].step = "rows", ![c].todo = Touched(call.items)]
  <2>1. ExpiryAccepted(call.expiresAt)
    BY <1>3 DEF ExpiryAccepted, TxInv, IInv, TypeOK
  <2>2. Touched(call.items) = RowsOf(c)
    BY <1>1 DEF RowsOf
  <2> QED BY <2>1, <2>2, <1>1, <1>3, ReadRowsTxInv
<1> QED BY <1>2, <1>3 DEF ReadForReserve

LEMMA ReadForFinishTxInv ==
  ASSUME TxInv, NEW c \in Connection, ReadForFinish(c)
  PROVE  TxInv'
<1> DEFINE call == tx[c].call
<1>1. tx[c].step = "read" /\ call.op = "finish" /\ UNCHANGED <<tableVars, idLock, rowLock>>
  BY DEF ReadForFinish
<1>2. CASE tx' = [tx EXCEPT ![c].step = "end"]
  BY <1>1, <1>2, ReadNothingTxInv
<1>3. CASE /\ reservation[call.id].state = "reserved"
           /\ tx' = [tx EXCEPT ![c].step = "rows", ![c].todo = Touched(reservation[call.id].items)]
  <2>1. Touched(reservation[call.id].items) = RowsOf(c)
    BY <1>1 DEF RowsOf
  <2> QED BY <2>1, <1>1, <1>3, ReadRowsTxInv
<1> QED BY <1>2, <1>3 DEF ReadForFinish

\* The units of an open hold are in the reserved column, so their rows exist.
LEMMA HeldRowsExist ==
  ASSUME IInv, NEW id \in ReservationId, reservation[id].state = "reserved",
         NEW v \in Variant, reservation[id].items[v] > 0
  PROVE  v \in stock
<1> DEFINE q == reservation[id].items[v]
<1>1. reservation \in [ReservationId -> Reservation \cup {NoReservation}] /\ reserved[v] \in Nat
  BY DEF IInv, TypeOK
<1>2. q \in Nat
  BY <1>1 DEF Reservation, NoReservation, NoItems, Items
<1>3. {id} \X (1..q) \subseteq HeldUnits(v)
  BY DEF HeldUnits, Units
<1>4. Cardinality({id} \X (1..q)) = q /\ IsFiniteSet(HeldUnits(v))
  BY <1>1, <1>2, TaggedUnits, UnitsFinite DEF HeldUnits
<1>5. Cardinality({id} \X (1..q)) <= Cardinality(HeldUnits(v))
  BY <1>3, <1>4, FS_Subset
<1>6. reserved[v] = Cardinality(HeldUnits(v))
  BY DEF IInv, ReservedIsHeld
<1>7. reserved[v] # 0
  BY <1>1, <1>2, <1>4, <1>5, <1>6
<1> QED BY <1>7 DEF IInv, NeverOversold

\* One statement of the loop: the next row in the order, locked and accepted.
LEMMA WriteRowTxInv ==
  ASSUME TxInv, NEW c \in Connection, NEW v \in Variant, WriteRow(c, v)
  PROVE  TxInv'
<1> DEFINE call == tx[c].call
           row == [tx[c] EXCEPT !.todo = @ \ {v}]
<1>1. /\ tx \in [Connection -> TxRow] /\ tx[c] \in TxRow /\ tx[c].step = "rows"
      /\ rowLock \in [Variant -> Connection \cup {Free}]
      /\ Called(c) /\ PurchaseLocked(c) /\ StillRead(c) /\ StillAccepted(c)
      /\ UNCHANGED <<tableVars, idLock>>
  BY DEF TxInv, WriteRow
<1>2. call \in Calls /\ tx[c].todo \subseteq Variant /\ v \in tx[c].todo /\ v \in RowsOf(c)
  BY <1>1 DEF Called, StillAccepted, TxRow, WriteRow, FirstRows
<1>3. /\ row \in TxRow /\ row.step = "rows" /\ row.call = call /\ row.todo = tx[c].todo \ {v}
      /\ tx' = [tx EXCEPT ![c] = row] /\ tx'[c] = row /\ tx' \in [Connection -> TxRow]
      /\ \A d \in Connection \ {c} : tx'[d] = tx[d]
  BY <1>1, <1>2 DEF TxRow, WriteRow
<1> HIDE DEF row
<1>4. v \in stock \/ call.op = "set"
  <2>1. CASE call.op = "reserve"
    BY <2>1, AcceptsByOp DEF WriteRow
  <2>2. CASE call.op = "finish"
    <3>1. call.id \in ReservationId
      BY <1>2, <2>2, CallFields
    <3>2. reservation[call.id].state = "reserved"
      BY <1>1, <2>2 DEF StillRead
    <3>3. reservation[call.id].items[v] > 0
      BY <1>2, <2>2 DEF RowsOf, Touched
    <3> QED BY <3>1, <3>2, <3>3, HeldRowsExist DEF TxInv
  <2> QED BY <1>2, <2>1, <2>2, CallFields
<1>5. rowLock[v] = Free /\ rowLock' = [rowLock EXCEPT ![v] = c]
  <2>1. ~(v \notin stock /\ call.op = "finish")
    BY <1>4
  <2> QED BY <2>1 DEF WriteRow
<1>6. /\ rowLock'[v] = c /\ rowLock' \in [Variant -> Connection \cup {Free}]
      /\ \A w \in Variant \ {v} : rowLock'[w] = rowLock[w]
      /\ \A d \in Connection, w \in Variant : rowLock[w] = d => rowLock'[w] = d
  BY <1>1, <1>5
<1>7. Called(c)' /\ PurchaseLocked(c)' /\ StillRead(c)'
  BY <1>1, <1>2, <1>3 DEF Called, PurchaseLocked, StillRead, ExpiryAccepted, tableVars, vars
<1>8. StillAccepted(c)'
  <2>1. RowsOf(c)' = RowsOf(c) /\ RowsOf(c) \subseteq Variant
    <3>1. \A items : Touched(items) \subseteq Variant
      BY DEF Touched
    <3>2. RowsOf(c) \subseteq Variant
      BY <3>1, <1>2, CallFields DEF RowsOf
    <3>3. RowsOf(c)' = RowsOf(c)
      BY <1>1, <1>3 DEF RowsOf, tableVars, vars
    <3> QED BY <3>2, <3>3
  <2>2. ASSUME NEW w \in RowsOf(c) \ row.todo PROVE rowLock'[w] = c /\ RowAccepts(call, w)
    <3>1. CASE w = v
      BY <3>1, <1>6 DEF WriteRow
    <3>2. CASE w # v
      BY <2>1, <2>2, <3>2, <1>1, <1>3, <1>6 DEF StillAccepted
    <3> QED BY <3>1, <3>2
  <2>3. \A w : RowAccepts(call, w)' <=> RowAccepts(call, w)
    BY <1>1, <1>3 DEF RowAccepts, AcceptsCount, tableVars, vars
  <2> QED BY <2>1, <2>2, <1>1, <1>3 DEF StillAccepted, RowAccepts, AcceptsCount, tableVars, vars
<1>9. LocksOwned'
  <2>1. ASSUME NEW id \in ReservationId, idLock'[id] # Free
        PROVE  /\ tx'[idLock'[id]].step \in {"read", "rows", "end"}
               /\ tx'[idLock'[id]].call.op # "set" /\ tx'[idLock'[id]].call.id = id
    <3>1. /\ idLock'[id] = idLock[id] /\ idLock[id] \in Connection
          /\ tx[idLock[id]].step \in {"read", "rows", "end"}
          /\ tx[idLock[id]].call.op # "set" /\ tx[idLock[id]].call.id = id
      BY <2>1, <1>1 DEF TxInv, LocksOwned
    <3>2. CASE idLock[id] = c
      BY <3>1, <3>2, <1>3
    <3>3. CASE idLock[id] # c
      BY <3>1, <3>3, <1>3
    <3> QED BY <3>2, <3>3
  <2>2. ASSUME NEW w \in Variant, rowLock'[w] # Free
        PROVE  tx'[rowLock'[w]].step = "rows" /\ \A u \in tx'[rowLock'[w]].todo : Rank[w] < Rank[u]
    <3>1. CASE w = v
      <4>1. ASSUME NEW u \in row.todo PROVE Rank[v] < Rank[u]
        <5>1. Rank[v] <= Rank[u] /\ u # v /\ u \in Variant
          BY <1>2, <1>3 DEF WriteRow, FirstRows
        <5> QED BY <5>1, TxAssumption
      <4> QED BY <3>1, <4>1, <1>3, <1>6
    <3>2. CASE w # v
      <4>1. /\ rowLock'[w] = rowLock[w] /\ rowLock[w] \in Connection
            /\ tx[rowLock[w]].step = "rows" /\ \A u \in tx[rowLock[w]].todo : Rank[w] < Rank[u]
        BY <2>2, <3>2, <1>1, <1>6 DEF TxInv, LocksOwned
      <4>2. CASE rowLock[w] = c
        BY <4>1, <4>2, <1>3
      <4>3. CASE rowLock[w] # c
        BY <4>1, <4>3, <1>3
      <4> QED BY <4>2, <4>3
    <3> QED BY <3>1, <3>2
  <2> QED BY <2>1, <2>2 DEF LocksOwned
<1> QED BY <1>1, <1>3, <1>6, <1>7, <1>8, <1>9, OthersUndisturbed, TablesUnchanged DEF TxInv

-----------------------------------------------------------------------------
(* The ends of a transaction *)

\* A transaction that ends, having changed only what it had locked.
LEMMA EndTxInv ==
  ASSUME TxInv, IInv', NEW c \in Connection,
         tx' = [tx EXCEPT ![c] = Idle], ReleaseLocks(c),
         \A id \in ReservationId : idLock[id] # c => reservation'[id] = reservation[id],
         \A v \in Variant : rowLock[v] # c =>
           /\ v \in stock' <=> v \in stock
           /\ onHand'[v] = onHand[v] /\ reserved'[v] = reserved[v] /\ audit'[v] = audit[v],
         now' = now
  PROVE  TxInv'
<1>1. /\ tx \in [Connection -> TxRow]
      /\ idLock \in [ReservationId -> Connection \cup {Free}]
      /\ rowLock \in [Variant -> Connection \cup {Free}]
      /\ now \in Nat
  BY DEF TxInv, IInv, TypeOK
<1>2. Idle \in TxRow /\ Idle.step = "idle"
  BY DEF Idle, TxRow
<1>3. /\ tx' \in [Connection -> TxRow] /\ tx'[c] = Idle
      /\ \A d \in Connection \ {c} : tx'[d] = tx[d]
  BY <1>1, <1>2
<1>4. /\ idLock' \in [ReservationId -> Connection \cup {Free}]
      /\ rowLock' \in [Variant -> Connection \cup {Free}]
      /\ \A id \in ReservationId : idLock'[id] = IF idLock[id] = c THEN Free ELSE idLock[id]
      /\ \A v \in Variant : rowLock'[v] = IF rowLock[v] = c THEN Free ELSE rowLock[v]
  BY <1>1 DEF ReleaseLocks
<1>5. Called(c)' /\ PurchaseLocked(c)' /\ StillRead(c)' /\ StillAccepted(c)'
  BY <1>2, <1>3 DEF Called, PurchaseLocked, StillRead, StillAccepted
<1>6. ASSUME NEW d \in Connection \ {c}
      PROVE  Called(d)' /\ PurchaseLocked(d)' /\ StillRead(d)' /\ StillAccepted(d)'
  <2>1. \A id \in ReservationId : idLock[id] = d =>
          idLock'[id] = d /\ reservation'[id] = reservation[id]
    BY <1>4
  <2>2. \A v \in Variant : rowLock[v] = d =>
          /\ rowLock'[v] = d
          /\ v \in stock' <=> v \in stock
          /\ onHand'[v] = onHand[v] /\ reserved'[v] = reserved[v] /\ audit'[v] = audit[v]
    BY <1>4
  <2>3. now' \in Nat /\ now <= now'
    BY <1>1
  <2> QED BY <2>1, <2>2, <2>3, <1>3, Undisturbed
<1>7. LocksOwned'
  <2>1. ASSUME NEW id \in ReservationId, idLock'[id] # Free
        PROVE  /\ tx'[idLock'[id]].step \in {"read", "rows", "end"}
               /\ tx'[idLock'[id]].call.op # "set" /\ tx'[idLock'[id]].call.id = id
    <3>1. idLock[id] # c /\ idLock'[id] = idLock[id] /\ idLock[id] \in Connection
      BY <2>1, <1>1, <1>4
    <3> QED BY <2>1, <3>1, <1>3 DEF TxInv, LocksOwned
  <2>2. ASSUME NEW v \in Variant, rowLock'[v] # Free
        PROVE  tx'[rowLock'[v]].step = "rows" /\ \A w \in tx'[rowLock'[v]].todo : Rank[v] < Rank[w]
    <3>1. rowLock[v] # c /\ rowLock'[v] = rowLock[v] /\ rowLock[v] \in Connection
      BY <2>2, <1>1, <1>4
    <3> QED BY <2>2, <3>1, <1>3 DEF TxInv, LocksOwned
  <2> QED BY <2>1, <2>2 DEF LocksOwned
<1> QED BY <1>3, <1>4, <1>5, <1>6, <1>7 DEF TxInv

\* What a transaction knows when all its rows are written.
LEMMA ReadyToCommit ==
  ASSUME TxInv, NEW c \in Connection, tx[c].step = "rows", tx[c].todo = {}
  PROVE  /\ tx[c].call \in Calls
         /\ tx[c].call.op # "set" => idLock[tx[c].call.id] = c
         /\ \A v \in RowsOf(c) : rowLock[v] = c /\ RowAccepts(tx[c].call, v)
         /\ StillRead(c)
BY DEF TxInv, Called, PurchaseLocked, StillAccepted

\* The COMMIT of a hold is OpenHold, and touches only what is locked.
LEMMA CommitReserve ==
  ASSUME TxInv, NEW c \in Connection, tx[c].step = "rows", tx[c].todo = {},
         tx[c].call.op = "reserve", 
         WriteHold(tx[c].call.id, tx[c].call.user, tx[c].call.items)
  PROVE  /\ Next
         /\ \A id \in ReservationId : idLock[id] # c => reservation'[id] = reservation[id]
         /\ \A v \in Variant : rowLock[v] # c =>
              /\ v \in stock' <=> v \in stock
              /\ onHand'[v] = onHand[v] /\ reserved'[v] = reserved[v] /\ audit'[v] = audit[v]
         /\ now' = now
<1> DEFINE call == tx[c].call
<1>1. PICK request \in Requests : call.items = NormalizeStockItems(request)
  BY ReadyToCommit, CallFields
<1>2. /\ call.id \in ReservationId /\ call.user \in User /\ call.items \in Items
      /\ call.expiresAt \in 0..(MaxTime + HoldWindow) /\ idLock[call.id] = c
  BY ReadyToCommit, CallFields
<1>3. \A v \in Variant : call.items[v] > 0 =>
        rowLock[v] = c /\ v \in stock /\ onHand[v] - reserved[v] >= call.items[v]
  BY ReadyToCommit, AcceptsByOp DEF RowsOf, Touched
<1>4. reservation[call.id].state = "none" /\ ExpiryAccepted(call.expiresAt)
  BY ReadyToCommit DEF StillRead
<1>5. OpenHold(call.id, call.user, call.items, call.expiresAt)
  BY <1>3, <1>4 DEF OpenHold, Fits
<1>6. Next
  BY <1>1, <1>2, <1>5 DEF ReserveStock, Next
<1>7. \A v \in Variant : reserved[v] \in Nat /\ call.items[v] \in Nat
  BY <1>2 DEF TxInv, IInv, TypeOK, Items
<1>8. \A v \in Variant : rowLock[v] # c => reserved'[v] = reserved[v]
  BY <1>3, <1>7 DEF WriteHold
<1> QED BY <1>2, <1>6, <1>8 DEF WriteHold, TxInv, IInv, TypeOK

\* The COMMIT of a settlement is Settle, and touches only what is locked.
LEMMA CommitFinish ==
  ASSUME TxInv, NEW c \in Connection, tx[c].step = "rows", tx[c].todo = {},
         tx[c].call.op = "finish", WriteOutcome(tx[c].call.id, tx[c].call.target)
  PROVE  /\ Next
         /\ \A id \in ReservationId : idLock[id] # c => reservation'[id] = reservation[id]
         /\ \A v \in Variant : rowLock[v] # c =>
              /\ v \in stock' <=> v \in stock
              /\ onHand'[v] = onHand[v] /\ reserved'[v] = reserved[v] /\ audit'[v] = audit[v]
         /\ now' = now
<1> DEFINE call == tx[c].call
           items == reservation[call.id].items
<1>1. /\ call.id \in ReservationId /\ call.target \in {"committed", "released"}
      /\ idLock[call.id] = c /\ reservation[call.id].state = "reserved"
  BY ReadyToCommit, CallFields DEF StillRead
<1>2. Next
  BY <1>1 DEF Next, FinishReservation, Settle
<1>3. \A v \in Variant : items[v] > 0 => rowLock[v] = c
  BY ReadyToCommit DEF RowsOf, Touched
<1>4. \A v \in Variant : reserved[v] \in Nat /\ onHand[v] \in Nat /\ items[v] \in Nat
  <2>1. reservation[call.id] \in Reservation \cup {NoReservation}
    BY <1>1 DEF TxInv, IInv, TypeOK
  <2>2. items \in Items
    BY <2>1 DEF Reservation, NoReservation, NoItems, Items
  <2> QED BY <2>2 DEF TxInv, IInv, TypeOK, Items
<1>5. \A v \in Variant : rowLock[v] # c => onHand'[v] = onHand[v] /\ reserved'[v] = reserved[v]
  <2>1. ASSUME NEW v \in Variant, rowLock[v] # c
        PROVE  onHand'[v] = onHand[v] /\ reserved'[v] = reserved[v]
    <3>1. items[v] = 0
      BY <2>1, <1>3, <1>4
    <3> QED BY <2>1, <3>1, <1>4 DEF WriteOutcome
  <2> QED BY <2>1
<1> QED BY <1>1, <1>2, <1>5 DEF WriteOutcome, TxInv, IInv, TypeOK

\* The COMMIT of a count is SetStock, and touches only what is locked.
LEMMA CommitSet ==
  ASSUME TxInv, NEW c \in Connection, tx[c].step = "rows", tx[c].todo = {},
         tx[c].call.op = "set", WriteCount(tx[c].call.variant, tx[c].call.count)
  PROVE  /\ Next
         /\ \A id \in ReservationId : idLock[id] # c => reservation'[id] = reservation[id]
         /\ \A v \in Variant : rowLock[v] # c =>
              /\ v \in stock' <=> v \in stock
              /\ onHand'[v] = onHand[v] /\ reserved'[v] = reserved[v] /\ audit'[v] = audit[v]
         /\ now' = now
<1> DEFINE call == tx[c].call
<1>1. call.variant \in Variant /\ call.count \in 0..MaxOnHand
  BY ReadyToCommit, CallFields
<1>2. rowLock[call.variant] = c /\ AcceptsCount(call.variant, call.count)
  BY ReadyToCommit, AcceptsByOp DEF RowsOf
<1>3. Next
  BY <1>1, <1>2 DEF Next, SetStock
<1> QED BY <1>1, <1>2, <1>3 DEF WriteCount, TxInv, IInv, TypeOK

\* A commit is one step of the inventory.
LEMMA CommitWritesTxInv ==
  ASSUME TxInv, NEW c \in Connection, CommitWrites(c)
  PROVE  TxInv' /\ Next
<1>1. /\ Next
      /\ \A id \in ReservationId : idLock[id] # c => reservation'[id] = reservation[id]
      /\ \A v \in Variant : rowLock[v] # c =>
           /\ v \in stock' <=> v \in stock
           /\ onHand'[v] = onHand[v] /\ reserved'[v] = reserved[v] /\ audit'[v] = audit[v]
      /\ now' = now
  BY CommitReserve, CommitFinish, CommitSet DEF CommitWrites
<1>2. IInv'
  BY <1>1, NextIInv DEF TxInv
<1> QED BY <1>1, <1>2, EndTxInv DEF CommitWrites

LEMMA CommitNothingTxInv ==
  ASSUME TxInv, NEW c \in Connection, CommitNothing(c) \/ Rollback(c)
  PROVE  TxInv'
<1>1. tx' = [tx EXCEPT ![c] = Idle] /\ ReleaseLocks(c) /\ UNCHANGED tableVars
  BY DEF CommitNothing, Rollback
<1>2. IInv'
  BY <1>1, TablesUnchanged DEF TxInv
<1> QED BY <1>1, <1>2, EndTxInv DEF tableVars, vars

LEMMA TxTickTxInv ==
  ASSUME TxInv, TxTick
  PROVE  TxInv' /\ Next
<1>1. Next /\ UNCHANGED <<tx, idLock, rowLock, stock, onHand, reserved, reservation, audit>>
  BY DEF TxTick, Tick, Next
<1>2. now' \in Nat /\ now <= now'
  BY DEF TxTick, Tick, TxInv, IInv, TypeOK
<1>3. \A c \in Connection : Called(c)' /\ PurchaseLocked(c)' /\ StillRead(c)' /\ StillAccepted(c)'
  BY <1>1, <1>2, Undisturbed
<1>4. IInv' /\ LocksOwned'
  BY <1>1, NextIInv DEF TxInv, LocksOwned
<1> QED BY <1>1, <1>3, <1>4 DEF TxInv

\* Every step preserves the invariant, and is a step of the inventory or none.
LEMMA NextTxInv == TxInv /\ [TxNext]_txVars => TxInv' /\ [Next]_vars
<1> SUFFICES ASSUME TxInv, [TxNext]_txVars PROVE TxInv' /\ [Next]_vars
  OBVIOUS
<1>1. CASE UNCHANGED txVars
  <2>1. UNCHANGED <<tableVars, tx, idLock, rowLock>>
    BY <1>1 DEF txVars, tableVars, vars
  <2>2. now' \in Nat /\ now <= now'
    BY <1>1 DEF txVars, TxInv, IInv, TypeOK
  <2>3. \A c \in Connection : Called(c)' /\ PurchaseLocked(c)' /\ StillRead(c)' /\ StillAccepted(c)'
    BY <1>1, <2>2, Undisturbed DEF txVars
  <2> QED BY <2>1, <2>3, TablesUnchanged DEF TxInv, LocksOwned, tableVars
<1>2. ASSUME NEW c \in Connection, NEW call \in Calls, Begin(c, call)
      PROVE  TxInv' /\ UNCHANGED vars
  BY <1>2, BeginTxInv DEF Begin, tableVars
<1>3. ASSUME NEW c \in Connection, Statement(c) \/ Rollback(c)
      PROVE  TxInv' /\ [Next]_vars
  <2>1. CASE LockPurchase(c)
    BY <2>1, LockPurchaseTxInv DEF LockPurchase, tableVars
  <2>2. CASE ReadForReserve(c)
    BY <2>2, ReadForReserveTxInv DEF ReadForReserve, tableVars
  <2>3. CASE ReadForFinish(c)
    BY <2>3, ReadForFinishTxInv DEF ReadForFinish, tableVars
  <2>4. ASSUME NEW v \in Variant, WriteRow(c, v) PROVE TxInv' /\ [Next]_vars
    BY <2>4, WriteRowTxInv DEF WriteRow, tableVars
  <2>5. CASE CommitWrites(c)
    BY <2>5, CommitWritesTxInv
  <2>6. CASE CommitNothing(c) \/ Rollback(c)
    BY <2>6, CommitNothingTxInv DEF CommitNothing, Rollback, tableVars
  <2> QED BY <1>3, <2>1, <2>2, <2>3, <2>4, <2>5, <2>6 DEF Statement
<1>4. CASE TxTick
  BY <1>4, TxTickTxInv
<1> QED BY <1>1, <1>2, <1>3, <1>4 DEF TxNext, Calls

-----------------------------------------------------------------------------
(* Theorems *)

LEMMA TxInvariance == TxSpec => []TxInv
BY InitTxInv, NextTxInv, PTL DEF TxSpec

\* Transactions, locks and tables always have their types.
THEOREM TxTypeCorrect == TxSpec => []TxTypeOK
<1>1. TxInv => TxTypeOK
  BY DEF TxInv, TxTypeOK, IInv, TxRow, Calls
<1> QED BY <1>1, TxInvariance, PTL

\* For any number of connections, purchases and variants: the statements of
\* inventory.ts under PostgreSQL's locks are atomic transactions.
THEOREM TransactionsAreAtomic == TxSpec => ImplementsInventory
<1>1. TxInit => Init
  BY DEF TxInit
<1> QED BY <1>1, NextTxInv, TxInvariance, PTL DEF TxSpec, ImplementsInventory, Spec

-----------------------------------------------------------------------------
(* The order of the rows *)

\* Whoever is waited for holds the lock that the other wants.
LEMMA Awaited ==
  ASSUME TxInv, NEW c \in Connection, NEW d \in Connection, Awaits(c, d)
  PROVE  /\ tx[d].step \in {"read", "rows", "end"}
         /\ tx[c].step = "rows" =>
              /\ tx[d].step = "rows"
              /\ \E v \in FirstRows(tx[c].todo) : v \in Variant /\ \A w \in tx[d].todo : Rank[v] < Rank[w]
<1>1. d # Free /\ tx[c] \in TxRow /\ Called(c) /\ LocksOwned
  BY DEF TxInv
<1>2. CASE tx[c].step = "lock" /\ idLock[tx[c].call.id] = d
  <2>1. tx[c].call \in Calls /\ tx[c].call.op # "set"
    BY <1>1, <1>2, CallFields DEF Called, Calls
  <2>2. tx[c].call.id \in ReservationId
    BY <2>1, CallFields
  <2> QED BY <2>2, <1>1, <1>2 DEF LocksOwned
<1>3. CASE /\ tx[c].step = "rows"
           /\ \E v \in FirstRows(tx[c].todo) : RowAccepts(tx[c].call, v) /\ rowLock[v] = d
  <2>1. PICK v \in FirstRows(tx[c].todo) : rowLock[v] = d
    BY <1>3
  <2>2. v \in Variant
    BY <1>1 DEF FirstRows, TxRow
  <2> QED BY <2>1, <2>2, <1>1 DEF LocksOwned
<1> QED BY <1>2, <1>3 DEF Awaits

\* The connections of S in their loop whose next row comes after the next row of c.
Ahead(S, c) ==
  {d \in S : /\ tx[d].step = "rows"
             /\ \A v \in FirstRows(tx[c].todo), w \in tx[d].todo : Rank[v] < Rank[w]}

\* Whoever waits in its loop waits for a connection that fewer are ahead of.
LEMMA AheadShrinks ==
  ASSUME TxInv, NEW S \in SUBSET Connection, NEW c \in S, NEW d \in S,
         tx[c].step = "rows", Awaits(c, d),
         NEW e \in S, Awaits(d, e)
  PROVE  /\ tx[d].step = "rows"
         /\ d \in Ahead(S, c) /\ d \notin Ahead(S, d)
         /\ Ahead(S, d) \subseteq Ahead(S, c)
<1>1. /\ tx[d].step = "rows" /\ tx[c].todo \subseteq Variant /\ tx[d].todo \subseteq Variant
      /\ \A f \in S : tx[f].todo \subseteq Variant
  BY Awaited DEF TxInv, TxRow
<1>2. PICK v \in FirstRows(tx[c].todo) : v \in Variant /\ \A w \in tx[d].todo : Rank[v] < Rank[w]
  BY Awaited
<1>3. PICK u \in FirstRows(tx[d].todo) : u \in Variant /\ u \in tx[d].todo
  BY <1>1, Awaited DEF FirstRows
<1>4. \A x \in FirstRows(tx[c].todo) : x \in Variant /\ Rank[x] <= Rank[v]
  BY <1>1, <1>2, TxAssumption DEF FirstRows
<1>5. d \in Ahead(S, c)
  <2>1. ASSUME NEW x \in FirstRows(tx[c].todo), NEW w \in tx[d].todo PROVE Rank[x] < Rank[w]
    <3>1. /\ Rank[x] <= Rank[v] /\ Rank[v] < Rank[w] /\ Rank[x] \in Nat /\ Rank[v] \in Nat /\ Rank[w] \in Nat
      BY <1>1, <1>2, <1>4, TxAssumption
    <3> QED BY <3>1
  <2> QED BY <2>1, <1>1 DEF Ahead
<1>6. d \notin Ahead(S, d)
  BY <1>3, TxAssumption DEF Ahead
<1>7. ASSUME NEW f \in Ahead(S, d) PROVE f \in Ahead(S, c)
  <2>1. f \in S /\ tx[f].step = "rows" /\ \A w \in tx[f].todo : Rank[u] < Rank[w]
    BY <1>3 DEF Ahead
  <2>2. ASSUME NEW x \in FirstRows(tx[c].todo), NEW w \in tx[f].todo PROVE Rank[x] < Rank[w]
    <3>1. /\ Rank[x] <= Rank[v] /\ Rank[v] < Rank[u] /\ Rank[u] < Rank[w]
          /\ Rank[x] \in Nat /\ Rank[v] \in Nat /\ Rank[u] \in Nat /\ Rank[w] \in Nat
      BY <2>1, <1>1, <1>2, <1>3, <1>4, TxAssumption
    <3> QED BY <3>1
  <2> QED BY <2>1, <2>2 DEF Ahead
<1> QED BY <1>1, <1>5, <1>6, <1>7

\* For any finite number of connections: the one order in which carts take
\* their rows excludes every deadlock.
THEOREM TransactionsDoNotDeadlock == TxSpec => []NoLockCycle
<1>1. TxInv => NoLockCycle
  <2> SUFFICES ASSUME TxInv, NEW S \in SUBSET Connection, S # {},
                      \A c \in S : \E d \in S : Awaits(c, d)
               PROVE  FALSE
    BY DEF NoLockCycle
  <2> DEFINE Writing == {c \in S : tx[c].step = "rows"}
             Sizes == {Ahead(S, c) : c \in Writing}
  <2>1. \E c \in S : tx[c].step = "rows"
    <3>0. PICK c \in S : TRUE
      OBVIOUS
    <3>1. PICK d \in S : Awaits(c, d)
      OBVIOUS
    <3>2. tx[d].step \in {"read", "rows", "end"}
      BY <3>1, Awaited
    <3>3. PICK e \in S : Awaits(d, e)
      OBVIOUS
    <3>4. tx[d].step \in {"lock", "rows"}
      BY <3>3 DEF Awaits
    <3> QED BY <3>2, <3>4
  <2>2. IsFiniteSet(Connection) /\ Sizes \subseteq FiniteSubsetsOf(Connection) /\ Sizes # {}
    <3>1. \A T \in SUBSET Connection : IsFiniteSet(T)
      BY FS_Subset, TxAssumption
    <3>2. \A c \in S : Ahead(S, c) \in SUBSET Connection
      BY DEF Ahead
    <3>3. Sizes \subseteq FiniteSubsetsOf(Connection)
      BY <3>1, <3>2 DEF FiniteSubsetsOf
    <3>4. Sizes # {}
      BY <2>1
    <3> QED BY <3>3, <3>4, TxAssumption
  <2>3. PICK T \in Sizes : \A U \in Sizes : ~ (<<U, T>> \in StrictSubsetOrdering(Connection))
    BY <2>2, FS_StrictSubsetOrderingWellFounded, WFMin
  <2>4. PICK c \in Writing : T = Ahead(S, c)
    OBVIOUS
  <2>5. PICK d \in S, e \in S : Awaits(c, d) /\ Awaits(d, e)
    OBVIOUS
  <2>6. /\ tx[d].step = "rows"
        /\ d \in Ahead(S, c) /\ d \notin Ahead(S, d)
        /\ Ahead(S, d) \subseteq Ahead(S, c)
    BY <2>4, <2>5, AheadShrinks
  <2>7. Ahead(S, d) \in Sizes /\ <<Ahead(S, d), T>> \in StrictSubsetOrdering(Connection)
    <3>1. Ahead(S, d) \in Sizes
      BY <2>5, <2>6
    <3>2. /\ T \in SUBSET Connection /\ Ahead(S, d) \in SUBSET Connection
          /\ Ahead(S, d) \subseteq T /\ Ahead(S, d) # T
      BY <2>4, <2>6 DEF Ahead
    <3> QED BY <3>1, <3>2 DEF StrictSubsetOrdering
  <2> QED BY <2>3, <2>7
<1> QED BY <1>1, TxInvariance, PTL
=============================================================================
