--------------------------- MODULE CheckoutProofs ---------------------------
(***************************************************************************)
(* Theorems of module Checkout, for any purchases, users, variants,        *)
(* prices, carts and numbers of concurrent requests.                       *)
(*                                                                         *)
(* One invariant carries them all.  Its parts say what a request, a late   *)
(* call, a reconciliation pass and a job may rely on although the world    *)
(* went on since they read it: each relies only on facts that never become *)
(* false again (Grows).                                                    *)
(***************************************************************************)
EXTENDS Checkout, InventoryProofs

USE CheckoutAssumption

Steps == {"idle", "resolve", "save", "verify", "reserve", "session", "attach"}
RecordRow == [exists : BOOLEAN, snapshot : Snapshots, attached : BOOLEAN,
              payment : BOOLEAN, released : BOOLEAN]
SessionRow == [status : SessionStates, snapshot : Snapshots]
CallRow == [step : Steps, id : Purchase \cup {{}}, cart : Requests \cup {<<>>},
            snapshot : Snapshots, attached : BOOLEAN]
Pass == [step : {"idle", "open", "paid", "expired", "mark"}, id : Purchase \cup {{}}]

\* The inventory, Stripe and the payment store agree on a purchase.
Agreed(id) ==
  /\ record[id].exists => record[id].snapshot \in Snapshot
  /\ ~record[id].exists => record[id] = NoRecord
  /\ reservation[id].state # "none" =>
       /\ record[id].exists
       /\ reservation[id].items = NormalizeStockItems(record[id].snapshot.cart)
  /\ session[id].status # "none" =>
       /\ reservation[id].state # "none"
       /\ session[id].snapshot = record[id].snapshot
  /\ reservation[id].state = "committed" => session[id].status = "paid"
  /\ reservation[id].state = "released" => session[id].status = "expired"
  /\ record[id].attached => session[id].status # "none"
  /\ record[id].payment => reservation[id].state = "committed"
  /\ record[id].released => reservation[id].state = "released"
StoresInv ==
  /\ record \in [Purchase -> RecordRow]
  /\ session \in [Purchase -> SessionRow]
  /\ \A id \in Purchase : Agreed(id)

\* What a checkout request has reached.
Reached(k) ==
  LET id == call[k].id IN
    /\ call[k].step # "idle" => id \in Purchase /\ call[k].cart \in Requests
    /\ call[k].step = "save" =>
         call[k].snapshot \in Snapshot /\ call[k].snapshot.cart = call[k].cart
    /\ call[k].step \in {"verify", "reserve", "session", "attach"} =>
         record[id].exists /\ call[k].snapshot = record[id].snapshot
    /\ call[k].step \in {"session", "attach"} => reservation[id].state # "none"
    /\ call[k].step = "attach" => session[id].status # "none"
    /\ call[k].step # "idle" /\ call[k].attached => session[id].status # "none"
CallsInv ==
  /\ call \in [Call -> CallRow]
  /\ \A k \in Call : Reached(k)

\* What a call to the inventory, whenever it runs, was made for.
Founded(id) ==
  /\ <<"reserve", id>> \in late => record[id].exists
  /\ <<"commit", id>> \in late => session[id].status = "paid"
  /\ <<"release", id>> \in late => session[id].status = "expired"
LateInv ==
  /\ late \subseteq {"reserve", "commit", "release"} \X Purchase
  /\ \A id \in Purchase : Founded(id)

\* What the reconciliation pass read of a session is final, or of no consequence.
PassInv ==
  /\ recon \in Pass
  /\ recon.step # "idle" => recon.id \in Purchase
  /\ recon.step = "paid" => session[recon.id].status = "paid"
  /\ recon.step = "expired" => session[recon.id].status = "expired"
  /\ recon.step = "mark" => reservation[recon.id].state = "released"

\* What the jobs have done for a purchase, up to its order.
Done(id) ==
  /\ Enrich(id) \in performed => record[id].attached /\ reservation[id].state = "committed"
  /\ status[Publish(id)] # "absent" => record[id].payment
  /\ \A m \in topic : m.id = id => record[id].payment /\ m.snapshot = record[id].snapshot
  /\ order[id] # NoSnapshot => record[id].payment /\ order[id] = record[id].snapshot
JobsInv ==
  /\ status \in [Job -> {"absent", "open", "done", "aside"}]
  /\ performed \subseteq Job
  /\ topic \subseteq [id : Purchase, snapshot : Snapshot]
  /\ order \in [Purchase -> Snapshots]
  /\ \A id \in Purchase : Done(id)

CoInv ==
  /\ IInv
  /\ price \in Price
  /\ StoresInv /\ CallsInv /\ LateInv /\ PassInv /\ JobsInv

-----------------------------------------------------------------------------
LEMMA JobKeys ==
  /\ \A id \in Purchase : Enrich(id) \in Job /\ Publish(id) \in Job
  /\ \A id, other \in Purchase : /\ Enrich(id) # Publish(other)
                                 /\ Enrich(id) = Enrich(other) => id = other
                                 /\ Publish(id) = Publish(other) => id = other
  /\ \A id \in Purchase : PublishAfter(Enrich(id)) = {Publish(id)} /\ PublishAfter(Publish(id)) = {}
BY DEF Job, Enrich, Publish, PublishAfter

\* No snapshot is the empty one: a cart is never empty.
LEMMA SnapshotsDiffer ==
  /\ NoSnapshot \notin Snapshot
  /\ Snapshot \subseteq Snapshots /\ NoSnapshot \in Snapshots
  /\ \A s \in Snapshot : s.cart \in Requests /\ s.expiresAt \in 0..(MaxTime + HoldWindow)
BY InventoryAssumption, CheckoutAssumption DEF Snapshot, Snapshots, NoSnapshot

LEMMA StatesOfReservation ==
  TypeOK => \A id \in Purchase :
              reservation[id].state \in {"none", "reserved", "committed", "released"}
<1> SUFFICES ASSUME TypeOK, NEW id \in Purchase
             PROVE  reservation[id].state \in {"none", "reserved", "committed", "released"}
  OBVIOUS
<1>1. reservation[id] \in Reservation \cup {NoReservation}
  BY DEF TypeOK, Purchase
<1> QED BY <1>1 DEF Reservation, NoReservation, States

\* What Checkout's properties say follows from the invariant.
LEMMA InvImplies ==
  CoInv => CoTypeOK /\ OneSnapshot /\ PaidIsHeld /\ SettledAsStripeSays /\ OrderedIsSold /\ RecordIsTrue
<1> SUFFICES ASSUME CoInv
             PROVE CoTypeOK /\ OneSnapshot /\ PaidIsHeld /\ SettledAsStripeSays /\ OrderedIsSold /\ RecordIsTrue
  OBVIOUS
<1> USE DEF CoInv
<1>1. CoTypeOK
  <2>1. ASSUME NEW k \in Call
        PROVE /\ call[k].step \in Steps
              /\ call[k].snapshot \in Snapshots
              /\ call[k].step # "idle" => call[k].id \in Purchase /\ call[k].cart \in Requests
    BY DEF CallsInv, Reached, CallRow
  <2>2. recon.step \in {"idle", "open", "paid", "expired", "mark"} /\ (recon.step # "idle" => recon.id \in Purchase)
    BY DEF PassInv, Pass
  <2> QED BY <2>1, <2>2 DEF CoTypeOK, IInv, StoresInv, RecordRow, SessionRow, LateInv, JobsInv, Steps
<1>2. \A id \in Purchase : reservation[id].state \in {"none", "reserved", "committed", "released"}
  BY StatesOfReservation DEF IInv
<1>3. \A id \in Purchase : Agreed(id) /\ Done(id)
  BY DEF StoresInv, JobsInv
<1>4. OneSnapshot
  BY <1>2, <1>3 DEF OneSnapshot, Agreed, Done
<1>5. PaidIsHeld
  BY <1>2, <1>3 DEF PaidIsHeld, Agreed
<1>6. SettledAsStripeSays
  BY <1>3 DEF SettledAsStripeSays, Agreed
<1>7. OrderedIsSold
  BY <1>3 DEF OrderedIsSold, Agreed, Done
<1>8. RecordIsTrue
  BY <1>3 DEF RecordIsTrue, Agreed
<1> QED BY <1>1, <1>4, <1>5, <1>6, <1>7, <1>8

LEMMA InitCoInv == CoInit => CoInv
<1> SUFFICES ASSUME CoInit PROVE CoInv
  OBVIOUS
<1> USE DEF CoInit
<1>1. IInv
  BY InitIInv
<1>2. \A id \in Purchase : reservation[id].state = "none"
  BY DEF Init, NoReservation, Purchase
<1>3. StoresInv
  <2>1. NoRecord \in RecordRow /\ NoSession \in SessionRow
    BY SnapshotsDiffer DEF NoRecord, NoSession, RecordRow, SessionRow, SessionStates
  <2>2. \A id \in Purchase : Agreed(id)
    BY <1>2 DEF Agreed, NoRecord, NoSession
  <2> QED BY <2>1, <2>2 DEF StoresInv
<1>4. CallsInv
  <2>1. NoCall \in CallRow
    BY SnapshotsDiffer DEF NoCall, CallRow, Steps
  <2> QED BY <2>1 DEF CallsInv, Reached, NoCall
<1>5. LateInv
  BY DEF LateInv, Founded
<1>6. PassInv
  BY DEF PassInv, Pass, NoPass
<1>7. JobsInv
  BY SnapshotsDiffer, JobKeys DEF JobsInv, Done, DJInit
<1> QED BY <1>1, <1>3, <1>4, <1>5, <1>6, <1>7 DEF CoInv

-----------------------------------------------------------------------------
(* What never becomes false again, and the parts of the invariant it keeps *)

RecordGrows(id) ==
  /\ record[id].exists => record'[id].exists /\ record'[id].snapshot = record[id].snapshot
  /\ record[id].attached => record'[id].attached
  /\ record[id].payment => record'[id].payment
SessionGrows(id) ==
  /\ session[id].status # "none" => session'[id].status # "none"
  /\ session[id].status = "paid" => session'[id].status = "paid"
  /\ session[id].status = "expired" => session'[id].status = "expired"
ReservationGrows(id) ==
  /\ reservation[id].state # "none" => reservation'[id].state # "none"
  /\ reservation[id].state = "committed" => reservation'[id].state = "committed"
  /\ reservation[id].state = "released" => reservation'[id].state = "released"
Grows == \A id \in Purchase : RecordGrows(id) /\ SessionGrows(id) /\ ReservationGrows(id)

\* A request that does not move keeps what it reached.
LEMMA OthersReach ==
  ASSUME CallsInv, Grows, NEW k \in Call, call'[k] = call[k]
  PROVE  Reached(k)'
<1>1. Reached(k)
  BY DEF CallsInv
<1> QED BY <1>1 DEF Reached, Grows, RecordGrows, SessionGrows, ReservationGrows

\* One request moves, to a state that is right for it.
LEMMA CallMoves ==
  ASSUME CallsInv, Grows, NEW k \in Call, NEW row \in CallRow,
         call' = [call EXCEPT ![k] = row], Reached(k)'
  PROVE  CallsInv'
<1>1. call' \in [Call -> CallRow]
  BY DEF CallsInv
<1>2. ASSUME NEW l \in Call, l # k PROVE Reached(l)'
  <2>1. call'[l] = call[l]
    BY <1>2 DEF CallsInv
  <2> QED BY <2>1, OthersReach
<1> QED BY <1>1, <1>2 DEF CallsInv

LEMMA CallsKept ==
  ASSUME CallsInv, Grows, UNCHANGED call
  PROVE  CallsInv'
BY OthersReach DEF CallsInv

LEMMA LateKept ==
  ASSUME LateInv, Grows, late' \subseteq late
  PROVE  LateInv'
<1>1. ASSUME NEW id \in Purchase PROVE Founded(id)'
  BY <1>1 DEF LateInv, Founded, Grows, RecordGrows, SessionGrows
<1> QED BY <1>1 DEF LateInv

LEMMA PassKept ==
  ASSUME PassInv, Grows, UNCHANGED recon
  PROVE  PassInv'
<1>1. CASE recon.step = "idle"
  BY <1>1 DEF PassInv
<1>2. CASE recon.step # "idle"
  BY <1>2 DEF PassInv, Grows, SessionGrows, ReservationGrows
<1> QED BY <1>1, <1>2

LEMMA PassEnds ==
  ASSUME recon' = NoPass
  PROVE  PassInv'
BY DEF PassInv, Pass, NoPass

\* What is done for a purchase stays right when its jobs do not move.
LEMMA OthersDone ==
  ASSUME StoresInv, JobsInv, Grows, NEW id \in Purchase,
         Enrich(id) \in performed' => Enrich(id) \in performed,
         status'[Publish(id)] # "absent" => status[Publish(id)] # "absent",
         \A m \in topic' : m.id = id => m \in topic,
         order'[id] = order[id]
  PROVE  Done(id)'
<1>1. Done(id) /\ Agreed(id)
  BY DEF JobsInv, StoresInv
<1>2. record[id].payment => record[id].exists
  BY <1>1 DEF Agreed
<1>3. RecordGrows(id) /\ ReservationGrows(id)
  BY DEF Grows
<1> QED BY <1>1, <1>2, <1>3 DEF Done, RecordGrows, ReservationGrows

LEMMA JobsKept ==
  ASSUME StoresInv, JobsInv, Grows, UNCHANGED <<jobVars, topic, order>>
  PROVE  JobsInv'
<1>1. \A id \in Purchase : Done(id)'
  BY OthersDone DEF jobVars
<1> QED BY <1>1 DEF JobsInv, jobVars

LEMMA StoresKept ==
  ASSUME StoresInv, UNCHANGED <<record, session, reservation>>
  PROVE  StoresInv' /\ Grows
BY DEF StoresInv, Agreed, Grows, RecordGrows, SessionGrows, ReservationGrows

-----------------------------------------------------------------------------
(* The inventory's operations as the payment service calls them *)

\* What a successful request for a hold leaves of the reservations.
LEMMA HoldEffect ==
  ASSUME TypeOK, NEW id \in Purchase, NEW snapshot, Hold(id, snapshot)
  PROVE  /\ \A other \in Purchase \ {id} : reservation'[other] = reservation[other]
         /\ \/ reservation'[id] = reservation[id] /\ reservation[id].state # "none"
            \/ /\ reservation[id].state = "none"
               /\ reservation'[id].state = "reserved"
               /\ reservation'[id].items = NormalizeStockItems(snapshot.cart)
BY DEF TypeOK, Hold, ReserveStock, OpenHold, WriteHold, RepeatHold, IsRepeat, vars, Purchase

\* What a settlement leaves of the reservations.
LEMMA FinishEffect ==
  ASSUME TypeOK, NEW id \in Purchase, NEW target \in {"committed", "released"},
         FinishReservation(id, target)
  PROVE  /\ \A other \in Purchase \ {id} : reservation'[other] = reservation[other]
         /\ \/ /\ reservation'[id] = reservation[id]
               /\ \/ reservation[id].state = target
                  \/ reservation[id].state = "none" /\ target = "released"
            \/ /\ reservation[id].state = "reserved"
               /\ reservation'[id].state = target
               /\ reservation'[id].items = reservation[id].items
<1>1. CASE Settle(id, target)
  <2>1. reservation[id] \in Reservation
    BY <1>1 DEF TypeOK, Settle, WriteOutcome, NoReservation, Purchase
  <2> QED BY <1>1, <2>1 DEF TypeOK, Settle, WriteOutcome, Reservation, Purchase
<1>2. CASE FinishIsNoOp(id, target) /\ UNCHANGED vars
  BY <1>2 DEF FinishIsNoOp, vars
<1> QED BY <1>1, <1>2 DEF FinishReservation

\* A hold for the stored snapshot is a step of the inventory.
LEMMA HoldIsInventory ==
  ASSUME CoInv, NEW id \in Purchase, record[id].exists, Hold(id, record[id].snapshot)
  PROVE  Next
<1> DEFINE snapshot == record[id].snapshot
<1>1. snapshot \in Snapshot
  BY DEF CoInv, StoresInv, Agreed
<1>2. snapshot.cart \in Requests /\ snapshot.expiresAt \in 0..(MaxTime + HoldWindow)
  BY <1>1, SnapshotsDiffer
<1>3. id \in ReservationId /\ Owner[id] \in User
  BY DEF Purchase
<1> QED BY <1>2, <1>3 DEF Hold, Next

LEMMA FinishIsInventory ==
  ASSUME NEW id \in Purchase, NEW target \in {"committed", "released"},
         FinishReservation(id, target)
  PROVE  Next
BY DEF Next, Purchase

\* A hold for the stored snapshot keeps the stores in agreement.
LEMMA HoldAgrees ==
  ASSUME CoInv, NEW id \in Purchase, record[id].exists, Hold(id, record[id].snapshot),
         UNCHANGED <<record, session>>
  PROVE  StoresInv' /\ Grows
<1>1. TypeOK /\ StoresInv
  BY DEF CoInv, IInv
<1>2. /\ \A other \in Purchase \ {id} : reservation'[other] = reservation[other]
      /\ \/ reservation'[id] = reservation[id] /\ reservation[id].state # "none"
         \/ /\ reservation[id].state = "none"
            /\ reservation'[id].state = "reserved"
            /\ reservation'[id].items = NormalizeStockItems(record[id].snapshot.cart)
  BY <1>1, HoldEffect
<1>3. Grows
  BY <1>2 DEF Grows, RecordGrows, SessionGrows, ReservationGrows
<1>4. ASSUME NEW other \in Purchase PROVE Agreed(other)'
  <2>1. Agreed(other)
    BY <1>1 DEF StoresInv
  <2>2. CASE reservation'[other] = reservation[other]
    BY <2>1, <2>2 DEF Agreed
  <2>3. CASE other = id /\ reservation[id].state = "none"
    BY <1>2, <2>1, <2>3 DEF Agreed
  <2> QED BY <1>2, <2>2, <2>3
<1> QED BY <1>1, <1>3, <1>4 DEF StoresInv

\* A settlement that Stripe's answer asks for keeps the stores in agreement.
LEMMA FinishAgrees ==
  ASSUME CoInv, NEW id \in Purchase, NEW target \in {"committed", "released"},
         FinishReservation(id, target),
         target = "committed" => session[id].status = "paid",
         target = "released" => session[id].status = "expired",
         UNCHANGED <<record, session>>
  PROVE  StoresInv' /\ Grows /\ reservation'[id].state = target
<1>1. TypeOK /\ StoresInv /\ Agreed(id)
  BY DEF CoInv, IInv, StoresInv
<1>2. /\ \A other \in Purchase \ {id} : reservation'[other] = reservation[other]
      /\ \/ /\ reservation'[id] = reservation[id]
            /\ \/ reservation[id].state = target
               \/ reservation[id].state = "none" /\ target = "released"
         \/ /\ reservation[id].state = "reserved"
            /\ reservation'[id].state = target
            /\ reservation'[id].items = reservation[id].items
  BY <1>1, FinishEffect
<1>3. reservation'[id].state = target
  BY <1>1, <1>2 DEF Agreed
<1>4. Grows
  BY <1>2 DEF Grows, RecordGrows, SessionGrows, ReservationGrows
<1>5. ASSUME NEW other \in Purchase PROVE Agreed(other)'
  <2>1. Agreed(other)
    BY <1>1 DEF StoresInv
  <2>2. CASE reservation'[other] = reservation[other]
    BY <2>1, <2>2 DEF Agreed
  <2>3. CASE other = id /\ reservation[id].state = "reserved" /\ reservation'[id].items = reservation[id].items
    BY <1>3, <2>1, <2>3 DEF Agreed
  <2> QED BY <1>2, <2>2, <2>3
<1> QED BY <1>1, <1>3, <1>4, <1>5 DEF StoresInv

\* The other parts of the inventory invariant are the inventory's own.
LEMMA InventoryStep ==
  ASSUME CoInv, Next \/ UNCHANGED inventoryVars
  PROVE  IInv'
<1>1. [Next]_vars
  BY DEF inventoryVars, vars
<1> QED BY <1>1, NextIInv DEF CoInv

-----------------------------------------------------------------------------
(* Checkout requests *)

\* A step of a request that writes no store.
LEMMA CallOnly ==
  ASSUME CoInv, NEW k \in Call, NEW row \in CallRow,
         call' = [call EXCEPT ![k] = row],
         Grows => Reached(k)',
         UNCHANGED <<inventoryVars, price, record, session, late, recon, jobVars, topic, order>>
  PROVE  CoInv'
<1> USE DEF CoInv
<1>1. IInv'
  BY InventoryStep
<1>2. StoresInv' /\ Grows
  BY StoresKept DEF inventoryVars
<1>3. CallsInv'
  BY <1>2, CallMoves
<1>4. LateInv' /\ PassInv' /\ JobsInv'
  BY <1>2, LateKept, PassKept, JobsKept
<1> QED BY <1>1, <1>2, <1>3, <1>4

LEMMA IdleCall ==
  ASSUME NEW k \in Call, call \in [Call -> CallRow], call' = [call EXCEPT ![k] = NoCall]
  PROVE  NoCall \in CallRow /\ Reached(k)'
<1>1. NoCall \in CallRow
  BY SnapshotsDiffer DEF NoCall, CallRow, Steps
<1> QED BY <1>1 DEF Reached, NoCall

LEMMA AbandonCoInv ==
  ASSUME CoInv, NEW k \in Call, Abandon(k)
  PROVE  CoInv'
<1>1. call \in [Call -> CallRow] /\ call' = [call EXCEPT ![k] = NoCall]
  BY DEF CoInv, CallsInv, Abandon
<1> QED BY <1>1, IdleCall, CallOnly DEF Abandon

LEMMA ReadRecordCoInv ==
  ASSUME CoInv, NEW k \in Call, NEW id \in Purchase, NEW cart \in Requests,
         ReadRecord(k, id, cart)
  PROVE  CoInv'
<1> DEFINE row == [step |-> IF record[id].exists THEN "verify" ELSE "resolve",
                   id |-> id, cart |-> cart, snapshot |-> record[id].snapshot,
                   attached |-> record[id].attached]
<1>1. record[id] \in RecordRow /\ Agreed(id) /\ call \in [Call -> CallRow]
  BY DEF CoInv, StoresInv, CallsInv
<1>2. row \in CallRow
  <2>1. record[id].snapshot \in Snapshots /\ record[id].attached \in BOOLEAN
    BY <1>1 DEF RecordRow
  <2> QED BY <2>1 DEF CallRow, Steps
<1>3. call' = [call EXCEPT ![k] = row] /\ UNCHANGED <<record, session>>
  BY DEF ReadRecord
<1>4. call'[k] = row
  BY <1>1, <1>3
<1>5. Reached(k)'
  BY <1>1, <1>3, <1>4 DEF Reached, Agreed
<1> QED BY <1>2, <1>3, <1>5, CallOnly DEF ReadRecord

LEMMA ResolveCoInv ==
  ASSUME CoInv, NEW k \in Call, Resolve(k)
  PROVE  CoInv'
<1> DEFINE taken == [cart |-> call[k].cart, price |-> price, expiresAt |-> now + Lifetime]
           row == [call[k] EXCEPT !.step = "save", !.snapshot = taken]
<1>1. call \in [Call -> CallRow] /\ call[k] \in CallRow /\ Reached(k)
  BY DEF CoInv, CallsInv
<1>2. call[k].step = "resolve" /\ call[k].id \in Purchase /\ call[k].cart \in Requests
  BY <1>1 DEF Resolve, Reached
<1>3. taken \in Snapshot
  <2>1. now + Lifetime \in 0..(MaxTime + Lifetime)
    BY CheckoutAssumption, InventoryAssumption DEF CoInv, IInv, TypeOK
  <2> QED BY <1>2, <2>1 DEF Snapshot, CoInv
<1>4. row \in CallRow
  BY <1>1, <1>3, SnapshotsDiffer DEF CallRow, Steps
<1>5. call' = [call EXCEPT ![k] = row] /\ UNCHANGED <<record, session>>
  BY <1>1 DEF Resolve
<1>6. call'[k] = row /\ row.step = "save" /\ row.snapshot = taken /\ row.id = call[k].id
        /\ row.cart = call[k].cart /\ row.attached = call[k].attached
  BY <1>1, <1>5 DEF CallRow
<1>7. Reached(k)'
  BY <1>1, <1>2, <1>3, <1>5, <1>6 DEF Reached
<1> QED BY <1>4, <1>5, <1>7, CallOnly DEF Resolve

\* A request that goes on to a later step with what it has.
LEMMA StepReached ==
  ASSUME CallsInv, NEW k \in Call, NEW step \in Steps
  PROVE  LET row == [call[k] EXCEPT !.step = step] IN
           /\ row \in CallRow
           /\ row.step = step /\ row.id = call[k].id /\ row.cart = call[k].cart
           /\ row.snapshot = call[k].snapshot /\ row.attached = call[k].attached
           /\ [call EXCEPT ![k].step = step] = [call EXCEPT ![k] = row]
           /\ [call EXCEPT ![k] = row][k] = row
<1>1. call[k] \in CallRow /\ call \in [Call -> CallRow]
  BY DEF CallsInv
<1> QED BY <1>1 DEF CallRow

LEMMA VerifyExpiryCoInv ==
  ASSUME CoInv, NEW k \in Call, VerifyExpiry(k)
  PROVE  CoInv'
<1> DEFINE row == [call[k] EXCEPT !.step = "reserve"]
<1>1. CallsInv /\ call \in [Call -> CallRow] /\ Reached(k) /\ "reserve" \in Steps
  BY DEF CoInv, CallsInv, Steps
<1>2. CASE call' = [call EXCEPT ![k] = NoCall]
  BY <1>1, <1>2, IdleCall, CallOnly DEF VerifyExpiry
<1>3. CASE call' = [call EXCEPT ![k] = row]
  <2>1. /\ row \in CallRow /\ call'[k] = row
        /\ row.step = "reserve" /\ row.id = call[k].id /\ row.cart = call[k].cart
        /\ row.snapshot = call[k].snapshot /\ row.attached = call[k].attached
    BY <1>1, <1>3, StepReached
  <2>2. Reached(k)'
    BY <1>1, <2>1 DEF Reached, VerifyExpiry
  <2> QED BY <1>3, <2>1, <2>2, CallOnly DEF VerifyExpiry
<1> QED BY <1>2, <1>3 DEF VerifyExpiry

-----------------------------------------------------------------------------
(* Writes of one record or one session *)

LEMMA RecordWritten ==
  ASSUME StoresInv, NEW id \in Purchase, NEW row \in RecordRow,
         record' = [record EXCEPT ![id] = row],
         UNCHANGED <<session, reservation>>,
         record[id].exists => row.exists /\ row.snapshot = record[id].snapshot,
         record[id].attached => row.attached,
         record[id].payment => row.payment,
         Agreed(id)'
  PROVE  StoresInv' /\ Grows
<1>1. record' \in [Purchase -> RecordRow] /\ record'[id] = row
  BY DEF StoresInv
<1>2. \A other \in Purchase \ {id} : record'[other] = record[other]
  BY DEF StoresInv
<1>3. Grows
  BY <1>1, <1>2 DEF Grows, RecordGrows, SessionGrows, ReservationGrows
<1>4. ASSUME NEW other \in Purchase \ {id} PROVE Agreed(other)'
  BY <1>2 DEF StoresInv, Agreed
<1> QED BY <1>1, <1>3, <1>4 DEF StoresInv

LEMMA RecordAttached ==
  ASSUME StoresInv, NEW id \in Purchase,
         record' = [record EXCEPT ![id].attached = TRUE],
         session[id].status # "none",
         UNCHANGED <<session, reservation>>
  PROVE  StoresInv' /\ Grows /\ record'[id].attached
<1> DEFINE row == [record[id] EXCEPT !.attached = TRUE]
<1>1. record[id] \in RecordRow /\ record \in [Purchase -> RecordRow] /\ Agreed(id)
  BY DEF StoresInv
<1>2. /\ row \in RecordRow /\ record' = [record EXCEPT ![id] = row] /\ record'[id] = row
      /\ row.exists = record[id].exists /\ row.snapshot = record[id].snapshot
      /\ row.attached /\ row.payment = record[id].payment /\ row.released = record[id].released
  BY <1>1 DEF RecordRow
<1>3. Agreed(id)'
  BY <1>1, <1>2 DEF Agreed
<1> QED BY <1>2, <1>3, RecordWritten

LEMMA SessionWritten ==
  ASSUME StoresInv, NEW id \in Purchase, NEW row \in SessionRow,
         session' = [session EXCEPT ![id] = row],
         UNCHANGED <<record, reservation>>,
         row.status # "none",
         session[id].status \notin {"paid", "expired"},
         Agreed(id)'
  PROVE  StoresInv' /\ Grows
<1>1. session' \in [Purchase -> SessionRow] /\ session'[id] = row
  BY DEF StoresInv
<1>2. \A other \in Purchase \ {id} : session'[other] = session[other]
  BY DEF StoresInv
<1>3. Grows
  BY <1>1, <1>2 DEF Grows, RecordGrows, SessionGrows, ReservationGrows
<1>4. ASSUME NEW other \in Purchase \ {id} PROVE Agreed(other)'
  BY <1>2 DEF StoresInv, Agreed
<1> QED BY <1>1, <1>3, <1>4 DEF StoresInv

-----------------------------------------------------------------------------
(* Checkout requests that write a store *)

LEMMA SaveCheckoutCoInv ==
  ASSUME CoInv, NEW k \in Call, SaveCheckout(k)
  PROVE  CoInv'
<1>0. PICK id \in Purchase : id = call[k].id
  BY DEF CoInv, CallsInv, Reached, SaveCheckout
<1> DEFINE new == [NoRecord EXCEPT !.exists = TRUE, !.snapshot = call[k].snapshot]
           stored == IF record[id].exists THEN record[id] ELSE new
           row == [call[k] EXCEPT !.step = "verify", !.snapshot = stored.snapshot,
                                  !.attached = stored.attached]
<1>1. /\ call \in [Call -> CallRow] /\ call[k] \in CallRow /\ Reached(k)
      /\ call[k].cart \in Requests
      /\ call[k].snapshot \in Snapshot /\ call[k].snapshot.cart = call[k].cart
  BY DEF CoInv, CallsInv, Reached, SaveCheckout
<1>2. record[id] \in RecordRow /\ record \in [Purchase -> RecordRow] /\ Agreed(id) /\ StoresInv
  BY <1>1 DEF CoInv, StoresInv
<1>3. /\ new \in RecordRow /\ new.exists /\ new.snapshot = call[k].snapshot
      /\ ~new.attached /\ ~new.payment /\ ~new.released
  BY <1>1, SnapshotsDiffer DEF NoRecord, RecordRow
<1>4. /\ stored \in RecordRow /\ stored.exists /\ stored.snapshot \in Snapshot
      /\ record[id].exists => stored = record[id]
      /\ stored.attached => session[id].status # "none"
      /\ stored.attached \in BOOLEAN
  BY <1>1, <1>2, <1>3 DEF Agreed, RecordRow
<1>5. record' = [record EXCEPT ![id] = stored] /\ UNCHANGED <<inventoryVars, session>>
  BY <1>0 DEF SaveCheckout
<1>6. record'[id] = stored
  BY <1>1, <1>2, <1>5
<1>7. ~record[id].exists => record[id] = NoRecord
  BY <1>2 DEF Agreed
<1>8. Agreed(id)'
  <2>1. CASE record[id].exists
    BY <2>1, <1>2, <1>4, <1>5, <1>6 DEF Agreed, inventoryVars
  <2>2. CASE ~record[id].exists
    <3>1. reservation[id].state = "none" /\ session[id].status = "none"
      BY <2>2, <1>2 DEF Agreed
    <3>2. stored = new
      BY <2>2
    <3> QED BY <3>1, <3>2, <1>1, <1>3, <1>5, <1>6 DEF Agreed, inventoryVars
  <2> QED BY <2>1, <2>2
<1>9. /\ record[id].attached => stored.attached
      /\ record[id].payment => stored.payment
  BY <1>4, <1>7 DEF NoRecord
<1>10. StoresInv' /\ Grows
  BY <1>1, <1>2, <1>4, <1>5, <1>8, <1>9, RecordWritten DEF inventoryVars
<1>11. CallsInv'
  <2>1. CASE call' = [call EXCEPT ![k] = NoCall]
    BY <2>1, <1>1, <1>10, IdleCall, CallMoves DEF CoInv
  <2>2. CASE call' = [call EXCEPT ![k] = row]
    <3>1. stored.snapshot \in Snapshots
      BY <1>4, SnapshotsDiffer
    <3>2. /\ row \in CallRow /\ row.step = "verify" /\ row.id = id
          /\ row.cart = call[k].cart /\ row.snapshot = stored.snapshot
          /\ row.attached = stored.attached
      BY <3>1, <1>0, <1>1, <1>4 DEF CallRow, Steps
    <3>3. call'[k] = row
      BY <2>2, <1>1
    <3>4. Reached(k)'
      <4>1. session[id].status # "none" => session'[id].status # "none"
        BY <1>5
      <4> HIDE DEF row, stored
      <4> QED BY <3>2, <3>3, <4>1, <1>1, <1>4, <1>6 DEF Reached
    <3> QED BY <2>2, <3>2, <3>4, <1>10, CallMoves DEF CoInv
  <2> QED BY <2>1, <2>2, <1>0 DEF SaveCheckout
<1>12. LateInv' /\ PassInv' /\ JobsInv'
  BY <1>10, LateKept, PassKept, JobsKept DEF CoInv, SaveCheckout
<1>13. IInv' /\ price' \in Price
  BY InventoryStep DEF CoInv, SaveCheckout
<1> QED BY <1>10, <1>11, <1>12, <1>13 DEF CoInv

LEMMA ReserveCoInv ==
  ASSUME CoInv, NEW k \in Call, Reserve(k)
  PROVE  CoInv'
<1> DEFINE id == call[k].id
           row == [call[k] EXCEPT !.step = "session"]
<1>1. CallsInv /\ call \in [Call -> CallRow] /\ Reached(k) /\ "session" \in Steps /\ TypeOK
  BY DEF CoInv, CallsInv, Steps, IInv
<1>2. id \in Purchase /\ record[id].exists /\ call[k].snapshot = record[id].snapshot
  BY <1>1 DEF Reached, Reserve
<1>3. Hold(id, record[id].snapshot) /\ UNCHANGED <<record, session>>
  BY <1>2 DEF Reserve
<1>4. StoresInv' /\ Grows
  BY <1>2, <1>3, HoldAgrees
<1>5. reservation'[id].state # "none"
  BY <1>1, <1>2, <1>3, HoldEffect
<1>6. IInv'
  BY <1>2, <1>3, HoldIsInventory, InventoryStep
<1>7. /\ row \in CallRow /\ call' = [call EXCEPT ![k] = row] /\ call'[k] = row
      /\ row.step = "session" /\ row.id = id /\ row.cart = call[k].cart
      /\ row.snapshot = call[k].snapshot /\ row.attached = call[k].attached
  BY <1>1, StepReached DEF Reserve, CallStep
<1>8. Reached(k)'
  BY <1>1, <1>2, <1>3, <1>5, <1>7 DEF Reached, Reserve
<1>9. CallsInv'
  BY <1>1, <1>4, <1>7, <1>8, CallMoves
<1>10. LateInv' /\ PassInv' /\ JobsInv' /\ price' \in Price
  BY <1>4, LateKept, PassKept, JobsKept DEF CoInv, Reserve
<1> QED BY <1>4, <1>6, <1>9, <1>10 DEF CoInv

LEMMA ReserveTimeoutCoInv ==
  ASSUME CoInv, NEW k \in Call, ReserveTimeout(k)
  PROVE  CoInv'
<1> DEFINE id == call[k].id
<1>1. call \in [Call -> CallRow] /\ Reached(k) /\ LateInv
  BY DEF CoInv, CallsInv
<1>2. id \in Purchase /\ record[id].exists
  BY <1>1 DEF Reached, ReserveTimeout
<1>3. StoresInv' /\ Grows
  BY StoresKept DEF CoInv, ReserveTimeout, inventoryVars
<1>4. CallsInv'
  BY <1>1, <1>3, IdleCall, CallMoves DEF CoInv, ReserveTimeout
<1>5. LateInv'
  BY <1>1, <1>2 DEF LateInv, Founded, ReserveTimeout
<1>6. PassInv' /\ JobsInv' /\ IInv' /\ price' \in Price
  BY <1>3, PassKept, JobsKept, InventoryStep DEF CoInv, ReserveTimeout
<1> QED BY <1>3, <1>4, <1>5, <1>6 DEF CoInv

LEMMA OpenSessionCoInv ==
  ASSUME CoInv, NEW k \in Call, OpenSession(k)
  PROVE  CoInv'
<1>0. PICK id \in Purchase : id = call[k].id
  BY DEF CoInv, CallsInv, Reached, OpenSession
<1> DEFINE row == [call[k] EXCEPT !.step = "attach"]
           opened == [status |-> "open", snapshot |-> call[k].snapshot]
<1>1. CallsInv /\ call \in [Call -> CallRow] /\ Reached(k) /\ "attach" \in Steps
  BY DEF CoInv, CallsInv, Steps
<1>2. /\ record[id].exists /\ call[k].snapshot = record[id].snapshot
      /\ reservation[id].state # "none"
      /\ call[k].attached => session[id].status # "none"
  BY <1>0, <1>1 DEF Reached, OpenSession
<1>3. StoresInv /\ Agreed(id)
  BY <1>2 DEF CoInv, StoresInv
<1>4. UNCHANGED <<record, reservation>>
  BY DEF OpenSession, inventoryVars
<1>5. StoresInv' /\ Grows /\ session'[id].status # "none"
  <2>1. CASE UNCHANGED session /\ session[id].status # "none"
    BY <2>1, <1>3, <1>4, StoresKept
  <2>2. CASE session' = [session EXCEPT ![id] = opened] /\ session[id].status = "none"
    <3>1. opened \in SessionRow
      BY <1>2, <1>3, SnapshotsDiffer DEF SessionRow, SessionStates, Agreed
    <3>2. session'[id] = opened
      BY <2>2, <1>2, <1>3 DEF StoresInv
    <3>3. Agreed(id)'
      BY <2>2, <3>2, <1>2, <1>3, <1>4 DEF Agreed
    <3>4. opened.status # "none" /\ session[id].status \notin {"paid", "expired"}
      BY <2>2
    <3>5. StoresInv' /\ Grows
      <4> HIDE DEF opened
      <4> QED BY <2>2, <3>1, <3>3, <3>4, <1>3, <1>4, SessionWritten
    <3> QED BY <3>2, <3>4, <3>5
  <2> QED BY <2>1, <2>2, <1>0, <1>2 DEF OpenSession
<1>6. /\ row \in CallRow /\ call' = [call EXCEPT ![k] = row] /\ call'[k] = row
      /\ row.step = "attach" /\ row.id = id /\ row.cart = call[k].cart
      /\ row.snapshot = call[k].snapshot /\ row.attached = call[k].attached
  BY <1>0, <1>1, StepReached DEF OpenSession, CallStep
<1>7. Reached(k)'
  BY <1>1, <1>2, <1>4, <1>5, <1>6 DEF Reached, OpenSession
<1>8. CallsInv'
  BY <1>1, <1>5, <1>6, <1>7, CallMoves
<1>9. LateInv' /\ PassInv' /\ JobsInv' /\ IInv' /\ price' \in Price
  BY <1>5, LateKept, PassKept, JobsKept, InventoryStep DEF CoInv, OpenSession
<1> QED BY <1>5, <1>8, <1>9 DEF CoInv

LEMMA AttachCoInv ==
  ASSUME CoInv, NEW k \in Call, Attach(k)
  PROVE  CoInv'
<1> DEFINE id == call[k].id
<1>1. call \in [Call -> CallRow] /\ Reached(k) /\ StoresInv
  BY DEF CoInv, CallsInv
<1>2. id \in Purchase /\ session[id].status # "none"
  BY <1>1 DEF Reached, Attach
<1>3. StoresInv' /\ Grows
  BY <1>1, <1>2, RecordAttached DEF Attach, inventoryVars
<1>4. CallsInv'
  BY <1>1, <1>3, IdleCall, CallMoves DEF CoInv, Attach
<1>5. LateInv' /\ PassInv' /\ JobsInv' /\ IInv' /\ price' \in Price
  BY <1>3, LateKept, PassKept, JobsKept, InventoryStep DEF CoInv, Attach
<1> QED BY <1>3, <1>4, <1>5 DEF CoInv

-----------------------------------------------------------------------------
(* Stripe, and the requests to the inventory that outlived their callers *)

LEMMA SessionBecomesCoInv ==
  ASSUME CoInv, NEW id \in Purchase, NEW new \in {"paid", "expired"}, SessionBecomes(id, new)
  PROVE  CoInv'
<1> DEFINE row == [session[id] EXCEPT !.status = new]
<1>1. /\ StoresInv /\ Agreed(id) /\ session[id] \in SessionRow
      /\ session \in [Purchase -> SessionRow] /\ session[id].status = "open"
  BY DEF CoInv, StoresInv, SessionBecomes
<1>2. /\ row \in SessionRow /\ row.status = new /\ row.snapshot = session[id].snapshot
      /\ session' = [session EXCEPT ![id] = row] /\ session'[id] = row
      /\ UNCHANGED <<record, reservation>>
  BY <1>1 DEF SessionRow, SessionStates, SessionBecomes, inventoryVars
<1>3. Agreed(id)'
  <2> HIDE DEF row
  <2> QED BY <1>1, <1>2 DEF Agreed
<1>4. StoresInv' /\ Grows
  <2>1. row.status # "none" /\ session[id].status \notin {"paid", "expired"}
    BY <1>1, <1>2
  <2> HIDE DEF row
  <2> QED BY <2>1, <1>1, <1>2, <1>3, SessionWritten
<1>5. CallsInv' /\ LateInv' /\ PassInv' /\ JobsInv' /\ IInv' /\ price' \in Price
  BY <1>4, CallsKept, LateKept, PassKept, JobsKept, InventoryStep DEF CoInv, SessionBecomes
<1> QED BY <1>4, <1>5 DEF CoInv

LEMMA LateRequestCoInv ==
  ASSUME CoInv, NEW id \in Purchase, LateRequest(id)
  PROVE  CoInv'
<1>1. StoresInv' /\ Grows /\ IInv'
  <2>1. Founded(id) /\ UNCHANGED <<record, session>>
    BY DEF CoInv, LateInv, LateRequest, storeVars
  <2>2. CASE <<"reserve", id>> \in late /\ Hold(id, record[id].snapshot)
    BY <2>1, <2>2, HoldAgrees, HoldIsInventory, InventoryStep DEF Founded
  <2>3. CASE <<"commit", id>> \in late /\ Commit(id)
    <3>1. FinishReservation(id, "committed") /\ session[id].status = "paid"
      BY <2>1, <2>3 DEF Founded, Commit
    <3> QED BY <2>1, <3>1, FinishAgrees, FinishIsInventory, InventoryStep
  <2>4. CASE <<"release", id>> \in late /\ Release(id)
    <3>1. FinishReservation(id, "released") /\ session[id].status = "expired"
      BY <2>1, <2>4 DEF Founded, Release
    <3> QED BY <2>1, <3>1, FinishAgrees, FinishIsInventory, InventoryStep
  <2> QED BY <2>2, <2>3, <2>4 DEF LateRequest, RunLate
<1>2. late' \subseteq late
  BY DEF LateRequest, RunLate
<1>3. CallsInv' /\ LateInv' /\ PassInv' /\ JobsInv' /\ price' \in Price
  BY <1>1, <1>2, CallsKept, LateKept, PassKept, JobsKept DEF CoInv, LateRequest, storeVars
<1> QED BY <1>1, <1>3 DEF CoInv

\* Steps that leave the stores, the requests and the jobs alone.
LEMMA NoStoreCoInv ==
  ASSUME CoInv, Next \/ UNCHANGED inventoryVars, UNCHANGED reservation,
         late' \subseteq late, price' \in Price,
         UNCHANGED <<storeVars, jobVars, topic, order>>
  PROVE  CoInv'
<1>1. StoresInv' /\ Grows
  BY StoresKept DEF CoInv, storeVars
<1>2. CallsInv' /\ LateInv' /\ PassInv' /\ JobsInv'
  BY <1>1, CallsKept, LateKept, PassKept, JobsKept DEF CoInv, storeVars
<1> QED BY <1>1, <1>2, InventoryStep DEF CoInv

LEMMA LoseLateCoInv ==
  ASSUME CoInv, NEW r, LoseLate(r)
  PROVE  CoInv'
BY NoStoreCoInv DEF LoseLate, CoInv, inventoryVars

LEMMA ChangePriceCoInv ==
  ASSUME CoInv, ChangePrice
  PROVE  CoInv'
BY NoStoreCoInv DEF ChangePrice, inventoryVars

LEMMA CountCoInv ==
  ASSUME CoInv, NEW v \in Variant, NEW count \in 0..MaxOnHand, Count(v, count)
  PROVE  CoInv'
<1>1. Next /\ UNCHANGED reservation
  BY DEF Count, Next, SetStock, WriteCount
<1> QED BY <1>1, NoStoreCoInv DEF Count, CoInv

LEMMA CoTickCoInv ==
  ASSUME CoInv, CoTick
  PROVE  CoInv'
<1>1. Next /\ UNCHANGED reservation
  BY DEF CoTick, Next, Tick
<1> QED BY <1>1, NoStoreCoInv DEF CoTick, CoInv

-----------------------------------------------------------------------------
(* Reconciliation *)

LEMMA ReconReadCoInv ==
  ASSUME CoInv, NEW id \in Purchase, ReconRead(id)
  PROVE  CoInv'
<1>1. /\ StoresInv /\ Agreed(id) /\ session[id] \in SessionRow
      /\ UNCHANGED <<session, reservation>>
  BY DEF CoInv, StoresInv, ReconRead, inventoryVars
<1>2. session[id].status # "none"
  BY <1>1 DEF ReconRead, Agreed
<1>3. StoresInv' /\ Grows
  BY <1>1, <1>2, RecordAttached DEF ReconRead
<1>4. session[id].status \in {"open", "paid", "expired"}
  BY <1>1, <1>2 DEF SessionRow, SessionStates
<1>5. PassInv'
  <2>1. recon' = [step |-> session[id].status, id |-> id]
    BY DEF ReconRead
  <2> QED BY <2>1, <1>1, <1>4 DEF PassInv, Pass
<1>6. CallsInv' /\ LateInv' /\ JobsInv' /\ IInv' /\ price' \in Price
  BY <1>3, CallsKept, LateKept, JobsKept, InventoryStep DEF CoInv, ReconRead
<1> QED BY <1>3, <1>5, <1>6 DEF CoInv

LEMMA ReconReleaseCoInv ==
  ASSUME CoInv, ReconRelease
  PROVE  CoInv'
<1>0. PICK id \in Purchase : id = recon.id
  BY DEF CoInv, PassInv, ReconRelease
<1>1. /\ session[id].status = "expired" /\ FinishReservation(id, "released")
      /\ recon \in Pass /\ UNCHANGED <<record, session>>
  BY <1>0 DEF CoInv, PassInv, ReconRelease, Release
<1>2. StoresInv' /\ Grows /\ reservation'[id].state = "released"
  BY <1>1, FinishAgrees
<1>3. IInv'
  BY <1>1, FinishIsInventory, InventoryStep
<1>4. recon' \in Pass /\ recon'.step = "mark" /\ recon'.id = id
  BY <1>0, <1>1 DEF ReconRelease, Pass
<1>5. PassInv'
  BY <1>2, <1>4 DEF PassInv
<1>6. CallsInv' /\ LateInv' /\ JobsInv' /\ price' \in Price
  BY <1>2, CallsKept, LateKept, JobsKept DEF CoInv, ReconRelease
<1> QED BY <1>2, <1>3, <1>5, <1>6 DEF CoInv

LEMMA ReconReleaseTimeoutCoInv ==
  ASSUME CoInv, ReconReleaseTimeout
  PROVE  CoInv'
<1>0. PICK id \in Purchase : id = recon.id
  BY DEF CoInv, PassInv, ReconReleaseTimeout
<1>1. session[id].status = "expired" /\ late' = late \cup {<<"release", id>>} /\ UNCHANGED <<record, session>>
  BY <1>0 DEF CoInv, PassInv, ReconReleaseTimeout
<1>2. StoresInv' /\ Grows
  BY StoresKept DEF CoInv, ReconReleaseTimeout, inventoryVars
<1>3. LateInv'
  BY <1>1 DEF CoInv, LateInv, Founded
<1>4. CallsInv' /\ PassInv' /\ JobsInv' /\ IInv' /\ price' \in Price
  BY <1>2, CallsKept, PassEnds, JobsKept, InventoryStep DEF CoInv, ReconReleaseTimeout
<1> QED BY <1>2, <1>3, <1>4 DEF CoInv

LEMMA ReconMarkCoInv ==
  ASSUME CoInv, ReconMark
  PROVE  CoInv'
<1>0. PICK id \in Purchase : id = recon.id
  BY DEF CoInv, PassInv, ReconMark
<1> DEFINE row == [record[id] EXCEPT !.released = @ \/ ~record[id].payment]
<1>1. /\ reservation[id].state = "released" /\ StoresInv /\ Agreed(id)
      /\ record[id] \in RecordRow /\ record \in [Purchase -> RecordRow]
      /\ UNCHANGED <<session, reservation>>
  BY <1>0 DEF CoInv, PassInv, ReconMark, StoresInv, inventoryVars
<1>2. record' = [record EXCEPT ![id] = row] /\ record'[id] = row
  BY <1>0, <1>1 DEF ReconMark
<1>3. /\ row \in RecordRow /\ row.exists = record[id].exists
      /\ row.snapshot = record[id].snapshot /\ row.attached = record[id].attached
      /\ row.payment = record[id].payment
  <2>1. record[id].released \in BOOLEAN /\ record[id].payment \in BOOLEAN
    BY <1>1 DEF RecordRow
  <2>2. (record[id].released \/ ~record[id].payment) \in BOOLEAN
    BY <2>1
  <2> QED BY <2>2, <1>1 DEF RecordRow
<1>4. Agreed(id)'
  <2>1. record[id].exists
    BY <1>1 DEF Agreed
  <2> HIDE DEF row
  <2> QED BY <2>1, <1>1, <1>2, <1>3 DEF Agreed
<1>5. StoresInv' /\ Grows
  <2> HIDE DEF row
  <2> QED BY <1>1, <1>2, <1>3, <1>4, RecordWritten
<1>6. CallsInv' /\ LateInv' /\ PassInv' /\ JobsInv' /\ IInv' /\ price' \in Price
  BY <1>5, CallsKept, LateKept, PassEnds, JobsKept, InventoryStep DEF CoInv, ReconMark
<1> QED BY <1>5, <1>6 DEF CoInv

LEMMA ReconEndCoInv ==
  ASSUME CoInv, ReconEnd
  PROVE  CoInv'
<1>1. StoresInv' /\ Grows
  BY StoresKept DEF CoInv, ReconEnd, inventoryVars
<1> QED BY <1>1, CallsKept, LateKept, PassEnds, JobsKept, InventoryStep DEF CoInv, ReconEnd

-----------------------------------------------------------------------------
(* The durable jobs *)

\* Accepting, setting aside and taking up jobs keeps what the jobs have done,
\* when no publication is accepted.
LEMMA InboxCoInv ==
  ASSUME CoInv,
         status' \in [Job -> {"absent", "open", "done", "aside"}],
         \A id \in Purchase : status'[Publish(id)] # "absent" => status[Publish(id)] # "absent",
         UNCHANGED <<inventoryVars, price, record, session, call, late, performed, topic, order>>,
         PassInv'
  PROVE  CoInv'
<1>1. StoresInv' /\ Grows
  BY StoresKept DEF CoInv, inventoryVars
<1>2. \A id \in Purchase : Done(id)'
  BY <1>1, OthersDone DEF CoInv
<1>3. JobsInv'
  BY <1>2 DEF CoInv, JobsInv
<1> QED BY <1>1, <1>3, CallsKept, LateKept, InventoryStep DEF CoInv

\* Accept(Enrich(id)) opens no publication.
LEMMA AcceptEnrich ==
  ASSUME JobsInv, NEW id \in Purchase, Accept(Enrich(id))
  PROVE  /\ status' \in [Job -> {"absent", "open", "done", "aside"}]
         /\ \A other \in Purchase : status'[Publish(other)] = status[Publish(other)]
         /\ UNCHANGED performed
BY JobKeys DEF JobsInv, Accept

LEMMA EnqueuePaidCoInv ==
  ASSUME CoInv, NEW id \in Purchase, EnqueuePaid(id)
  PROVE  CoInv'
<1>1. StoresInv' /\ Grows
  BY StoresKept DEF CoInv, EnqueuePaid, storeVars, inventoryVars
<1>2. PassInv'
  BY <1>1, PassKept DEF CoInv, EnqueuePaid, storeVars
<1>3. JobsInv /\ Accept(Enrich(id))
  BY DEF CoInv, EnqueuePaid
<1>4. /\ status' \in [Job -> {"absent", "open", "done", "aside"}]
      /\ \A other \in Purchase : status'[Publish(other)] = status[Publish(other)]
      /\ UNCHANGED performed
  BY <1>3, AcceptEnrich
<1> QED BY <1>2, <1>4, InboxCoInv DEF EnqueuePaid, storeVars

LEMMA ReconEnqueueCoInv ==
  ASSUME CoInv, ReconEnqueue
  PROVE  CoInv'
<1>0. PICK id \in Purchase : id = recon.id
  BY DEF CoInv, PassInv, ReconEnqueue
<1>1. PassInv' /\ JobsInv
  BY PassEnds DEF CoInv, ReconEnqueue
<1>2. CASE Accept(Enrich(id))
  <2>1. /\ status' \in [Job -> {"absent", "open", "done", "aside"}]
        /\ \A other \in Purchase : status'[Publish(other)] = status[Publish(other)]
        /\ UNCHANGED performed
    BY <1>1, <1>2, AcceptEnrich
  <2> QED BY <2>1, <1>1, InboxCoInv DEF ReconEnqueue
<1>3. CASE UNCHANGED jobVars
  BY <1>1, <1>3, InboxCoInv DEF ReconEnqueue, jobVars, JobsInv
<1> QED BY <1>0, <1>2, <1>3 DEF ReconEnqueue

LEMMA QuarantineCoInv ==
  ASSUME CoInv, NEW j \in Job, Quarantine(j) \/ RedriveJob(j)
  PROVE  CoInv'
<1>1. StoresInv' /\ Grows
  BY StoresKept DEF CoInv, Quarantine, RedriveJob, storeVars, inventoryVars
<1>2. PassInv'
  BY <1>1, PassKept DEF CoInv, Quarantine, RedriveJob, storeVars
<1>3. status \in [Job -> {"absent", "open", "done", "aside"}]
  BY DEF CoInv, JobsInv
<1>4. /\ status' \in [Job -> {"absent", "open", "done", "aside"}]
      /\ \A id \in Purchase : status'[Publish(id)] # "absent" => status[Publish(id)] # "absent"
      /\ UNCHANGED performed
  BY <1>3, JobKeys DEF Quarantine, RedriveJob, SetAside, TakeUp
<1> QED BY <1>2, <1>4, InboxCoInv DEF Quarantine, RedriveJob, storeVars

LEMMA PublicationDoneCoInv ==
  ASSUME CoInv, NEW id \in Purchase, PublicationDone(id)
  PROVE  CoInv'
<1>1. StoresInv' /\ Grows
  BY StoresKept DEF CoInv, PublicationDone, storeVars, inventoryVars
<1>2. PassInv'
  BY <1>1, PassKept DEF CoInv, PublicationDone, storeVars
<1>3. status \in [Job -> {"absent", "open", "done", "aside"}]
  BY DEF CoInv, JobsInv
<1>4. /\ status' \in [Job -> {"absent", "open", "done", "aside"}]
      /\ \A other \in Purchase : status'[Publish(other)] # "absent" => status[Publish(other)] # "absent"
      /\ UNCHANGED performed
  BY <1>3, JobKeys DEF PublicationDone, Finish
<1> QED BY <1>2, <1>4, InboxCoInv DEF PublicationDone, storeVars

LEMMA EnrichAttachCoInv ==
  ASSUME CoInv, NEW id \in Purchase, EnrichAttach(id)
  PROVE  CoInv'
<1>1. StoresInv' /\ Grows
  BY RecordAttached DEF CoInv, EnrichAttach, Matches, inventoryVars
<1> QED BY <1>1, CallsKept, LateKept, PassKept, JobsKept, InventoryStep DEF CoInv, EnrichAttach

LEMMA EnrichCommitCoInv ==
  ASSUME CoInv, NEW id \in Purchase, EnrichCommit(id)
  PROVE  CoInv'
<1>1. /\ record[id].attached /\ session[id].status = "paid"
      /\ FinishReservation(id, "committed") /\ UNCHANGED <<record, session>>
  BY DEF EnrichCommit, Matches, Commit, storeVars
<1>2. StoresInv' /\ Grows /\ reservation'[id].state = "committed"
  BY <1>1, FinishAgrees
<1>3. IInv'
  BY <1>1, FinishIsInventory, InventoryStep
<1>4. performed' = performed \cup {Enrich(id)} /\ UNCHANGED <<status, topic, order>>
  BY DEF EnrichCommit, Perform
<1>5. ASSUME NEW other \in Purchase PROVE Done(other)'
  <2>1. CASE other # id
    BY <2>1, <1>2, <1>4, JobKeys, OthersDone DEF CoInv
  <2>2. CASE other = id
    <3>1. Done(id) /\ Agreed(id)
      BY DEF CoInv, JobsInv, StoresInv
    <3>2. RecordGrows(id)
      BY <1>2 DEF Grows
    <3> QED BY <2>2, <3>1, <3>2, <1>1, <1>2, <1>4 DEF Done
  <2> QED BY <2>1, <2>2
<1>6. JobsInv'
  BY <1>4, <1>5, JobKeys DEF CoInv, JobsInv
<1> QED BY <1>2, <1>3, <1>6, CallsKept, LateKept, PassKept DEF CoInv, EnrichCommit, storeVars

LEMMA EnrichTimeoutCoInv ==
  ASSUME CoInv, NEW id \in Purchase, EnrichTimeout(id)
  PROVE  CoInv'
<1>1. session[id].status = "paid" /\ late' = late \cup {<<"commit", id>>} /\ UNCHANGED <<record, session>>
  BY DEF EnrichTimeout, Matches, storeVars
<1>2. StoresInv' /\ Grows
  BY StoresKept DEF CoInv, EnrichTimeout, storeVars, inventoryVars
<1>3. LateInv'
  BY <1>1 DEF CoInv, LateInv, Founded
<1> QED BY <1>2, <1>3, CallsKept, PassKept, JobsKept, InventoryStep
        DEF CoInv, EnrichTimeout, storeVars

LEMMA StorePaymentCoInv ==
  ASSUME CoInv, NEW id \in Purchase, StorePayment(id)
  PROVE  CoInv'
<1> DEFINE row == [record[id] EXCEPT !.payment = record[id].attached]
<1>1. /\ StoresInv /\ JobsInv /\ Agreed(id) /\ Done(id)
      /\ record[id] \in RecordRow /\ record \in [Purchase -> RecordRow]
      /\ status \in [Job -> {"absent", "open", "done", "aside"}]
      /\ UNCHANGED <<session, reservation>>
  BY DEF CoInv, StoresInv, JobsInv, StorePayment, inventoryVars
<1>2. record[id].attached /\ reservation[id].state = "committed"
  BY <1>1 DEF StorePayment, Finish, Done
<1>3. record[id].exists
  BY <1>1, <1>2 DEF Agreed
<1>4. /\ row \in RecordRow /\ row.exists = record[id].exists
      /\ row.snapshot = record[id].snapshot /\ row.attached = record[id].attached
      /\ row.payment /\ row.released = record[id].released
      /\ record' = [record EXCEPT ![id] = row] /\ record'[id] = row
  BY <1>1, <1>2 DEF RecordRow, StorePayment
<1>5. StoresInv' /\ Grows
  <2> HIDE DEF row
  <2>1. Agreed(id)'
    BY <1>1, <1>2, <1>3, <1>4 DEF Agreed
  <2> QED BY <2>1, <1>1, <1>4, RecordWritten
<1>6. /\ status' \in [Job -> {"absent", "open", "done", "aside"}]
      /\ \A other \in Purchase \ {id} : status'[Publish(other)] = status[Publish(other)]
      /\ UNCHANGED <<performed, topic, order>>
  BY <1>1, JobKeys DEF StorePayment, Finish
<1>7. ASSUME NEW other \in Purchase PROVE Done(other)'
  <2>1. CASE other # id
    BY <2>1, <1>1, <1>5, <1>6, OthersDone
  <2>2. CASE other = id
    <3> HIDE DEF row
    <3> QED BY <2>2, <1>1, <1>2, <1>3, <1>4, <1>6 DEF Done
  <2> QED BY <2>1, <2>2
<1>8. JobsInv'
  BY <1>1, <1>6, <1>7 DEF JobsInv
<1> QED BY <1>5, <1>8, CallsKept, LateKept, PassKept, InventoryStep DEF CoInv, StorePayment

LEMMA PublishPaymentCoInv ==
  ASSUME CoInv, NEW id \in Purchase, PublishPayment(id)
  PROVE  CoInv'
<1> DEFINE message == [id |-> id, snapshot |-> record[id].snapshot]
<1>1. StoresInv' /\ Grows
  BY StoresKept DEF CoInv, PublishPayment, storeVars, inventoryVars
<1>2. StoresInv /\ JobsInv /\ Agreed(id) /\ Done(id)
  BY DEF CoInv, StoresInv, JobsInv
<1>3. record[id].payment /\ record[id].exists
  BY <1>2 DEF PublishPayment, Perform, Done, Agreed
<1>4. /\ performed' = performed \cup {Publish(id)} /\ topic' = topic \cup {message}
      /\ UNCHANGED <<record, reservation, status, order>>
  BY DEF PublishPayment, Perform, storeVars, inventoryVars
<1>5. message \in [id : Purchase, snapshot : Snapshot]
  BY <1>2, <1>3 DEF Agreed
<1>6. ASSUME NEW other \in Purchase PROVE Done(other)'
  <2>1. Done(other)
    BY <1>2 DEF JobsInv
  <2>2. \A m \in topic' : m.id = other =>
          record'[other].payment /\ m.snapshot = record'[other].snapshot
    BY <2>1, <1>3, <1>4 DEF Done
  <2> QED BY <2>1, <2>2, <1>4, JobKeys DEF Done
<1>7. JobsInv'
  BY <1>2, <1>4, <1>5, <1>6, JobKeys DEF JobsInv
<1> QED BY <1>1, <1>7, CallsKept, LateKept, PassKept, InventoryStep DEF CoInv, PublishPayment, storeVars

LEMMA CreateOrderCoInv ==
  ASSUME CoInv, NEW m \in topic, CreateOrder(m)
  PROVE  CoInv'
<1>1. StoresInv' /\ Grows
  BY StoresKept DEF CoInv, CreateOrder, storeVars, inventoryVars
<1>2. JobsInv /\ UNCHANGED <<record, reservation, status, performed, topic>>
  BY DEF CoInv, CreateOrder, storeVars, inventoryVars, jobVars
<1>3. m.id \in Purchase /\ m.snapshot \in Snapshot
  BY <1>2 DEF JobsInv
<1>4. order' \in [Purchase -> Snapshots]
  BY <1>2, <1>3, SnapshotsDiffer DEF JobsInv, CreateOrder
<1>5. ASSUME NEW id \in Purchase PROVE Done(id)'
  <2>1. Done(id)
    BY <1>2 DEF JobsInv
  <2>2. order'[id] = order[id] \/ (m.id = id /\ order'[id] = m.snapshot)
    BY <1>2 DEF JobsInv, CreateOrder
  <2> QED BY <2>1, <2>2, <1>2 DEF Done
<1>6. JobsInv'
  BY <1>2, <1>4, <1>5 DEF JobsInv
<1> QED BY <1>1, <1>6, CallsKept, LateKept, PassKept, InventoryStep DEF CoInv, CreateOrder, storeVars

-----------------------------------------------------------------------------
\* Every step preserves the invariant.
LEMMA NextCoInv == CoInv /\ [CoNext]_coVars => CoInv'
<1> SUFFICES ASSUME CoInv, [CoNext]_coVars PROVE CoInv'
  OBVIOUS
<1>1. CASE UNCHANGED coVars
  BY <1>1, NoStoreCoInv DEF coVars, inventoryVars, CoInv
<1>2. ASSUME NEW k \in Call, NEW id \in Purchase, NEW cart \in Requests, ReadRecord(k, id, cart)
      PROVE  CoInv'
  BY <1>2, ReadRecordCoInv
<1>3. ASSUME NEW k \in Call, CheckoutStep(k) \/ ReserveTimeout(k) \/ Abandon(k)
      PROVE  CoInv'
  BY <1>3, ResolveCoInv, SaveCheckoutCoInv, VerifyExpiryCoInv, ReserveCoInv, OpenSessionCoInv,
     AttachCoInv, ReserveTimeoutCoInv, AbandonCoInv DEF CheckoutStep
<1>4. ASSUME NEW id \in Purchase,
             \/ Pay(id) \/ Expire(id) \/ Webhook(id) \/ StatusCheck(id)
             \/ LateRequest(id) \/ ReconRead(id)
             \/ EnrichAttach(id) \/ EnrichCommit(id) \/ EnrichTimeout(id) \/ StorePayment(id)
             \/ PublishPayment(id) \/ PublicationDone(id)
      PROVE  CoInv'
  BY <1>4, SessionBecomesCoInv, EnqueuePaidCoInv, LateRequestCoInv, ReconReadCoInv,
     EnrichAttachCoInv, EnrichCommitCoInv, EnrichTimeoutCoInv, StorePaymentCoInv,
     PublishPaymentCoInv, PublicationDoneCoInv
  DEF Pay, Expire, Webhook, StatusCheck
<1>5. ASSUME NEW r \in late, LoseLate(r) PROVE CoInv'
  BY <1>5, LoseLateCoInv
<1>6. ASSUME NEW j \in Job, Quarantine(j) \/ RedriveJob(j) PROVE CoInv'
  BY <1>6, QuarantineCoInv
<1>7. ASSUME NEW m \in topic, CreateOrder(m) PROVE CoInv'
  BY <1>7, CreateOrderCoInv
<1>8. CASE ReconStep \/ ReconReleaseTimeout \/ ReconEnd
  BY <1>8, ReconEnqueueCoInv, ReconReleaseCoInv, ReconMarkCoInv, ReconEndCoInv,
     ReconReleaseTimeoutCoInv DEF ReconStep
<1>9. ASSUME NEW v \in Variant, NEW count \in 0..MaxOnHand, Count(v, count) PROVE CoInv'
  BY <1>9, CountCoInv
<1>10. CASE ChangePrice \/ CoTick
  BY <1>10, ChangePriceCoInv, CoTickCoInv
<1> QED BY <1>1, <1>2, <1>3, <1>4, <1>5, <1>6, <1>7, <1>8, <1>9, <1>10 DEF CoNext

-----------------------------------------------------------------------------
(* Theorems *)

LEMMA CoInvariance == CoSpec => []CoInv
BY InitCoInv, NextCoInv, PTL DEF CoSpec

\* The stores, the requests and the messages always have their types.
THEOREM CheckoutTypeCorrect == CoSpec => []CoTypeOK
BY CoInvariance, InvImplies, PTL

\* Hold, session, publication and order of a purchase are always those of the
\* one snapshot that was stored first.
THEOREM SnapshotIsOne == CoSpec => []OneSnapshot
BY CoInvariance, InvImplies, PTL

\* No interleaving of requests, late calls and reconciliation takes the units
\* from whoever paid for them.
THEOREM PaidStaysHeld == CoSpec => []PaidIsHeld
BY CoInvariance, InvImplies, PTL

\* Units are sold only to paid sessions, and return only from expired ones.
THEOREM InventoryFollowsStripe == CoSpec => []SettledAsStripeSays
BY CoInvariance, InvImplies, PTL

\* Every order was paid for, sold and stored.
THEOREM OrdersAreSold == CoSpec => []OrderedIsSold
BY CoInvariance, InvImplies, PTL

\* The payment store never says of a purchase what is not so in the inventory.
THEOREM RecordsAreTrue == CoSpec => []RecordIsTrue
BY CoInvariance, InvImplies, PTL

\* The units that were paid for and not yet sold are among the held ones.
LEMMA PaidUnitsAreHeld ==
  ASSUME CoInv, NEW v \in Variant
  PROVE  PaidUnits(v) \subseteq HeldUnits(v)
<1> SUFFICES ASSUME NEW id \in Purchase, session[id].status = "paid", reservation[id].state # "committed",
                    NEW unit \in {id} \X (1..NormalizeStockItems(session[id].snapshot.cart)[v])
             PROVE  unit \in HeldUnits(v)
  BY DEF PaidUnits
<1>1. reservation[id].state = "reserved"
  BY InvImplies DEF PaidIsHeld
<1>2. reservation[id].items = NormalizeStockItems(session[id].snapshot.cart)
  BY <1>1 DEF CoInv, StoresInv, Agreed
<1>3. unit \in {id} \X (1..reservation[id].items[v])
  BY <1>2
<1> QED BY <1>1, <1>3 DEF HeldUnits, Units, Purchase

\* For any number of customers and any counts, the shelf covers every payment.
THEOREM PaymentsAreCovered == CoSpec => []PaidIsCovered
<1>1. CoInv => PaidIsCovered
  <2> SUFFICES ASSUME CoInv, NEW v \in Variant PROVE Cardinality(PaidUnits(v)) <= onHand[v]
    BY DEF PaidIsCovered
  <2>1. IsFiniteSet(HeldUnits(v)) /\ IsFiniteSet(PaidUnits(v))
           /\ Cardinality(PaidUnits(v)) <= Cardinality(HeldUnits(v))
    <3>1. IsFiniteSet(HeldUnits(v))
      BY UnitsFinite DEF HeldUnits, CoInv, IInv, TypeOK
    <3> QED BY <3>1, PaidUnitsAreHeld, FS_Subset
  <2>2. Cardinality(PaidUnits(v)) \in Nat /\ Cardinality(HeldUnits(v)) \in Nat
    BY <2>1, FS_CardinalityType
  <2>3. Cardinality(HeldUnits(v)) = reserved[v] /\ reserved[v] <= onHand[v] /\ onHand[v] \in Nat
    BY DEF CoInv, IInv, ReservedIsHeld, NeverOversold, TypeOK
  <2> QED BY <2>1, <2>2, <2>3
<1> QED BY <1>1, CoInvariance, PTL

\* Every step of a checkout is a step of the inventory or leaves it alone.
LEMMA CheckoutStepsInventory == CoInv /\ [CoNext]_coVars => [Next]_vars
<1> SUFFICES ASSUME CoInv, [CoNext]_coVars, ~UNCHANGED inventoryVars PROVE Next
  BY DEF inventoryVars, vars
<1>1. ASSUME NEW k \in Call, CheckoutStep(k) PROVE Next
  <2>1. Reserve(k)
    BY <1>1 DEF CheckoutStep, Resolve, SaveCheckout, VerifyExpiry, OpenSession, Attach
  <2>2. /\ call[k].id \in Purchase /\ record[call[k].id].exists
        /\ call[k].snapshot = record[call[k].id].snapshot
    BY <2>1 DEF Reserve, CoInv, CallsInv, Reached
  <2> QED BY <2>1, <2>2, HoldIsInventory DEF Reserve
<1>2. ASSUME NEW id \in Purchase, LateRequest(id) PROVE Next
  <2>1. Founded(id)
    BY DEF CoInv, LateInv
  <2> QED BY <1>2, <2>1, HoldIsInventory, FinishIsInventory
          DEF LateRequest, RunLate, Founded, Commit, Release
<1>3. ASSUME NEW id \in Purchase, EnrichCommit(id) PROVE Next
  BY <1>3, FinishIsInventory DEF EnrichCommit, Commit
<1>4. CASE ReconStep
  <2>1. ReconRelease
    BY <1>4 DEF ReconStep, ReconEnqueue, ReconMark, ReconEnd
  <2>2. recon.id \in Purchase
    BY <2>1 DEF ReconRelease, CoInv, PassInv
  <2> QED BY <2>1, <2>2, FinishIsInventory DEF ReconRelease, Release
<1>5. ASSUME NEW v \in Variant, NEW count \in 0..MaxOnHand, Count(v, count) PROVE Next
  BY <1>5 DEF Count, Next
<1>6. CASE CoTick
  BY <1>6 DEF CoTick, Next
<1> QED BY <1>1, <1>2, <1>3, <1>4, <1>5, <1>6
        DEF CoNext, coVars, ReadRecord, ReserveTimeout, Abandon, Pay, Expire, SessionBecomes, Webhook,
            StatusCheck, EnqueuePaid, ReconRead, EnrichAttach, EnrichTimeout, StorePayment,
            PublishPayment, PublicationDone, LoseLate, Quarantine, RedriveJob, CreateOrder,
            ReconReleaseTimeout, ReconEnd, ChangePrice

\* Whatever the payment service does, it moves the inventory only by the
\* inventory's own operations, with arguments they accept: what is proved of
\* module Inventory holds of every checkout.
THEOREM CheckoutUsesTheInventory == CoSpec => Spec
<1>1. CoInit => Init
  BY DEF CoInit
<1> QED BY <1>1, CoInvariance, CheckoutStepsInventory, PTL DEF CoSpec, Spec

\* Every step of a checkout is a step of the durable jobs or leaves them alone.
LEMMA CheckoutStepsJobs == CoInv /\ [CoNext]_coVars => [DJNext]_djVars
<1> SUFFICES ASSUME CoInv, [CoNext]_coVars, ~UNCHANGED jobVars
             PROVE \E j \in Job : Accept(j) \/ Perform(j) \/ Finish(j) \/ SetAside(j) \/ TakeUp(j)
  BY DEF jobVars, djVars, DJNext
<1>1. ASSUME NEW id \in Purchase,
             EnqueuePaid(id) \/ EnrichCommit(id) \/ StorePayment(id) \/ PublishPayment(id) \/ PublicationDone(id)
      PROVE \E j \in Job : Accept(j) \/ Perform(j) \/ Finish(j) \/ SetAside(j) \/ TakeUp(j)
  BY <1>1, JobKeys DEF EnqueuePaid, EnrichCommit, StorePayment, PublishPayment, PublicationDone
<1>2. ASSUME NEW j \in Job, Quarantine(j) \/ RedriveJob(j)
      PROVE \E i \in Job : Accept(i) \/ Perform(i) \/ Finish(i) \/ SetAside(i) \/ TakeUp(i)
  BY <1>2 DEF Quarantine, RedriveJob
<1>3. CASE ReconEnqueue
  BY <1>3, JobKeys DEF ReconEnqueue, CoInv, PassInv
<1> QED BY <1>1, <1>2, <1>3
        DEF CoNext, coVars, ReadRecord, CheckoutStep, Resolve, SaveCheckout, VerifyExpiry, Reserve,
            OpenSession, Attach, ReserveTimeout, Abandon, Pay, Expire, SessionBecomes, Webhook,
            StatusCheck, LateRequest, ReconRead, EnrichAttach, EnrichTimeout, LoseLate, CreateOrder,
            ReconStep, ReconRelease, ReconMark, ReconReleaseTimeout, ReconEnd, Count, ChangePrice, CoTick

\* The checkout relies on no more of the durable jobs than DurableJobs
\* promises, which module PaymentJobs is checked to keep.
THEOREM CheckoutUsesTheJobs == CoSpec => DJSpec
<1>1. CoInit => DJInit
  BY DEF CoInit
<1> QED BY <1>1, CoInvariance, CheckoutStepsJobs, PTL DEF CoSpec, DJSpec
=============================================================================
