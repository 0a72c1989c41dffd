--------------------------- MODULE CatalogueProofs ---------------------------
(***************************************************************************)
(* Proofs about the components that MCCatalogue puts side by side, for any *)
(* products, variants, replicas, workers, purchases and faults: the outbox *)
(* of the product service, ProductOutbox, the Stripe products that follow  *)
(* it, StripeCatalog, the seed job, CatalogSeed, and of the administration *)
(* its theme, ThemeTabs, its stock panel, StockConsole, its catalogue      *)
(* pages, CatalogConsole, its product form, ProductForm, and its reports,  *)
(* AdminReports.  At the end the theorems about the specification of       *)
(* MCCatalogue itself.                                                     *)
(***************************************************************************)
EXTENDS Integers, Sequences, FiniteSetTheorems, WellFoundedInduction, TLAPS, MCCatalogue

-----------------------------------------------------------------------------
(* Least and greatest numbers *)

\* A set of numbers has a least one.
LEMMA LeastOf ==
  ASSUME NEW S \in SUBSET Nat, S # {}
  PROVE  \E n \in S : \A m \in S : n <= m
<1> DEFINE Less == {ss \in Nat \X Nat : ss[1] < ss[2]}
<1>1. Less = OpToRel(<, Nat)
  BY DEF OpToRel
<1>2. IsWellFoundedOn(Less, Nat)
  BY <1>1, NatLessThanWellFounded, Zenon
<1>3. \A m \in Nat, n \in Nat : m < n => <<m, n>> \in Less
  OBVIOUS
<1> HIDE DEF Less
<1>4. PICK n \in S : \A m \in S : ~(<<m, n>> \in Less)
  BY <1>2, WFMin, Zenon
<1>5. ASSUME NEW m \in S
      PROVE  n <= m
  <2>1. m \in Nat /\ n \in Nat /\ <<m, n>> \notin Less
    BY <1>4
  <2>2. ~(m < n)
    BY <1>3, <2>1
  <2> QED BY ONLY <2>1, <2>2
<1> QED BY <1>5

-----------------------------------------------------------------------------
(* What a sequence has at some of its indices, in order *)

RankIn(I, i) == Cardinality({j \in I : j <= i})

NthOf(I, n) == CHOOSE i \in I : RankIn(I, i) = n

LEMMA RankType ==
  ASSUME NEW I \in SUBSET Nat, IsFiniteSet(I), NEW i \in I
  PROVE  /\ RankIn(I, i) \in 1..Cardinality(I)
         /\ IsFiniteSet({j \in I : j <= i}) /\ Cardinality(I) \in Nat
<1> DEFINE low == {j \in I : j <= i}
<1>1. low \in SUBSET I /\ i \in low
  OBVIOUS
<1>2. IsFiniteSet(low) /\ Cardinality(low) <= Cardinality(I)
  BY <1>1, FS_Subset
<1>3. Cardinality(low) \in Nat /\ Cardinality(I) \in Nat
  BY <1>2, FS_CardinalityType
<1>4. Cardinality(low) # 0
  BY <1>1, <1>2, FS_EmptySet
<1> QED BY <1>2, <1>3, <1>4 DEF RankIn

LEMMA RankMonotone ==
  ASSUME NEW I \in SUBSET Nat, IsFiniteSet(I), NEW i \in I, NEW j \in I, i < j
  PROVE  RankIn(I, i) < RankIn(I, j)
<1> DEFINE low == {k \in I : k <= i}
           high == {k \in I : k <= j}
<1>1. IsFiniteSet(low) /\ IsFiniteSet(high)
  BY RankType
<1>2. low \in SUBSET (high \ {j}) /\ j \in high
  <2>1. ASSUME NEW k \in I, k <= i
        PROVE  k <= j /\ k # j
    <3>1. k \in Nat /\ i \in Nat /\ j \in Nat
      OBVIOUS
    <3> QED BY ONLY <2>1, <3>1, i < j
  <2>2. j \in high
    OBVIOUS
  <2> QED BY <2>1, <2>2
<1>3. IsFiniteSet(high \ {j}) /\ Cardinality(high \ {j}) = Cardinality(high) - 1
  BY <1>1, <1>2, FS_RemoveElement
<1>4. Cardinality(low) <= Cardinality(high \ {j})
  BY <1>2, <1>3, FS_Subset
<1>5. Cardinality(low) \in Nat /\ Cardinality(high) \in Nat
  BY <1>1, FS_CardinalityType
<1> HIDE DEF low, high
<1>6. Cardinality(low) < Cardinality(high)
  BY <1>3, <1>4, <1>5
<1> QED BY <1>6 DEF RankIn, low, high

\* Some index has each rank, and only one.
LEMMA RankOnto ==
  ASSUME NEW I \in SUBSET Nat, IsFiniteSet(I), NEW n \in 1..Cardinality(I)
  PROVE  NthOf(I, n) \in I /\ RankIn(I, NthOf(I, n)) = n
<1>1. Cardinality(I) \in Nat
  BY FS_CardinalityType
<1>2. SUFFICES ASSUME \A i \in I : RankIn(I, i) # n
               PROVE  FALSE
  BY DEF NthOf
<1> DEFINE others == (1..Cardinality(I)) \ {n}
           f == [i \in I |-> RankIn(I, i)]
<1>3. IsFiniteSet(1..Cardinality(I)) /\ Cardinality(1..Cardinality(I)) = Cardinality(I)
  BY <1>1, FS_Interval
<1>4. IsFiniteSet(others) /\ Cardinality(others) = Cardinality(I) - 1
  BY <1>3, FS_RemoveElement
<1>5. f \in [I -> others]
  BY <1>2, RankType
<1> HIDE DEF f, others
<1>5a. Cardinality(others) < Cardinality(I)
  BY <1>1, <1>4
<1>6. PICK i \in I, j \in I : i # j /\ f[i] = f[j]
  BY <1>4, <1>5, <1>5a, FS_PigeonHole
<1>7. RankIn(I, i) = RankIn(I, j)
  BY <1>6 DEF f
<1>8. \A k \in I : RankIn(I, k) \in Nat
  <2>1. \A k \in I : RankIn(I, k) \in 1..Cardinality(I)
    BY RankType
  <2> QED BY <1>1, <2>1
<1>9. i < j \/ j < i
  BY <1>6
<1> QED BY <1>7, <1>8, <1>9, RankMonotone

LEMMA NthOfRank ==
  ASSUME NEW I \in SUBSET Nat, IsFiniteSet(I), NEW i \in I
  PROVE  NthOf(I, RankIn(I, i)) = i
<1>1. RankIn(I, i) \in 1..Cardinality(I) /\ Cardinality(I) \in Nat
  BY RankType
<1>2. PICK j \in I : j = NthOf(I, RankIn(I, i)) /\ RankIn(I, j) = RankIn(I, i)
  BY <1>1, RankOnto
<1>3. ~(i < j) /\ ~(j < i)
  BY <1>1, <1>2, RankMonotone
<1> QED BY <1>2, <1>3

\* The indices of a sequence are finitely many.
LEMMA IndicesFinite ==
  ASSUME NEW n \in Nat, NEW I \in SUBSET (1..n)
  PROVE  I \in SUBSET Nat /\ IsFiniteSet(I) /\ Cardinality(I) \in Nat /\ Cardinality(I) <= n
<1>1. IsFiniteSet(1..n) /\ Cardinality(1..n) = n
  BY FS_Interval
<1>2. IsFiniteSet(I) /\ Cardinality(I) <= n
  BY <1>1, FS_Subset
<1> QED BY <1>2, FS_CardinalityType

\* The greatest of some indices.
LEMMA GreatestIndex ==
  ASSUME NEW n \in Nat, NEW S \in SUBSET (1..n), S # {}
  PROVE  \E i \in S : \A j \in S : j <= i
<1> DEFINE bounds == {m \in Nat : \A j \in S : j <= m}
<1>1. n \in bounds /\ bounds \in SUBSET Nat
  OBVIOUS
<1>2. PICK m \in bounds : \A k \in bounds : m <= k
  BY <1>1, LeastOf
<1>3. m \in Nat /\ \A j \in S : j <= m
  OBVIOUS
<1>4. CASE m \in S
  BY <1>3, <1>4
<1>5. CASE m \notin S
  <2>1. \A j \in S : j <= m - 1 /\ j >= 1 /\ j \in Nat
    BY <1>3, <1>5
  <2>2. m - 1 \in Nat
    <3>1. PICK j \in S : TRUE
      OBVIOUS
    <3> QED BY ONLY <1>3, <2>1, <3>1
  <2>3. m - 1 \in bounds
    BY <2>1, <2>2
  <2> HIDE DEF bounds
  <2> QED BY <1>2, <1>3, <2>3
<1> QED BY <1>4, <1>5

-----------------------------------------------------------------------------
(* ProductOutbox *)

ProductRow == [state : {"unborn", "live", "deleted"}, offers : SUBSET Variant,
               content : Outbox!Content, renamed : BOOLEAN]
RequestRow == [step : {"none", "check", "retired", "write"}, op : {"none", "set", "delete"},
               product : Product \union {"none"}, variant : Variant \union {"none"},
               zero : BOOLEAN]
RelayRow == [step : {"idle", "claim", "send", "finish", "fail"}, event : Nat, attempts : Nat]

\* Types, and that a request names what it is about.
OutboxTypes ==
  /\ product \in [Product -> ProductRow]
  /\ stock \in [Product \X Variant -> {"none", "empty", "free", "held"}]
  /\ outbox \in Seq(Outbox!EventRow) /\ Len(outbox) <= MaxEvents
  /\ sent \subseteq 1..Len(outbox)
  /\ request \in [Admin -> RequestRow]
  /\ relay \in [Replica -> RelayRow]
  /\ \A a \in Admin :
       request[a].step # "none" =>
         /\ request[a].product \in Product
         /\ request[a].op = "set" => request[a].variant \in Variant

\* The newest event of a product tells whether its row exists and what it says.
Newest(i, p) ==
  /\ outbox[i].product = p
  /\ \A k \in 1..Len(outbox) : outbox[k].product = p => k <= i
Tells(event, entry) ==
  /\ entry.state = "live" <=> event.topic # "deleted"
  /\ entry.state = "live" => event.content.rev = entry.content.rev
  /\ entry.state = "live" /\ event.content.category # entry.content.category => entry.renamed
Told ==
  \A p \in Product :
    IF product[p].state = "unborn"
      THEN \A i \in 1..Len(outbox) : outbox[i].product # p
      ELSE \E i \in 1..Len(outbox) : Newest(i, p) /\ Tells(outbox[i], product[p])

\* A relay that has claimed an event holds a number that no other relay holds for
\* it and that no later claim has; it goes on to finish only what Kafka took.
Holds(entry) == entry.step \in {"send", "finish", "fail"}
RelaysInv ==
  \A r \in Replica :
    /\ relay[r].step # "idle" => relay[r].event \in 1..Len(outbox)
    /\ Holds(relay[r]) => relay[r].attempts <= outbox[relay[r].event].attempts
    /\ relay[r].step = "finish" => relay[r].event \in sent
ClaimsDiffer ==
  \A r, s \in Replica :
    /\ Holds(relay[r]) /\ Holds(relay[s])
    /\ relay[r].event = relay[s].event /\ relay[r].attempts = relay[s].attempts
    => r = s
PublishedInv ==
  \A i \in 1..Len(outbox) : outbox[i].status = "PUBLISHED" => i \in sent

RelayInv == RelaysInv /\ ClaimsDiffer /\ PublishedInv
OutboxInv == OutboxTypes /\ Outbox!StockHasItsProduct /\ Told /\ RelayInv

\* Nothing is offered, stocked, asked or published at first.
LEMMA InitOutboxInv ==
  ASSUME Outbox!OutboxAssumption, Outbox!Init
  PROVE  OutboxInv
<1> USE DEF Outbox!Init
<1>1. OutboxTypes
  <2>1. Outbox!Unborn \in ProductRow /\ Outbox!NoRequest \in RequestRow
        /\ Outbox!NoRequest.step = "none"
    BY DEF Outbox!Unborn, Outbox!Nothing, Outbox!Content, ProductRow, Outbox!NoRequest, RequestRow
  <2>2. Outbox!IdleRelay \in RelayRow
    BY DEF Outbox!IdleRelay, RelayRow
  <2>3. Len(outbox) <= MaxEvents /\ outbox \in Seq(Outbox!EventRow)
    BY DEF Outbox!OutboxAssumption
  <2> QED BY <2>1, <2>2, <2>3 DEF OutboxTypes
<1>2. Outbox!StockHasItsProduct
  BY DEF Outbox!StockHasItsProduct, Outbox!Rows
<1>3. Told
  BY DEF Told, Outbox!Unborn
<1>4. RelayInv
  BY DEF RelayInv, RelaysInv, ClaimsDiffer, PublishedInv, Outbox!IdleRelay, Holds
<1> QED BY <1>1, <1>2, <1>3, <1>4 DEF OutboxInv

-----------------------------------------------------------------------------
(* Catalog writes *)

\* An event that is added is the newest of its product.
LEMMA EnqueueAdds ==
  ASSUME OutboxTypes, NEW p \in Product, NEW topic \in {"created", "updated", "deleted"},
         NEW content \in Outbox!Content, Outbox!Enqueue(p, topic, content), Outbox!OutboxAssumption
  PROVE  /\ outbox' \in Seq(Outbox!EventRow) /\ Len(outbox') <= MaxEvents
         /\ Len(outbox') = Len(outbox) + 1 /\ Len(outbox) \in Nat
         /\ \A k \in 1..Len(outbox) : outbox'[k] = outbox[k]
         /\ outbox'[Len(outbox')] = Outbox!Event(p, topic, content)
<1>1. Outbox!Event(p, topic, content) \in Outbox!EventRow
  BY DEF Outbox!Event, Outbox!EventRow
<1>2. outbox \in Seq(Outbox!EventRow) /\ Len(outbox) \in Nat /\ Len(outbox) < MaxEvents
  BY DEF OutboxTypes, Outbox!Enqueue
<1>3. outbox' = Append(outbox, Outbox!Event(p, topic, content))
  BY DEF Outbox!Enqueue
<1>4. MaxEvents \in Nat
  BY DEF Outbox!OutboxAssumption
<1> QED BY <1>1, <1>2, <1>3, <1>4

\* The relays have no part in it.
LEMMA EnqueueRelayInv ==
  ASSUME OutboxTypes, RelayInv, NEW p \in Product,
         NEW topic \in {"created", "updated", "deleted"},
         NEW content \in Outbox!Content, Outbox!Enqueue(p, topic, content), Outbox!OutboxAssumption, UNCHANGED <<sent, relay>>
  PROVE  RelayInv' /\ sent' \subseteq 1..Len(outbox')
<1>1. /\ Len(outbox') = Len(outbox) + 1 /\ Len(outbox) \in Nat
      /\ \A k \in 1..Len(outbox) : outbox'[k] = outbox[k]
      /\ outbox'[Len(outbox')] = Outbox!Event(p, topic, content)
  BY EnqueueAdds
<1>2. outbox'[Len(outbox')].status # "PUBLISHED"
  BY <1>1 DEF Outbox!Event
<1>3. RelaysInv'
  BY <1>1 DEF RelayInv, RelaysInv, Holds
<1>4. ClaimsDiffer'
  BY DEF RelayInv, ClaimsDiffer
<1>5. PublishedInv'
  BY <1>1, <1>2 DEF RelayInv, PublishedInv
<1>6. sent' \subseteq 1..Len(outbox')
  BY <1>1 DEF OutboxTypes
<1> QED BY <1>3, <1>4, <1>5, <1>6 DEF RelayInv

LEMMA EnqueueTold ==
  ASSUME OutboxTypes, Told, NEW p \in Product, NEW entry \in ProductRow,
         NEW topic \in {"created", "updated", "deleted"},
         NEW content \in Outbox!Content, Outbox!Enqueue(p, topic, content), Outbox!OutboxAssumption,
         product' = [product EXCEPT ![p] = entry],
         entry.state # "unborn", entry.state = "live" <=> topic # "deleted",
         entry.state = "live" => content = entry.content
  PROVE  Told'
<1>1. /\ Len(outbox') = Len(outbox) + 1 /\ Len(outbox) \in Nat
      /\ \A k \in 1..Len(outbox) : outbox'[k] = outbox[k]
      /\ outbox'[Len(outbox')] = Outbox!Event(p, topic, content)
  BY EnqueueAdds
<1>2. PICK n \in Nat : n = Len(outbox) + 1
  BY <1>1
<1>3. Len(outbox') = n /\ n \in 1..Len(outbox')
      /\ outbox'[n].product = p /\ outbox'[n].topic = topic /\ outbox'[n].content = content
  BY <1>1, <1>2 DEF Outbox!Event
<1>4. SUFFICES ASSUME NEW q \in Product
      PROVE  IF product'[q].state = "unborn"
               THEN \A i \in 1..Len(outbox') : outbox'[i].product # q
               ELSE \E i \in 1..Len(outbox') : Newest(i, q)' /\ Tells(outbox'[i], product'[q])
  BY DEF Told
<1>5. CASE q = p
  <2>1. product'[q] = entry
    BY <1>5 DEF OutboxTypes
  <2>2. Newest(n, q)'
    BY <1>1, <1>3, <1>5 DEF Newest
  <2>3. Tells(outbox'[n], product'[q])
    BY <1>3, <2>1 DEF Tells
  <2> QED BY <1>3, <2>1, <2>2, <2>3
<1>6. CASE q # p
  <2>1. product'[q] = product[q]
    BY <1>6 DEF OutboxTypes
  <2>2. CASE product[q].state = "unborn"
    BY <1>1, <1>2, <1>3, <1>6, <2>1, <2>2 DEF Told
  <2>3. CASE product[q].state # "unborn"
    <3>1. PICK i \in 1..Len(outbox) : Newest(i, q) /\ Tells(outbox[i], product[q])
      BY <2>3 DEF Told
    <3>2. Newest(i, q)'
      BY <1>1, <1>2, <1>3, <1>6, <3>1 DEF Newest
    <3> QED BY <1>1, <2>1, <2>3, <3>1, <3>2
  <2> QED BY <2>2, <2>3
<1> QED BY <1>5, <1>6

\* Creating and updating a product leave stock and requests alone.
LEMMA CatalogWriteInv ==
  ASSUME OutboxInv, Outbox!OutboxAssumption, NEW p \in Product, NEW variants \in SUBSET Variant,
         NEW category \in Category,
         Outbox!CreateProduct(p, variants, category) \/ Outbox!UpdateProduct(p, variants, category)
  PROVE  OutboxInv'
<1>0. OutboxTypes /\ Told /\ RelayInv /\ Outbox!StockHasItsProduct
  BY DEF OutboxInv
<1>1. PICK topic \in {"created", "updated"}, entry \in ProductRow, content \in Outbox!Content :
        /\ Outbox!Enqueue(p, topic, content) /\ product' = [product EXCEPT ![p] = entry]
        /\ entry.state = "live" /\ entry.content = content
        /\ UNCHANGED <<stock, sent, request, relay>>
  <2>1. PICK topic \in {"created", "updated"} : Outbox!Write(p, topic, variants, category)
    BY DEF Outbox!CreateProduct, Outbox!UpdateProduct
  <2>2. PICK content : content = [rev |-> product[p].content.rev + 1, category |-> category]
    OBVIOUS
  <2>3. content \in Outbox!Content
    BY <1>0, <2>2 DEF OutboxTypes, ProductRow, Outbox!Content
  <2>4. PICK entry : entry = [state |-> "live", offers |-> variants, content |-> content, renamed |-> FALSE]
    OBVIOUS
  <2>5. entry \in ProductRow /\ entry.state = "live" /\ entry.content = content
    BY <2>3, <2>4 DEF ProductRow
  <2>6. /\ Outbox!Enqueue(p, topic, content) /\ product' = [product EXCEPT ![p] = entry]
        /\ UNCHANGED <<stock, sent, request, relay>>
    BY <2>1, <2>2, <2>4 DEF Outbox!Write
  <2> QED BY <2>3, <2>5, <2>6
<1>2. outbox' \in Seq(Outbox!EventRow) /\ Len(outbox') <= MaxEvents
  BY <1>0, <1>1, EnqueueAdds
<1>3. RelayInv' /\ sent' \subseteq 1..Len(outbox')
  BY <1>0, <1>1, EnqueueRelayInv
<1>4. Told'
  BY <1>0, <1>1, EnqueueTold
<1>5. OutboxTypes'
  BY <1>0, <1>1, <1>2, <1>3 DEF OutboxTypes
<1>6. Outbox!StockHasItsProduct'
  BY <1>0, <1>1 DEF OutboxTypes, Outbox!StockHasItsProduct, Outbox!Rows, Outbox!Live
<1> QED BY <1>3, <1>4, <1>5, <1>6 DEF OutboxInv

\* A renamed category is told by no event, and marked in the rows it reaches.
LEMMA OutboxRenameInv ==
  ASSUME OutboxInv, NEW old \in Category, NEW new \in Category, Outbox!RenameCategory(old, new)
  PROVE  OutboxInv'
<1>0. OutboxTypes /\ Told /\ RelayInv /\ Outbox!StockHasItsProduct
  BY DEF OutboxInv
<1>1. UNCHANGED <<stock, outbox, sent, request, relay>>
  BY DEF Outbox!RenameCategory
<1>2. /\ product' \in [Product -> ProductRow]
      /\ \A p \in Product :
           \/ product'[p] = product[p]
           \/ /\ product'[p].state = product[p].state /\ product'[p].renamed
              /\ product'[p].content.rev = product[p].content.rev
  <2> DEFINE renamed == {p \in Product : Outbox!Live(p) /\ product[p].content.category = old}
             changed(p) == [product[p] EXCEPT !.content.category = new, !.renamed = TRUE]
  <2>1. product' = [p \in Product |-> IF p \in renamed THEN changed(p) ELSE product[p]]
    BY DEF Outbox!RenameCategory
  <2>2. ASSUME NEW p \in Product
        PROVE  /\ changed(p) \in ProductRow /\ product[p] \in ProductRow
               /\ changed(p).state = product[p].state /\ changed(p).renamed
               /\ changed(p).content.rev = product[p].content.rev
    <3>1. product[p] \in ProductRow
      BY <1>0 DEF OutboxTypes
    <3>2. PICK content : content = [product[p].content EXCEPT !.category = new]
      OBVIOUS
    <3>3. content \in Outbox!Content /\ content.rev = product[p].content.rev
      BY <3>1, <3>2 DEF ProductRow, Outbox!Content
    <3>4. changed(p) = [product[p] EXCEPT !.content = content, !.renamed = TRUE]
      BY <3>1, <3>2
    <3> HIDE DEF changed
    <3> QED BY <3>1, <3>3, <3>4 DEF ProductRow
  <2> HIDE DEF changed, renamed
  <2> QED BY <2>1, <2>2
<1>3. Told'
  <2>1. SUFFICES ASSUME NEW p \in Product
        PROVE  IF product'[p].state = "unborn"
                 THEN \A i \in 1..Len(outbox') : outbox'[i].product # p
                 ELSE \E i \in 1..Len(outbox') : Newest(i, p)' /\ Tells(outbox'[i], product'[p])
    BY DEF Told
  <2>2. product'[p].state = product[p].state
    BY <1>2
  <2>3. CASE product[p].state = "unborn"
    BY <1>0, <1>1, <2>2, <2>3 DEF Told
  <2>4. CASE product[p].state # "unborn"
    <3>1. PICK i \in 1..Len(outbox) : Newest(i, p) /\ Tells(outbox[i], product[p])
      BY <1>0, <2>4 DEF Told
    <3>2. Newest(i, p)'
      BY <1>1, <3>1 DEF Newest
    <3>3. Tells(outbox[i], product'[p])
      BY <1>2, <3>1 DEF Tells
    <3> QED BY <1>1, <2>2, <2>4, <3>2, <3>3
  <2> QED BY <2>3, <2>4
<1>4. OutboxTypes' /\ RelayInv'
  BY <1>0, <1>1, <1>2 DEF OutboxTypes, RelayInv, RelaysInv, ClaimsDiffer, PublishedInv
<1>5. Outbox!StockHasItsProduct'
  BY <1>0, <1>1, <1>2 DEF Outbox!StockHasItsProduct, Outbox!Rows, Outbox!Live
<1> QED BY <1>3, <1>4, <1>5 DEF OutboxInv

\* A product is deleted only without stock rows.
LEMMA DeleteInv ==
  ASSUME OutboxInv, Outbox!OutboxAssumption, NEW a \in Admin, Outbox!DeleteProduct(a)
  PROVE  OutboxInv'
<1>0. OutboxTypes /\ Told /\ RelayInv /\ Outbox!StockHasItsProduct
  BY DEF OutboxInv
<1>1. PICK p \in Product : p = request[a].product
  BY <1>0 DEF OutboxTypes, Outbox!DeleteProduct
<1>2. /\ request' = [request EXCEPT ![a] = Outbox!NoRequest]
      /\ UNCHANGED <<stock, sent, relay>>
  BY DEF Outbox!DeleteProduct, Outbox!Answer
<1>3. /\ request' \in [Admin -> RequestRow]
      /\ \A b \in Admin : request'[b].step # "none" => request'[b] = request[b]
  <2>1. Outbox!NoRequest \in RequestRow /\ Outbox!NoRequest.step = "none"
    BY DEF Outbox!NoRequest, RequestRow
  <2> QED BY <1>0, <1>2, <2>1 DEF OutboxTypes
<1>4. CASE Outbox!Live(p) /\ Outbox!Rows(p) = {}
  <2>1. /\ product' = [product EXCEPT ![p] = Outbox!Deleted]
        /\ Outbox!Enqueue(p, "deleted", Outbox!Nothing)
    BY <1>1, <1>4 DEF Outbox!DeleteProduct
  <2>2. Outbox!Nothing \in Outbox!Content
        /\ Outbox!Deleted \in ProductRow /\ Outbox!Deleted.state = "deleted"
    BY DEF Outbox!Deleted, Outbox!Unborn, Outbox!Nothing, Outbox!Content, ProductRow
  <2>3. outbox' \in Seq(Outbox!EventRow) /\ Len(outbox') <= MaxEvents
    BY <1>0, <2>1, <2>2, EnqueueAdds
  <2>4. RelayInv' /\ sent' \subseteq 1..Len(outbox')
    BY <1>0, <1>2, <2>1, <2>2, EnqueueRelayInv
  <2>5. Told'
    BY <1>0, <2>1, <2>2, EnqueueTold
  <2>6. OutboxTypes'
    BY <1>0, <1>2, <1>3, <2>1, <2>2, <2>3, <2>4 DEF OutboxTypes
  <2>7. Outbox!StockHasItsProduct'
    BY <1>0, <1>2, <1>4, <2>1 DEF OutboxTypes, Outbox!StockHasItsProduct, Outbox!Rows, Outbox!Live
  <2> QED BY <2>4, <2>5, <2>6, <2>7 DEF OutboxInv
<1>5. CASE ~(Outbox!Live(p) /\ Outbox!Rows(p) = {})
  <2>1. UNCHANGED <<product, outbox>>
    BY <1>1, <1>5 DEF Outbox!DeleteProduct
  <2>2. OutboxTypes'
    BY <1>0, <1>2, <1>3, <2>1 DEF OutboxTypes
  <2>3. Told' /\ RelayInv'
    BY <1>0, <1>2, <2>1 DEF Told, Newest, RelayInv, RelaysInv, ClaimsDiffer, PublishedInv
  <2>4. Outbox!StockHasItsProduct'
    BY <1>0, <1>2, <2>1 DEF Outbox!StockHasItsProduct, Outbox!Rows, Outbox!Live
  <2> QED BY <2>2, <2>3, <2>4 DEF OutboxInv
<1> QED BY <1>4, <1>5

\* A request is taken in, goes on or is answered: catalog and relays stay.
LEMMA RequestInv ==
  ASSUME OutboxInv, UNCHANGED <<product, stock, outbox, sent, relay>>,
         NEW a \in Admin, NEW entry \in RequestRow, request' = [request EXCEPT ![a] = entry],
         entry.step # "none" =>
           /\ entry.product \in Product
           /\ entry.op = "set" => entry.variant \in Variant
  PROVE  OutboxInv'
<1>0. OutboxTypes /\ Told /\ RelayInv /\ Outbox!StockHasItsProduct
  BY DEF OutboxInv
<1>1. OutboxTypes'
  BY <1>0 DEF OutboxTypes
<1>2. Told' /\ RelayInv'
  BY <1>0 DEF Told, Newest, RelayInv, RelaysInv, ClaimsDiffer, PublishedInv
<1>3. Outbox!StockHasItsProduct'
  BY <1>0 DEF Outbox!StockHasItsProduct, Outbox!Rows, Outbox!Live
<1> QED BY <1>1, <1>2, <1>3 DEF OutboxInv

\* The checks before the writes, each in a transaction of its own.
LEMMA ChecksInv ==
  ASSUME OutboxInv, NEW a \in Admin,
         \/ \E p \in Product, v \in Variant, zero \in BOOLEAN : Outbox!Request(a, "set", p, v, zero)
         \/ \E p \in Product : Outbox!Request(a, "delete", p, "none", FALSE)
         \/ Outbox!CheckDelete(a) \/ Outbox!CheckSet(a) \/ Outbox!CheckRetired(a)
  PROVE  OutboxInv'
<1>0. request[a] \in RequestRow /\ request \in [Admin -> RequestRow]
      /\ (request[a].step # "none" =>
            /\ request[a].product \in Product
            /\ request[a].op = "set" => request[a].variant \in Variant)
  BY DEF OutboxInv, OutboxTypes
<1>1. ASSUME NEW p \in Product, NEW v \in Variant, NEW zero \in BOOLEAN,
             Outbox!Request(a, "set", p, v, zero)
      PROVE  OutboxInv'
  <2>1. PICK entry \in RequestRow :
          entry = [step |-> "check", op |-> "set", product |-> p, variant |-> v, zero |-> zero]
    BY DEF RequestRow
  <2> QED BY <1>1, <2>1, RequestInv DEF Outbox!Request, Outbox!catalogVars
<1>2. ASSUME NEW p \in Product, Outbox!Request(a, "delete", p, "none", FALSE)
      PROVE  OutboxInv'
  <2>1. PICK entry \in RequestRow :
          entry = [step |-> "check", op |-> "delete", product |-> p, variant |-> "none", zero |-> FALSE]
    BY DEF RequestRow
  <2> QED BY <1>2, <2>1, RequestInv DEF Outbox!Request, Outbox!catalogVars
<1>3. ASSUME Outbox!CheckDelete(a) \/ Outbox!CheckSet(a) \/ Outbox!CheckRetired(a)
      PROVE  OutboxInv'
  <2>1. UNCHANGED <<product, stock, outbox, sent, relay>>
    BY <1>3 DEF Outbox!CheckDelete, Outbox!CheckSet, Outbox!CheckRetired, Outbox!catalogVars
  <2>2. CASE Outbox!Answer(a)
    <3>1. Outbox!NoRequest \in RequestRow /\ Outbox!NoRequest.step = "none"
      BY DEF Outbox!NoRequest, RequestRow
    <3> QED BY <2>1, <2>2, <3>1, RequestInv DEF Outbox!Answer
  <2>3. ASSUME NEW doing \in {"retired", "write"}, Outbox!Proceed(a, doing), request[a].step # "none"
        PROVE  OutboxInv'
    <3>1. PICK entry \in RequestRow : entry = [request[a] EXCEPT !.step = doing]
      BY <1>0 DEF RequestRow
    <3>2. entry.product = request[a].product /\ entry.op = request[a].op
          /\ entry.variant = request[a].variant
      BY <1>0, <3>1 DEF RequestRow
    <3>3. request' = [request EXCEPT ![a] = entry]
      BY <1>0, <2>3, <3>1 DEF Outbox!Proceed
    <3> QED BY <1>0, <2>1, <2>3, <3>2, <3>3, RequestInv
  <2> QED BY <1>3, <2>2, <2>3 DEF Outbox!CheckDelete, Outbox!CheckSet, Outbox!CheckRetired
<1> QED BY <1>1, <1>2, <1>3

\* Stock rows come only to products that are there, and trade keeps them.
LEMMA SetStockInv ==
  ASSUME OutboxInv,
         \/ \E a \in Admin : Outbox!SetStock(a)
         \/ \E p \in Product, v \in Variant : Outbox!Trade(p, v)
  PROVE  OutboxInv'
<1>0. OutboxTypes /\ Told /\ RelayInv /\ Outbox!StockHasItsProduct
  BY DEF OutboxInv
<1>1. ASSUME UNCHANGED <<product, outbox, sent, relay>>, request' \in [Admin -> RequestRow],
             \A b \in Admin : request'[b].step # "none" => request'[b] = request[b],
             NEW p \in Product, NEW v \in Variant,
             NEW s \in {"none", "empty", "free", "held"},
             \/ UNCHANGED stock
             \/ stock' = [stock EXCEPT ![<<p, v>>] = s] /\ Outbox!Live(p)
      PROVE  OutboxInv'
  <2>1. OutboxTypes'
    BY <1>0, <1>1 DEF OutboxTypes
  <2>2. Told' /\ RelayInv'
    BY <1>0, <1>1 DEF Told, Newest, RelayInv, RelaysInv, ClaimsDiffer, PublishedInv
  <2>3. Outbox!StockHasItsProduct'
    <3>1. SUFFICES ASSUME NEW q \in Product, NEW w \in Outbox!Rows(q)'
          PROVE  Outbox!Live(q)'
      BY DEF Outbox!StockHasItsProduct
    <3>0. w \in Variant /\ stock'[<<q, w>>] # "none" /\ (Outbox!Live(q) => Outbox!Live(q)')
      BY <1>1, <3>1 DEF Outbox!Rows, Outbox!Live
    <3>2. CASE stock'[<<q, w>>] = stock[<<q, w>>]
      <4>1. w \in Outbox!Rows(q)
        BY <3>0, <3>2 DEF Outbox!Rows
      <4> QED BY <1>0, <3>0, <4>1 DEF Outbox!StockHasItsProduct
    <3>3. CASE stock'[<<q, w>>] # stock[<<q, w>>]
      <4>1. <<q, w>> = <<p, v>>
        BY <1>0, <1>1, <3>0, <3>3 DEF OutboxTypes
      <4> QED BY <1>1, <3>0, <3>3, <4>1
    <3> QED BY <3>0, <3>2, <3>3
  <2> QED BY <2>1, <2>2, <2>3 DEF OutboxInv
<1>2. ASSUME NEW a \in Admin, Outbox!SetStock(a)
      PROVE  OutboxInv'
  <2>1. PICK p \in Product, v \in Variant : p = request[a].product /\ v = request[a].variant
    BY <1>0, <1>2 DEF OutboxTypes, Outbox!SetStock
  <2>2. /\ request' \in [Admin -> RequestRow]
        /\ \A b \in Admin : request'[b].step # "none" => request'[b] = request[b]
    <3>1. Outbox!NoRequest \in RequestRow /\ Outbox!NoRequest.step = "none"
      BY DEF Outbox!NoRequest, RequestRow
    <3> QED BY <1>0, <1>2, <3>1 DEF OutboxTypes, Outbox!SetStock, Outbox!Answer
  <2>3. PICK s \in {"none", "free", "held"} : s = Outbox!Counted(stock[<<p, v>>], request[a].zero)
    BY DEF Outbox!Counted
  <2>4. \/ UNCHANGED stock
        \/ stock' = [stock EXCEPT ![<<p, v>>] = s] /\ Outbox!Live(p)
    BY <1>0, <1>2, <2>1, <2>3 DEF Outbox!SetStock, OutboxTypes
  <2>5. UNCHANGED <<product, outbox, sent, relay>>
    BY <1>2 DEF Outbox!SetStock
  <2> QED BY <1>1, <2>2, <2>4, <2>5
<1>3. ASSUME NEW p \in Product, NEW v \in Variant, Outbox!Trade(p, v)
      PROVE  OutboxInv'
  <2>1. PICK s \in {"held", "free", "empty"} : stock' = [stock EXCEPT ![<<p, v>>] = s]
    BY <1>3 DEF Outbox!Trade
  <2>2. v \in Outbox!Rows(p)
    BY <1>3 DEF Outbox!Trade, Outbox!Rows
  <2>3. Outbox!Live(p)
    BY <1>0, <2>2 DEF Outbox!StockHasItsProduct
  <2>4. UNCHANGED <<product, outbox, sent, relay, request>>
    BY <1>3 DEF Outbox!Trade
  <2> QED BY <1>0, <1>1, <2>1, <2>3, <2>4 DEF OutboxTypes
<1> QED BY <1>2, <1>3
-----------------------------------------------------------------------------
(* The relays *)

\* What an edit of one outbox row leaves: the rows, their order, what they say.
LEMMA EditOfRow ==
  ASSUME OutboxTypes, NEW i \in 1..Len(outbox), NEW entry \in Outbox!EventRow,
         outbox' = [outbox EXCEPT ![i] = entry],
         entry.product = outbox[i].product, entry.topic = outbox[i].topic,
         entry.content = outbox[i].content
  PROVE  /\ outbox' \in Seq(Outbox!EventRow) /\ Len(outbox') = Len(outbox)
         /\ \A k \in 1..Len(outbox) : outbox'[k] = IF k = i THEN entry ELSE outbox[k]
         /\ (Told /\ UNCHANGED product => Told')
<1>1. outbox' \in Seq(Outbox!EventRow) /\ Len(outbox') = Len(outbox)
      /\ \A k \in 1..Len(outbox) : outbox'[k] = IF k = i THEN entry ELSE outbox[k]
  BY DEF OutboxTypes
<1>2. \A k \in 1..Len(outbox) :
        /\ outbox'[k].product = outbox[k].product /\ outbox'[k].topic = outbox[k].topic
        /\ outbox'[k].content = outbox[k].content
  BY <1>1
<1>3. \A p \in Product, k \in 1..Len(outbox) : Newest(k, p) => Newest(k, p)'
  BY <1>1, <1>2 DEF Newest
<1>4. ASSUME Told, UNCHANGED product
      PROVE  Told'
  BY <1>1, <1>2, <1>3, <1>4 DEF Told, Tells
<1> QED BY <1>1, <1>4

\* A step that edits at most one outbox row keeps the invariant if it keeps what
\* the relays rely on.
LEMMA RelayStepInv ==
  ASSUME OutboxInv, UNCHANGED <<product, stock, request>>,
         NEW i \in 1..Len(outbox), NEW entry \in Outbox!EventRow,
         outbox' = [outbox EXCEPT ![i] = entry],
         entry.product = outbox[i].product, entry.topic = outbox[i].topic,
         entry.content = outbox[i].content,
         sent' \subseteq 1..Len(outbox), relay' \in [Replica -> RelayRow],
         RelayInv'
  PROVE  OutboxInv'
<1>0. OutboxTypes /\ Told /\ Outbox!StockHasItsProduct
  BY DEF OutboxInv
<1>1. outbox' \in Seq(Outbox!EventRow) /\ Len(outbox') = Len(outbox) /\ Told'
  BY <1>0, EditOfRow
<1>2. OutboxTypes'
  BY <1>0, <1>1 DEF OutboxTypes
<1>3. Outbox!StockHasItsProduct'
  BY <1>0 DEF Outbox!StockHasItsProduct, Outbox!Rows, Outbox!Live
<1> QED BY <1>1, <1>2, <1>3 DEF OutboxInv

LEMMA QuietOutboxInv ==
  ASSUME OutboxInv, UNCHANGED <<product, stock, request, outbox>>,
         sent' \subseteq 1..Len(outbox), relay' \in [Replica -> RelayRow], RelayInv'
  PROVE  OutboxInv'
<1>1. Told' /\ OutboxTypes'
  BY DEF OutboxInv, Told, Newest, OutboxTypes
<1>2. Outbox!StockHasItsProduct'
  BY DEF OutboxInv, Outbox!StockHasItsProduct, Outbox!Rows, Outbox!Live
<1> QED BY <1>1, <1>2 DEF OutboxInv

\* The types a relay step starts from.
LEMMA RelayFields ==
  ASSUME OutboxInv, NEW r \in Replica
  PROVE  /\ relay \in [Replica -> RelayRow] /\ relay[r] \in RelayRow
         /\ outbox \in Seq(Outbox!EventRow) /\ Len(outbox) \in Nat
         /\ \A i \in 1..Len(outbox) : outbox[i] \in Outbox!EventRow
         /\ sent \subseteq 1..Len(outbox)
         /\ relay[r].step # "idle" => relay[r].event \in 1..Len(outbox)
         /\ OutboxTypes /\ RelaysInv /\ ClaimsDiffer /\ PublishedInv
<1>1. OutboxTypes /\ RelaysInv /\ ClaimsDiffer /\ PublishedInv
  BY DEF OutboxInv, RelayInv
<1>2. outbox \in Seq(Outbox!EventRow) /\ relay \in [Replica -> RelayRow]
  BY <1>1 DEF OutboxTypes
<1>3. sent \subseteq 1..Len(outbox)
  BY <1>1 DEF OutboxTypes
<1> QED BY <1>1, <1>2, <1>3 DEF RelaysInv

\* A relay that gives up or has not claimed yet disturbs no other.
LEMMA RelayLetsGo ==
  ASSUME OutboxInv, NEW r \in Replica, NEW entry \in RelayRow,
         relay' = [relay EXCEPT ![r] = entry],
         \/ entry.step = "idle"
         \/ entry.step = "claim" /\ entry.event \in 1..Len(outbox)
         \/ /\ Holds(relay[r]) /\ entry.step \in {"finish", "fail"}
            /\ entry.event = relay[r].event /\ entry.attempts = relay[r].attempts
            /\ entry.step = "finish" => entry.event \in sent'
         ,
         Len(outbox') = Len(outbox), sent \subseteq sent',
         \A i \in 1..Len(outbox) : outbox'[i].attempts = outbox[i].attempts,
         \A i \in 1..Len(outbox) :
           outbox'[i].status = "PUBLISHED" => outbox[i].status = "PUBLISHED" \/ i \in sent'
  PROVE  RelayInv' /\ relay' \in [Replica -> RelayRow]
<1>0. /\ relay \in [Replica -> RelayRow] /\ relay[r] \in RelayRow
      /\ RelaysInv /\ ClaimsDiffer /\ PublishedInv
      /\ relay[r].step # "idle" => relay[r].event \in 1..Len(outbox)
  BY RelayFields
<1>1. relay'[r] = entry /\ \A s \in Replica \ {r} : relay'[s] = relay[s]
  BY <1>0
<1>2. RelaysInv'
  <2>1. ASSUME NEW s \in Replica
        PROVE  /\ relay'[s].step # "idle" => relay'[s].event \in 1..Len(outbox')
               /\ Holds(relay'[s]) => relay'[s].attempts <= outbox'[relay'[s].event].attempts
               /\ relay'[s].step = "finish" => relay'[s].event \in sent'
    <3>1. CASE s = r
      BY <1>0, <1>1, <3>1 DEF RelaysInv, Holds
    <3>2. CASE s # r
      BY <1>0, <1>1, <3>2 DEF RelaysInv, Holds
    <3> QED BY <3>1, <3>2
  <2> QED BY <2>1 DEF RelaysInv
<1>3. ClaimsDiffer'
  BY <1>0, <1>1 DEF ClaimsDiffer, Holds
<1>4. PublishedInv'
  BY <1>0 DEF PublishedInv
<1> QED BY <1>0, <1>1, <1>2, <1>3, <1>4 DEF RelayInv

\* Reading the oldest claimable row claims nothing yet.
LEMMA ReadInv ==
  ASSUME OutboxInv, NEW r \in Replica, Outbox!Read(r)
  PROVE  OutboxInv'
<1>0. /\ relay \in [Replica -> RelayRow] /\ relay[r] \in RelayRow
      /\ \A i \in 1..Len(outbox) : outbox[i] \in Outbox!EventRow
      /\ Len(outbox) \in Nat /\ sent \subseteq 1..Len(outbox)
  BY RelayFields
<1>1. PICK i \in 1..Len(outbox) :
        /\ relay' = [relay EXCEPT ![r] = [step |-> "claim", event |-> i, attempts |-> outbox[i].attempts]]
        /\ UNCHANGED <<product, stock, outbox, sent, request>>
  BY DEF Outbox!Read, Outbox!catalogVars
<1>2. PICK entry \in RelayRow : entry = [step |-> "claim", event |-> i, attempts |-> outbox[i].attempts]
  <2>1. outbox[i].attempts \in Nat /\ i \in Nat
    BY <1>0 DEF Outbox!EventRow
  <2> QED BY <2>1 DEF RelayRow
<1>3. RelayInv' /\ relay' \in [Replica -> RelayRow]
  BY <1>1, <1>2, RelayLetsGo
<1> QED BY <1>0, <1>1, <1>3, QuietOutboxInv

\* A claim takes a number nobody has had for this event.
LEMMA ClaimInv ==
  ASSUME OutboxInv, NEW r \in Replica, Outbox!Claim(r)
  PROVE  OutboxInv'
<1>0. /\ relay \in [Replica -> RelayRow] /\ relay[r] \in RelayRow
      /\ outbox \in Seq(Outbox!EventRow) /\ Len(outbox) \in Nat
      /\ \A k \in 1..Len(outbox) : outbox[k] \in Outbox!EventRow
      /\ sent \subseteq 1..Len(outbox)
      /\ OutboxTypes /\ RelaysInv /\ ClaimsDiffer /\ PublishedInv
  BY RelayFields
<1>1. PICK i \in 1..Len(outbox) : i = relay[r].event
  BY RelayFields DEF Outbox!Claim
<1>2. UNCHANGED <<product, stock, sent, request>>
  BY DEF Outbox!Claim
<1>3. CASE Outbox!Claimable(outbox[i]) /\ outbox[i].attempts = relay[r].attempts
  <2>1. PICK n \in Nat : n = relay[r].attempts + 1
    BY <1>0 DEF RelayRow
  <2>2. /\ outbox' = [outbox EXCEPT ![i].status = "PUBLISHING", ![i].attempts = n, ![i].lapsed = FALSE]
        /\ relay' = [relay EXCEPT ![r].step = "send", ![r].attempts = n]
    BY <1>1, <1>3, <2>1 DEF Outbox!Claim
  <2>3. PICK event \in Outbox!EventRow :
          event = [outbox[i] EXCEPT !.status = "PUBLISHING", !.attempts = n, !.lapsed = FALSE]
    BY <1>0 DEF Outbox!EventRow
  <2>4. /\ event.product = outbox[i].product /\ event.topic = outbox[i].topic
        /\ event.content = outbox[i].content
        /\ event.status = "PUBLISHING" /\ event.attempts = n
    BY <1>0, <2>3 DEF Outbox!EventRow
  <2>5. outbox' = [outbox EXCEPT ![i] = event]
    BY <1>0, <2>2, <2>3
  <2>6. PICK entry \in RelayRow : entry = [relay[r] EXCEPT !.step = "send", !.attempts = n]
    BY <1>0 DEF RelayRow
  <2>7. entry.step = "send" /\ entry.event = i /\ entry.attempts = n
    BY <1>0, <1>1, <2>6 DEF RelayRow
  <2>8. relay' = [relay EXCEPT ![r] = entry]
    BY <1>0, <2>2, <2>6
  <2>9. relay' \in [Replica -> RelayRow] /\ relay'[r] = entry
        /\ \A s \in Replica \ {r} : relay'[s] = relay[s]
    BY <1>0, <2>8
  <2>10. Len(outbox') = Len(outbox)
         /\ \A k \in 1..Len(outbox) : outbox'[k] = IF k = i THEN event ELSE outbox[k]
    BY <1>0, <2>4, <2>5, EditOfRow
  <2>11. outbox[i].attempts = n - 1
    BY <1>0, <1>3, <2>1 DEF RelayRow
  <2>12. \A k \in 1..Len(outbox) : outbox[k].attempts \in Nat /\ outbox[k].attempts <= outbox'[k].attempts
    BY <1>0, <2>4, <2>10, <2>11 DEF Outbox!EventRow
  <2>13. RelaysInv'
    <3>1. ASSUME NEW s \in Replica
          PROVE  /\ relay'[s].step # "idle" => relay'[s].event \in 1..Len(outbox')
                 /\ Holds(relay'[s]) => relay'[s].attempts <= outbox'[relay'[s].event].attempts
                 /\ relay'[s].step = "finish" => relay'[s].event \in sent'
      <4>1. CASE s = r
        BY <2>1, <2>4, <2>7, <2>9, <2>10, <4>1
      <4>2. CASE s # r
        <5>1. relay'[s] = relay[s] /\ relay[s].attempts \in Nat
          BY <1>0, <2>9, <4>2 DEF RelayRow
        <5>2. Holds(relay[s]) => relay[s].event \in 1..Len(outbox)
          BY <1>0 DEF RelaysInv, Holds
        <5>3. Holds(relay[s]) => relay[s].attempts <= outbox'[relay[s].event].attempts
          <6>1. SUFFICES ASSUME Holds(relay[s])
                PROVE  relay[s].attempts <= outbox'[relay[s].event].attempts
            OBVIOUS
          <6>2. relay[s].attempts <= outbox[relay[s].event].attempts
            BY <1>0, <6>1 DEF RelaysInv
          <6>3. PICK k \in 1..Len(outbox) : k = relay[s].event
            BY <5>2, <6>1
          <6>4. outbox'[k].attempts \in Nat
            BY <1>0, <2>4, <2>10, <2>1 DEF Outbox!EventRow
          <6> QED BY <2>12, <5>1, <6>2, <6>3, <6>4
        <5> QED BY <1>0, <1>2, <2>10, <5>1, <5>3 DEF RelaysInv
      <4> QED BY <4>1, <4>2
    <3> QED BY <3>1 DEF RelaysInv
  <2>14. ClaimsDiffer'
    <3>1. \A s \in Replica : Holds(relay[s]) /\ relay[s].event = i => relay[s].attempts < n
      BY <1>0, <2>11 DEF RelaysInv, RelayRow, Outbox!EventRow
    <3> QED BY <1>0, <2>7, <2>9, <3>1 DEF ClaimsDiffer
  <2>15. PublishedInv'
    BY <1>0, <1>2, <2>4, <2>10 DEF PublishedInv
  <2> QED BY <1>0, <1>2, <2>4, <2>5, <2>9, <2>13, <2>14, <2>15, RelayStepInv DEF RelayInv
<1>4. CASE ~(Outbox!Claimable(outbox[i]) /\ outbox[i].attempts = relay[r].attempts)
  <2>1. relay' = [relay EXCEPT ![r] = Outbox!IdleRelay] /\ UNCHANGED outbox
    BY <1>1, <1>4 DEF Outbox!Claim
  <2>2. PICK entry \in RelayRow : entry = Outbox!IdleRelay
    BY DEF Outbox!IdleRelay, RelayRow
  <2>3. entry.step = "idle"
    BY <2>2 DEF Outbox!IdleRelay
  <2>4. RelayInv' /\ relay' \in [Replica -> RelayRow]
    BY <1>2, <2>1, <2>2, <2>3, RelayLetsGo
  <2> QED BY <1>0, <1>2, <2>1, <2>4, QuietOutboxInv
<1> QED BY <1>3, <1>4

\* Kafka takes the record, and the relay knows, or does not.
LEMMA SendInv ==
  ASSUME OutboxInv, NEW r \in Replica, Outbox!Send(r) \/ Outbox!SendFails(r) \/ Outbox!Abandon(r)
  PROVE  OutboxInv'
<1>0. /\ relay \in [Replica -> RelayRow] /\ relay[r] \in RelayRow
      /\ sent \subseteq 1..Len(outbox)
      /\ relay[r].step # "idle" => relay[r].event \in 1..Len(outbox)
  BY RelayFields
<1>1. UNCHANGED <<product, stock, outbox, request>>
  BY DEF Outbox!Send, Outbox!SendFails, Outbox!Abandon, Outbox!catalogVars
<1>2. sent \subseteq sent' /\ sent' \subseteq 1..Len(outbox)
  BY <1>0 DEF Outbox!Send, Outbox!SendFails, Outbox!Abandon
<1>3. ASSUME NEW doing \in {"finish", "fail"}, relay[r].step = "send",
             relay' = [relay EXCEPT ![r].step = doing],
             doing = "finish" => relay[r].event \in sent'
      PROVE  OutboxInv'
  <2>1. PICK entry \in RelayRow : entry = [relay[r] EXCEPT !.step = doing]
    BY <1>0 DEF RelayRow
  <2>2. entry.step = doing /\ entry.event = relay[r].event /\ entry.attempts = relay[r].attempts
    BY <1>0, <2>1 DEF RelayRow
  <2>3. relay' = [relay EXCEPT ![r] = entry]
    BY <1>0, <1>3, <2>1
  <2>4. RelayInv' /\ relay' \in [Replica -> RelayRow]
    BY <1>1, <1>2, <1>3, <2>2, <2>3, RelayLetsGo DEF Holds
  <2> QED BY <1>1, <1>2, <2>4, QuietOutboxInv
<1>4. CASE Outbox!Send(r)
  BY <1>3, <1>4 DEF Outbox!Send
<1>5. CASE Outbox!SendFails(r)
  BY <1>3, <1>5 DEF Outbox!SendFails
<1>6. CASE Outbox!Abandon(r)
  <2>1. PICK entry \in RelayRow : entry = Outbox!IdleRelay
    BY DEF Outbox!IdleRelay, RelayRow
  <2>2. entry.step = "idle" /\ relay' = [relay EXCEPT ![r] = entry]
    BY <1>6, <2>1 DEF Outbox!IdleRelay, Outbox!Abandon
  <2>3. RelayInv' /\ relay' \in [Replica -> RelayRow]
    BY <1>1, <1>2, <2>2, RelayLetsGo
  <2> QED BY <1>1, <1>2, <2>3, QuietOutboxInv
<1> QED BY <1>4, <1>5, <1>6
\* An edit that leaves a row's number, and publishes it only when Kafka took it,
\* disturbs no relay.
LEMMA EditInv ==
  ASSUME OutboxInv, UNCHANGED <<product, stock, request, sent>>,
         NEW i \in 1..Len(outbox), NEW event \in Outbox!EventRow,
         outbox' = [outbox EXCEPT ![i] = event],
         event.product = outbox[i].product, event.topic = outbox[i].topic,
         event.content = outbox[i].content,
         event.attempts = outbox[i].attempts,
         event.status = "PUBLISHED" => outbox[i].status = "PUBLISHED" \/ i \in sent,
         \/ UNCHANGED relay
         \/ \E r \in Replica, entry \in RelayRow :
              /\ relay' = [relay EXCEPT ![r] = entry]
              /\ \/ entry.step = "idle"
                 \/ /\ Holds(relay[r]) /\ entry.step = "fail"
                    /\ entry.event = relay[r].event /\ entry.attempts = relay[r].attempts
  PROVE  OutboxInv'
<1>0. OutboxTypes /\ RelayInv /\ sent \subseteq 1..Len(outbox) /\ relay \in [Replica -> RelayRow]
  BY DEF OutboxInv, OutboxTypes
<1>1. Len(outbox') = Len(outbox)
      /\ \A k \in 1..Len(outbox) : outbox'[k] = IF k = i THEN event ELSE outbox[k]
  BY <1>0, EditOfRow
<1>2. /\ \A k \in 1..Len(outbox) : outbox'[k].attempts = outbox[k].attempts
      /\ \A k \in 1..Len(outbox) :
           outbox'[k].status = "PUBLISHED" => outbox[k].status = "PUBLISHED" \/ k \in sent'
  BY <1>1
<1>3. RelayInv' /\ relay' \in [Replica -> RelayRow]
  <2>1. CASE UNCHANGED relay
    BY <1>0, <1>1, <1>2, <2>1 DEF RelayInv, RelaysInv, ClaimsDiffer, PublishedInv, Holds
  <2>2. ASSUME NEW r \in Replica, NEW entry \in RelayRow,
               relay' = [relay EXCEPT ![r] = entry],
               \/ entry.step = "idle"
               \/ /\ Holds(relay[r]) /\ entry.step = "fail"
                  /\ entry.event = relay[r].event /\ entry.attempts = relay[r].attempts
        PROVE  RelayInv' /\ relay' \in [Replica -> RelayRow]
    BY <1>1, <1>2, <2>2, RelayLetsGo
  <2> QED BY <2>1, <2>2
<1> QED BY <1>0, <1>3, RelayStepInv

\* What one step may do to the outbox and to what Kafka holds.
OwnerEnds(i, status) ==
  /\ outbox[i].status = "PUBLISHING"
  /\ status = "PENDING" \/ (status = "PUBLISHED" /\ i \in sent)
  /\ \E r \in Replica :
       /\ Holds(relay[r]) /\ relay[r].event = i /\ relay[r].attempts = outbox[i].attempts
       /\ relay'[r] # relay[r]
OutboxEffect ==
  \/ \E p \in Product, topic \in {"created", "updated", "deleted"}, content \in Outbox!Content :
       Outbox!Enqueue(p, topic, content) /\ UNCHANGED sent
  \/ /\ UNCHANGED outbox
     /\ UNCHANGED sent \/ \E i \in 1..Len(outbox) : sent' = sent \union {i}
  \/ /\ UNCHANGED sent
     /\ \E i \in 1..Len(outbox), event \in Outbox!EventRow :
          /\ outbox' = [outbox EXCEPT ![i] = event]
          /\ \/ event.status = outbox[i].status
             \/ event.status = "PUBLISHING" /\ outbox[i].status # "PUBLISHED"
             \/ OwnerEnds(i, event.status)

\* A row that a relay still owns is published, or pending again.
LEMMA OwnedEnds ==
  ASSUME OutboxInv, NEW r \in Replica, NEW later, later # relay[r].step,
         NEW status \in {"PENDING", "PUBLISHED"}, NEW available \in BOOLEAN,
         Holds(relay[r]), Outbox!OwnedEvent(r),
         outbox' = [outbox EXCEPT ![relay[r].event] =
                      [@ EXCEPT !.status = status, !.lapsed = FALSE, !.available = available]],
         status = "PUBLISHED" => relay[r].step = "finish",
         relay' = [relay EXCEPT ![r] = IF later = "idle" THEN Outbox!IdleRelay ELSE [@ EXCEPT !.step = later]],
         later \in {"idle", "fail"}, UNCHANGED <<product, stock, request, sent>>
  PROVE  OutboxInv' /\ OutboxEffect
<1>0. /\ relay \in [Replica -> RelayRow] /\ relay[r] \in RelayRow
      /\ \A k \in 1..Len(outbox) : outbox[k] \in Outbox!EventRow
      /\ relay[r].step # "idle" => relay[r].event \in 1..Len(outbox)
      /\ RelaysInv
  BY RelayFields
<1>1. PICK i \in 1..Len(outbox) : i = relay[r].event
  BY <1>0 DEF Holds
<1>2. PICK event \in Outbox!EventRow :
        event = [outbox[i] EXCEPT !.status = status, !.lapsed = FALSE, !.available = available]
  BY <1>0 DEF Outbox!EventRow
<1>3. /\ event.product = outbox[i].product /\ event.topic = outbox[i].topic
      /\ event.content = outbox[i].content
      /\ event.attempts = outbox[i].attempts /\ event.status = status
  BY <1>0, <1>2 DEF Outbox!EventRow
<1>4. outbox' = [outbox EXCEPT ![i] = event]
  BY <1>1, <1>2
<1>5. status = "PUBLISHED" => i \in sent
  BY <1>0, <1>1 DEF RelaysInv
<1>6. PICK entry \in RelayRow :
        entry = IF later = "idle" THEN Outbox!IdleRelay ELSE [relay[r] EXCEPT !.step = later]
  <2>1. Outbox!IdleRelay \in RelayRow /\ [relay[r] EXCEPT !.step = "fail"] \in RelayRow
    BY <1>0 DEF Outbox!IdleRelay, RelayRow
  <2> QED BY <2>1
<1>7. /\ entry.step = later
      /\ later = "fail" => entry.event = relay[r].event /\ entry.attempts = relay[r].attempts
  BY <1>0, <1>6 DEF Outbox!IdleRelay, RelayRow
<1>8. relay' = [relay EXCEPT ![r] = entry]
  BY <1>6
<1>9. OutboxInv'
  <2>1. \/ entry.step = "idle"
        \/ /\ Holds(relay[r]) /\ entry.step = "fail"
           /\ entry.event = relay[r].event /\ entry.attempts = relay[r].attempts
    BY <1>7
  <2>2. event.status = "PUBLISHED" => i \in sent
    BY <1>3, <1>5
  <2>3. \E q \in Replica, new \in RelayRow :
          /\ relay' = [relay EXCEPT ![q] = new]
          /\ \/ new.step = "idle"
             \/ /\ Holds(relay[q]) /\ new.step = "fail"
                /\ new.event = relay[q].event /\ new.attempts = relay[q].attempts
    BY <1>8, <2>1
  <2> QED BY <1>3, <1>4, <2>2, <2>3, EditInv
<1>10. relay'[r] # relay[r]
  BY <1>0, <1>7, <1>8
<1>11. OwnerEnds(i, event.status)
  BY <1>1, <1>3, <1>5, <1>10 DEF OwnerEnds, Outbox!OwnedEvent
<1> QED BY <1>4, <1>9, <1>11 DEF OutboxEffect

\* A relay that lost its row meanwhile leaves it alone.
LEMMA NotOwnedEnds ==
  ASSUME OutboxInv, NEW r \in Replica, Holds(relay[r]),
         UNCHANGED <<product, stock, request, sent, outbox>>,
         \/ relay' = [relay EXCEPT ![r] = Outbox!IdleRelay]
         \/ relay' = [relay EXCEPT ![r].step = "fail"]
  PROVE  OutboxInv' /\ OutboxEffect
<1>0. /\ relay \in [Replica -> RelayRow] /\ relay[r] \in RelayRow /\ sent \subseteq 1..Len(outbox)
  BY RelayFields
<1>1. PICK entry \in RelayRow :
        /\ relay' = [relay EXCEPT ![r] = entry]
        /\ \/ entry.step = "idle"
           \/ entry.step = "fail" /\ entry.event = relay[r].event /\ entry.attempts = relay[r].attempts
  <2>1. CASE relay' = [relay EXCEPT ![r] = Outbox!IdleRelay]
    <3>1. Outbox!IdleRelay \in RelayRow /\ Outbox!IdleRelay.step = "idle"
      BY DEF Outbox!IdleRelay, RelayRow
    <3> QED BY <2>1, <3>1
  <2>2. CASE relay' = [relay EXCEPT ![r].step = "fail"]
    <3>1. PICK entry \in RelayRow : entry = [relay[r] EXCEPT !.step = "fail"]
      BY <1>0 DEF RelayRow
    <3>2. entry.step = "fail" /\ entry.event = relay[r].event /\ entry.attempts = relay[r].attempts
      BY <1>0, <3>1 DEF RelayRow
    <3>3. relay' = [relay EXCEPT ![r] = entry]
      BY <1>0, <2>2, <3>1
    <3> QED BY <3>2, <3>3
  <2> QED BY <2>1, <2>2
<1>2. RelayInv' /\ relay' \in [Replica -> RelayRow]
  BY <1>1, RelayLetsGo
<1> QED BY <1>0, <1>2, QuietOutboxInv DEF OutboxEffect

\* The ways a publish ends.
LEMMA EndInv ==
  ASSUME OutboxInv, NEW r \in Replica,
         Outbox!Finish(r) \/ Outbox!FinishFails(r) \/ Outbox!Fail(r)
  PROVE  OutboxInv' /\ OutboxEffect
<1>0. /\ relay \in [Replica -> RelayRow] /\ relay[r] \in RelayRow
      /\ outbox \in Seq(Outbox!EventRow)
      /\ \A k \in 1..Len(outbox) : outbox[k] \in Outbox!EventRow
      /\ relay[r].step # "idle" => relay[r].event \in 1..Len(outbox)
  BY RelayFields
<1>1. Holds(relay[r]) /\ UNCHANGED <<product, stock, request, sent>>
  BY DEF Holds, Outbox!Finish, Outbox!FinishFails, Outbox!Fail
<1>2. \/ relay' = [relay EXCEPT ![r] = Outbox!IdleRelay]
      \/ relay' = [relay EXCEPT ![r].step = "fail"]
  BY DEF Outbox!Finish, Outbox!FinishFails, Outbox!Fail
<1>3. CASE UNCHANGED outbox
  BY <1>1, <1>2, <1>3, NotOwnedEnds
<1>4. CASE Outbox!Fail(r) /\ Outbox!OwnedEvent(r)
  <2>1. PICK i \in 1..Len(outbox) : i = relay[r].event
    BY <1>0, <1>1 DEF Holds
  <2>2. relay' = [relay EXCEPT ![r] = Outbox!IdleRelay] /\ relay[r].step = "fail"
    BY <1>4 DEF Outbox!Fail
  <2>3. outbox' = [outbox EXCEPT ![i] = [@ EXCEPT !.status = "PENDING", !.lapsed = FALSE, !.available = FALSE]]
    BY <1>0, <1>4, <2>1 DEF Outbox!Fail
  <2> QED BY <1>1, <1>4, <2>1, <2>2, <2>3, OwnedEnds
<1>5. CASE (Outbox!Finish(r) \/ Outbox!FinishFails(r)) /\ Outbox!Published(r) /\ Outbox!OwnedEvent(r)
  <2>1. PICK i \in 1..Len(outbox) : i = relay[r].event
    BY <1>0, <1>1 DEF Holds
  <2>2. relay[r].step = "finish"
    BY <1>5 DEF Outbox!Finish, Outbox!FinishFails
  <2>3. outbox' = [outbox EXCEPT ![i].status = "PUBLISHED", ![i].lapsed = FALSE]
    BY <1>5, <2>1 DEF Outbox!Published
  <2>4. PICK available \in BOOLEAN : available = outbox[i].available
    BY <1>0 DEF Outbox!EventRow
  <2>5. outbox' = [outbox EXCEPT ![i] = [@ EXCEPT !.status = "PUBLISHED", !.lapsed = FALSE, !.available = available]]
    BY <1>0, <2>3, <2>4 DEF Outbox!EventRow
  <2>6. CASE relay' = [relay EXCEPT ![r] = Outbox!IdleRelay]
    BY <1>1, <1>5, <2>1, <2>2, <2>5, <2>6, OwnedEnds
  <2>7. CASE relay' = [relay EXCEPT ![r].step = "fail"]
    <3>1. relay' = [relay EXCEPT ![r] = [@ EXCEPT !.step = "fail"]]
      BY <1>0, <2>7
    <3> QED BY <1>1, <1>5, <2>1, <2>2, <2>5, <3>1, OwnedEnds
  <2> QED BY <1>2, <2>6, <2>7
<1>6. \/ UNCHANGED outbox
      \/ Outbox!Fail(r) /\ Outbox!OwnedEvent(r)
      \/ (Outbox!Finish(r) \/ Outbox!FinishFails(r)) /\ Outbox!Published(r) /\ Outbox!OwnedEvent(r)
  BY DEF Outbox!Finish, Outbox!FinishFails, Outbox!Fail, Outbox!Published
<1> QED BY <1>3, <1>4, <1>5, <1>6

\* Leases and delays run out.
LEMMA TimeInv ==
  ASSUME OutboxInv, NEW i \in 1..MaxEvents, Outbox!Lapse(i) \/ Outbox!DelayEnds(i),
         Outbox!OutboxAssumption
  PROVE  OutboxInv' /\ OutboxEffect
<1>0. /\ outbox \in Seq(Outbox!EventRow) /\ Len(outbox) \in Nat
      /\ \A k \in 1..Len(outbox) : outbox[k] \in Outbox!EventRow
  BY DEF OutboxInv, OutboxTypes
<1>1. i \in 1..Len(outbox) /\ UNCHANGED <<product, stock, request, sent, relay>>
  BY <1>0 DEF Outbox!Lapse, Outbox!DelayEnds, Outbox!OutboxAssumption
<1>2. PICK event \in Outbox!EventRow :
        /\ outbox' = [outbox EXCEPT ![i] = event]
        /\ event.product = outbox[i].product /\ event.topic = outbox[i].topic
        /\ event.content = outbox[i].content
        /\ event.attempts = outbox[i].attempts /\ event.status = outbox[i].status
  <2>1. CASE Outbox!Lapse(i)
    <3>1. PICK event \in Outbox!EventRow : event = [outbox[i] EXCEPT !.lapsed = TRUE]
      BY <1>0, <1>1 DEF Outbox!EventRow
    <3>2. /\ event.product = outbox[i].product /\ event.topic = outbox[i].topic
          /\ event.content = outbox[i].content
          /\ event.attempts = outbox[i].attempts /\ event.status = outbox[i].status
      BY <1>0, <1>1, <3>1 DEF Outbox!EventRow
    <3>3. outbox' = [outbox EXCEPT ![i] = event]
      BY <1>0, <1>1, <2>1, <3>1 DEF Outbox!Lapse
    <3> QED BY <3>2, <3>3
  <2>2. CASE Outbox!DelayEnds(i)
    <3>1. PICK event \in Outbox!EventRow : event = [outbox[i] EXCEPT !.available = TRUE]
      BY <1>0, <1>1 DEF Outbox!EventRow
    <3>2. /\ event.product = outbox[i].product /\ event.topic = outbox[i].topic
          /\ event.content = outbox[i].content
          /\ event.attempts = outbox[i].attempts /\ event.status = outbox[i].status
      BY <1>0, <1>1, <3>1 DEF Outbox!EventRow
    <3>3. outbox' = [outbox EXCEPT ![i] = event]
      BY <1>0, <1>1, <2>2, <3>1 DEF Outbox!DelayEnds
    <3> QED BY <3>2, <3>3
  <2> QED BY <2>1, <2>2
<1>3. OutboxInv'
  BY <1>1, <1>2, EditInv
<1> QED BY <1>1, <1>2, <1>3 DEF OutboxEffect

\* Steps outside the relays, and those that send, change the outbox at most by
\* an event that is added, and Kafka's records at most by one.
LEMMA OtherEffects ==
  ASSUME OutboxInv,
         \/ \E p \in Product, variants \in SUBSET Variant, category \in Category :
              \/ Outbox!CreateProduct(p, variants, category)
              \/ Outbox!UpdateProduct(p, variants, category)
         \/ \E old, new \in Category : Outbox!RenameCategory(old, new)
         \/ \E a \in Admin : Outbox!AdminStep(a)
         \/ \E a \in Admin, p \in Product, v \in Variant, zero \in BOOLEAN :
              Outbox!Request(a, "set", p, v, zero)
         \/ \E a \in Admin, p \in Product : Outbox!Request(a, "delete", p, "none", FALSE)
         \/ \E p \in Product, v \in Variant : Outbox!Trade(p, v)
         \/ \E r \in Replica :
              \/ Outbox!Read(r) \/ Outbox!Send(r) \/ Outbox!SendFails(r) \/ Outbox!Abandon(r)
  PROVE  OutboxEffect
<1>1. ASSUME NEW p \in Product, NEW variants \in SUBSET Variant, NEW category \in Category,
             \/ Outbox!CreateProduct(p, variants, category)
             \/ Outbox!UpdateProduct(p, variants, category)
      PROVE  OutboxEffect
  <2>1. PICK topic \in {"created", "updated"} : Outbox!Write(p, topic, variants, category)
    BY <1>1 DEF Outbox!CreateProduct, Outbox!UpdateProduct
  <2>2. PICK content : content = [rev |-> product[p].content.rev + 1, category |-> category]
    OBVIOUS
  <2>3. content \in Outbox!Content
    BY <2>2 DEF OutboxInv, OutboxTypes, ProductRow, Outbox!Content
  <2> QED BY <2>1, <2>2, <2>3 DEF Outbox!Write, OutboxEffect
<1>2. ASSUME NEW a \in Admin, Outbox!AdminStep(a)
      PROVE  OutboxEffect
  <2>1. CASE Outbox!DeleteProduct(a)
    <3>1. request[a].product \in Product
      BY <2>1 DEF OutboxInv, OutboxTypes, Outbox!DeleteProduct
    <3>2. Outbox!Nothing \in Outbox!Content
      BY DEF Outbox!Nothing, Outbox!Content
    <3> QED BY <2>1, <3>1, <3>2 DEF Outbox!DeleteProduct, OutboxEffect
  <2>2. CASE \/ Outbox!CheckDelete(a) \/ Outbox!CheckSet(a)
             \/ Outbox!CheckRetired(a) \/ Outbox!SetStock(a)
    BY <2>2 DEF Outbox!CheckDelete, Outbox!CheckSet, Outbox!CheckRetired, Outbox!SetStock,
                Outbox!catalogVars, OutboxEffect
  <2> QED BY <1>2, <2>1, <2>2 DEF Outbox!AdminStep
<1>3. ASSUME \/ \E a \in Admin, p \in Product, v \in Variant, zero \in BOOLEAN :
                  Outbox!Request(a, "set", p, v, zero)
             \/ \E a \in Admin, p \in Product : Outbox!Request(a, "delete", p, "none", FALSE)
             \/ \E p \in Product, v \in Variant : Outbox!Trade(p, v)
             \/ \E old, new \in Category : Outbox!RenameCategory(old, new)
      PROVE  OutboxEffect
  BY <1>3 DEF Outbox!Request, Outbox!Trade, Outbox!RenameCategory, Outbox!catalogVars, OutboxEffect
<1>4. ASSUME NEW r \in Replica,
             \/ Outbox!Read(r) \/ Outbox!Send(r) \/ Outbox!SendFails(r) \/ Outbox!Abandon(r)
      PROVE  OutboxEffect
  <2>1. relay[r].step # "idle" => relay[r].event \in 1..Len(outbox)
    BY RelayFields
  <2>2. UNCHANGED outbox
    BY <1>4 DEF Outbox!Read, Outbox!Send, Outbox!SendFails, Outbox!Abandon, Outbox!catalogVars
  <2>3. UNCHANGED sent \/ (relay[r].step # "idle" /\ sent' = sent \union {relay[r].event})
    BY <1>4 DEF Outbox!Read, Outbox!Send, Outbox!SendFails, Outbox!Abandon
  <2> QED BY <2>1, <2>2, <2>3 DEF OutboxEffect
<1> QED BY <1>1, <1>2, <1>3, <1>4

\* A claim takes up a row that is not published.
LEMMA ClaimEffect ==
  ASSUME OutboxInv, NEW r \in Replica, Outbox!Claim(r)
  PROVE  OutboxEffect
<1>0. /\ outbox \in Seq(Outbox!EventRow) /\ relay[r] \in RelayRow
      /\ \A k \in 1..Len(outbox) : outbox[k] \in Outbox!EventRow
      /\ relay[r].step # "idle" => relay[r].event \in 1..Len(outbox)
  BY RelayFields
<1>1. PICK i \in 1..Len(outbox) : i = relay[r].event
  BY <1>0 DEF Outbox!Claim
<1>2. UNCHANGED sent
  BY DEF Outbox!Claim
<1>3. CASE UNCHANGED outbox
  BY <1>2, <1>3 DEF OutboxEffect
<1>4. CASE ~(UNCHANGED outbox)
  <2>1. PICK n \in Nat : n = relay[r].attempts + 1
    BY <1>0 DEF RelayRow
  <2>2. /\ outbox' = [outbox EXCEPT ![i].status = "PUBLISHING", ![i].attempts = n, ![i].lapsed = FALSE]
        /\ Outbox!Claimable(outbox[i])
    BY <1>1, <1>4, <2>1 DEF Outbox!Claim
  <2>3. PICK event \in Outbox!EventRow :
          event = [outbox[i] EXCEPT !.status = "PUBLISHING", !.attempts = n, !.lapsed = FALSE]
    BY <1>0 DEF Outbox!EventRow
  <2>4. event.status = "PUBLISHING" /\ outbox' = [outbox EXCEPT ![i] = event]
    BY <1>0, <2>2, <2>3 DEF Outbox!EventRow
  <2>5. outbox[i].status # "PUBLISHED"
    BY <2>2 DEF Outbox!Claimable
  <2> QED BY <1>2, <2>4, <2>5 DEF OutboxEffect
<1> QED BY <1>3, <1>4

\* Every step keeps the invariant, with an effect of those listed.
LEMMA OutboxStepInv ==
  ASSUME OutboxInv, Outbox!Next, Outbox!OutboxAssumption
  PROVE  OutboxInv' /\ OutboxEffect
<1>1. ASSUME NEW p \in Product, NEW variants \in SUBSET Variant, NEW category \in Category,
             \/ Outbox!CreateProduct(p, variants, category)
             \/ Outbox!UpdateProduct(p, variants, category)
      PROVE  OutboxInv' /\ OutboxEffect
  BY <1>1, CatalogWriteInv, OtherEffects
<1>2. ASSUME NEW a \in Admin,
             \/ Outbox!AdminStep(a)
             \/ \E p \in Product, v \in Variant, zero \in BOOLEAN : Outbox!Request(a, "set", p, v, zero)
             \/ \E p \in Product : Outbox!Request(a, "delete", p, "none", FALSE)
      PROVE  OutboxInv' /\ OutboxEffect
  <2>1. OutboxInv'
    BY <1>2, DeleteInv, ChecksInv, SetStockInv DEF Outbox!AdminStep
  <2> QED BY <1>2, <2>1, OtherEffects
<1>3. ASSUME NEW p \in Product, NEW v \in Variant, Outbox!Trade(p, v)
      PROVE  OutboxInv' /\ OutboxEffect
  BY <1>3, SetStockInv, OtherEffects
<1>4. ASSUME NEW r \in Replica, Outbox!RelayStep(r) \/ Outbox!Abandon(r)
      PROVE  OutboxInv' /\ OutboxEffect
  <2>1. CASE Outbox!Read(r) \/ Outbox!Send(r) \/ Outbox!SendFails(r) \/ Outbox!Abandon(r)
    BY <2>1, ReadInv, SendInv, OtherEffects
  <2>2. CASE Outbox!Claim(r)
    BY <2>2, ClaimInv, ClaimEffect
  <2>3. CASE Outbox!Finish(r) \/ Outbox!FinishFails(r) \/ Outbox!Fail(r)
    BY <2>3, EndInv
  <2> QED BY <1>4, <2>1, <2>2, <2>3 DEF Outbox!RelayStep
<1>5. ASSUME NEW i \in 1..MaxEvents, Outbox!Lapse(i) \/ Outbox!DelayEnds(i)
      PROVE  OutboxInv' /\ OutboxEffect
  BY <1>5, TimeInv
<1>6. ASSUME NEW old \in Category, NEW new \in Category, Outbox!RenameCategory(old, new)
      PROVE  OutboxInv' /\ OutboxEffect
  BY <1>6, OutboxRenameInv, OtherEffects
<1> QED BY <1>1, <1>2, <1>3, <1>4, <1>5, <1>6 DEF Outbox!Next

LEMMA OutboxInvKept ==
  ASSUME OutboxInv, [Outbox!Next]_(Outbox!vars), Outbox!OutboxAssumption
  PROVE  OutboxInv'
<1>1. CASE UNCHANGED Outbox!vars
  <2>1. OutboxTypes'
    BY <1>1 DEF OutboxInv, OutboxTypes, Outbox!vars
  <2>2. Told' /\ RelayInv'
    BY <1>1 DEF OutboxInv, Told, Newest, RelayInv, RelaysInv, ClaimsDiffer, PublishedInv,
                Outbox!vars
  <2>3. Outbox!StockHasItsProduct'
    BY <1>1 DEF OutboxInv, Outbox!StockHasItsProduct, Outbox!Rows, Outbox!Live, Outbox!vars
  <2> QED BY <2>1, <2>2, <2>3 DEF OutboxInv
<1> QED BY <1>1, OutboxStepInv

LEMMA OutboxInvariance ==
  ASSUME Outbox!OutboxAssumption
  PROVE  Outbox!Spec => []OutboxInv
<1>1. Outbox!Init => OutboxInv
  BY InitOutboxInv
<1>2. OutboxInv /\ [Outbox!Next]_(Outbox!vars) => OutboxInv'
  BY OutboxInvKept
<1> QED BY <1>1, <1>2, PTL DEF Outbox!Spec

-----------------------------------------------------------------------------

\* What the invariant promises of the outbox.
LEMMA OutboxPromises ==
  ASSUME Outbox!OutboxAssumption, OutboxInv
  PROVE  /\ Outbox!TypeOK
         /\ Outbox!StockHasItsProduct
         /\ Outbox!EventsTellTheCatalog
<1>1. OutboxInv => Outbox!TypeOK
  <2>1. SUFFICES ASSUME OutboxInv
        PROVE  Outbox!TypeOK
    OBVIOUS
  <2>2. /\ \A p \in Product : product[p] \in ProductRow
        /\ \A a \in Admin : request[a].step \in {"none", "check", "retired", "write"}
        /\ \A r \in Replica : relay[r].step \in {"idle", "claim", "send", "finish", "fail"}
    BY <2>1 DEF OutboxInv, OutboxTypes, RequestRow, RelayRow
  <2> QED BY <2>1, <2>2 DEF OutboxInv, OutboxTypes, Outbox!TypeOK, ProductRow, RelayInv, RelaysInv
<1>2. OutboxInv => Outbox!StockHasItsProduct
  BY DEF OutboxInv
<1>3. OutboxInv => Outbox!EventsTellTheCatalog
  <2>1. SUFFICES ASSUME OutboxInv, NEW p \in Product
        PROVE  LET own == {i \in 1..Len(outbox) : outbox[i].product = p} IN
                 /\ product[p].state = "unborn" <=> own = {}
                 /\ own # {} =>
                      LET last == outbox[CHOOSE i \in own : \A k \in own : k <= i] IN
                        /\ Outbox!Live(p) <=> last.topic # "deleted"
                        /\ Outbox!Live(p) => last.content.rev = product[p].content.rev
                        /\ Outbox!Live(p) /\ last.content.category # product[p].content.category
                             => product[p].renamed
    BY DEF Outbox!EventsTellTheCatalog
  <2> DEFINE own == {i \in 1..Len(outbox) : outbox[i].product = p}
             last == CHOOSE i \in own : \A k \in own : k <= i
  <2>2. CASE product[p].state = "unborn"
    <3>1. own = {}
      BY <2>1, <2>2 DEF OutboxInv, Told
    <3> QED BY <2>2, <3>1
  <2>3. CASE product[p].state # "unborn"
    <3>1. PICK i \in 1..Len(outbox) : Newest(i, p) /\ Tells(outbox[i], product[p])
      BY <2>1, <2>3 DEF OutboxInv, Told
    <3>2. i \in own /\ \A k \in own : k <= i
      BY <3>1 DEF Newest
    <3>3. last \in own /\ \A k \in own : k <= last
      BY <3>2
    <3>4. last = i
      <4>1. i \in Int /\ last \in Int /\ i <= last /\ last <= i
        BY <3>2, <3>3
      <4> HIDE DEF last
      <4> QED BY <4>1
    <3> QED BY <2>3, <3>1, <3>2, <3>4 DEF Outbox!Live, Tells
  <2> QED BY <2>2, <2>3
<1> QED BY <1>1, <1>2, <1>3

\* The rows, the requests and the relays always have their types.
THEOREM OutboxTypeCorrect ==
  ASSUME Outbox!OutboxAssumption
  PROVE  Outbox!Spec => []Outbox!TypeOK
<1>1. OutboxInv => Outbox!TypeOK
  BY OutboxPromises
<1> QED BY <1>1, OutboxInvariance, PTL

\* No stock row outlives its product, for any number of requests that check and
\* write in transactions of their own.
THEOREM NoStockWithoutProduct ==
  ASSUME Outbox!OutboxAssumption
  PROVE  Outbox!Spec => []Outbox!StockHasItsProduct
<1>1. OutboxInv => Outbox!StockHasItsProduct
  BY OutboxPromises
<1> QED BY <1>1, OutboxInvariance, PTL

\* Every committed create, update and delete of a product left its event: the
\* newest event of a product tells whether its row exists and what its newest
\* write left, with the category unless that was renamed since.
THEOREM EventsTell ==
  ASSUME Outbox!OutboxAssumption
  PROVE  Outbox!Spec => []Outbox!EventsTellTheCatalog
<1>1. OutboxInv => Outbox!EventsTellTheCatalog
  BY OutboxPromises
<1> QED BY <1>1, OutboxInvariance, PTL

\* A status changes by a claim, or by the relay that holds the newest claim.
LEMMA OwnersFinish ==
  ASSUME OutboxInv, Outbox!Next, Outbox!OutboxAssumption
  PROVE  Outbox!OnlyTheClaimFinishes
<1>1. SUFFICES ASSUME NEW k \in 1..Len(outbox),
                      outbox'[k].status # outbox[k].status
      PROVE  \/ outbox'[k].status = "PUBLISHING" /\ outbox[k].status # "PUBLISHED"
             \/ /\ outbox[k].status = "PUBLISHING"
                /\ \E r \in Replica :
                     /\ relay[r].event = k
                     /\ relay[r].attempts = outbox[k].attempts
                     /\ relay'[r] # relay[r]
  BY DEF Outbox!OnlyTheClaimFinishes
<1>2. OutboxEffect /\ OutboxTypes
  BY <1>1, OutboxStepInv DEF OutboxInv
<1>3. CASE \E p \in Product, topic \in {"created", "updated", "deleted"}, content \in Outbox!Content :
             Outbox!Enqueue(p, topic, content)
  BY <1>1, <1>2, <1>3, EnqueueAdds
<1>4. CASE UNCHANGED outbox
  BY <1>1, <1>4
<1>5. ASSUME NEW i \in 1..Len(outbox), NEW event \in Outbox!EventRow,
             outbox' = [outbox EXCEPT ![i] = event],
             \/ event.status = outbox[i].status
             \/ event.status = "PUBLISHING" /\ outbox[i].status # "PUBLISHED"
             \/ OwnerEnds(i, event.status)
      PROVE  \/ outbox'[k].status = "PUBLISHING" /\ outbox[k].status # "PUBLISHED"
             \/ /\ outbox[k].status = "PUBLISHING"
                /\ \E r \in Replica :
                     /\ relay[r].event = k
                     /\ relay[r].attempts = outbox[k].attempts
                     /\ relay'[r] # relay[r]
  <2>1. k = i /\ outbox'[k] = event
    BY <1>1, <1>2, <1>5 DEF OutboxTypes
  <2> QED BY <1>1, <1>5, <2>1 DEF OwnerEnds
<1> QED BY <1>2, <1>3, <1>4, <1>5 DEF OutboxEffect

\* An event leaves PUBLISHING only by the relay that holds its newest claim, and
\* a published event stays published, whatever leases lapse and replicas crash.
THEOREM OnlyOwnersFinish ==
  ASSUME Outbox!OutboxAssumption
  PROVE  Outbox!Spec => [][Outbox!OnlyTheClaimFinishes]_(Outbox!vars)
<1>1. OutboxInv /\ Outbox!Next => Outbox!OnlyTheClaimFinishes
  BY OwnersFinish
<1> QED BY <1>1, OutboxInvariance, PTL DEF Outbox!Spec

-----------------------------------------------------------------------------
(* The promise of a durable job table *)

\* An outbox that is neither longer nor has other rows published keeps the status
\* of every event.
LEMMA StatusStays ==
  ASSUME OutboxTypes, Len(outbox') = Len(outbox),
         \A k \in 1..Len(outbox) :
           outbox'[k].status = "PUBLISHED" <=> outbox[k].status = "PUBLISHED"
  PROVE  Outbox!EventStatus' = Outbox!EventStatus
<1>1. Len(outbox) \in Nat
  BY DEF OutboxTypes
<1>2. \A i \in 1..MaxEvents : ~(i > Len(outbox)) => i \in 1..Len(outbox)
  BY <1>1
<1> QED BY <1>1, <1>2 DEF Outbox!EventStatus

\* Each effect is a step of the job table, or none of its business.
LEMMA PromiseStep ==
  ASSUME OutboxTypes, OutboxEffect, Outbox!OutboxAssumption
  PROVE  [Outbox!Promise!DJNext]_(Outbox!Promise!djVars)
<1> USE DEF Outbox!Promise!djVars
<1>0. /\ outbox \in Seq(Outbox!EventRow) /\ Len(outbox) \in Nat
      /\ Len(outbox) <= MaxEvents /\ MaxEvents \in Nat
      /\ 1..Len(outbox) \subseteq 1..MaxEvents
  <2>1. outbox \in Seq(Outbox!EventRow) /\ Len(outbox) <= MaxEvents /\ MaxEvents \in Nat
    BY DEF OutboxTypes, Outbox!OutboxAssumption
  <2> QED BY <2>1
<1>1. ASSUME NEW p \in Product, NEW topic \in {"created", "updated", "deleted"},
             NEW content \in Outbox!Content, Outbox!Enqueue(p, topic, content), UNCHANGED sent
      PROVE  Outbox!Promise!DJNext
  <2>1. /\ Len(outbox') = Len(outbox) + 1 /\ Len(outbox') <= MaxEvents
        /\ \A k \in 1..Len(outbox) : outbox'[k] = outbox[k]
        /\ outbox'[Len(outbox')] = Outbox!Event(p, topic, content)
    BY <1>1, EnqueueAdds
  <2>2. PICK n \in 1..MaxEvents : n = Len(outbox) + 1
    BY <1>0, <2>1
  <2>3. outbox'[n].status = "PENDING"
    BY <2>1, <2>2 DEF Outbox!Event
  <2>4. Outbox!EventStatus[n] = "absent"
    BY <1>0, <2>2 DEF Outbox!EventStatus
  <2>5. Outbox!EventStatus' = [Outbox!EventStatus EXCEPT ![n] = "open"]
    <3>1. \A i \in 1..MaxEvents :
            Outbox!EventStatus'[i] = IF i = n THEN "open" ELSE Outbox!EventStatus[i]
      <4>1. SUFFICES ASSUME NEW i \in 1..MaxEvents
            PROVE  Outbox!EventStatus'[i] = IF i = n THEN "open" ELSE Outbox!EventStatus[i]
        OBVIOUS
      <4>2. CASE i = n
        BY <1>0, <2>1, <2>2, <2>3, <4>2 DEF Outbox!EventStatus
      <4>3. CASE i < n
        <5>1. i \in 1..Len(outbox)
          BY <1>0, <2>2, <4>3
        <5> QED BY <1>0, <2>1, <2>2, <4>3, <5>1 DEF Outbox!EventStatus
      <4>4. CASE i > n
        BY <1>0, <2>1, <2>2, <4>4 DEF Outbox!EventStatus
      <4> QED BY <1>0, <4>2, <4>3, <4>4
    <3>2. /\ Outbox!EventStatus = [i \in 1..MaxEvents |-> Outbox!EventStatus[i]]
          /\ Outbox!EventStatus' = [i \in 1..MaxEvents |-> Outbox!EventStatus'[i]]
      BY DEF Outbox!EventStatus
    <3> HIDE DEF Outbox!EventStatus
    <3> QED BY <3>1, <3>2
  <2>6. Outbox!Promise!Accept(n)
    BY <1>1, <2>4, <2>5 DEF Outbox!Promise!Accept
  <2> QED BY <2>6 DEF Outbox!Promise!DJNext
<1>2. CASE UNCHANGED outbox /\ UNCHANGED sent
  BY <1>2 DEF Outbox!EventStatus
<1>3. ASSUME UNCHANGED outbox, NEW i \in 1..Len(outbox), sent' = sent \union {i}
      PROVE  Outbox!Promise!DJNext
  <2>1. i \in 1..MaxEvents /\ Outbox!EventStatus[i] # "absent"
    BY <1>0 DEF Outbox!EventStatus
  <2>2. Outbox!EventStatus' = Outbox!EventStatus
    BY <1>3 DEF Outbox!EventStatus
  <2>3. Outbox!Promise!Perform(i)
    BY <1>3, <2>1, <2>2 DEF Outbox!Promise!Perform
  <2> QED BY <2>1, <2>3 DEF Outbox!Promise!DJNext
<1>4. ASSUME UNCHANGED sent, NEW i \in 1..Len(outbox), NEW event \in Outbox!EventRow,
             outbox' = [outbox EXCEPT ![i] = event],
             \/ event.status = outbox[i].status
             \/ event.status = "PUBLISHING" /\ outbox[i].status # "PUBLISHED"
             \/ OwnerEnds(i, event.status)
      PROVE  [Outbox!Promise!DJNext]_(Outbox!Promise!djVars)
  <2>1. Len(outbox') = Len(outbox)
        /\ \A k \in 1..Len(outbox) : outbox'[k] = IF k = i THEN event ELSE outbox[k]
    BY <1>0, <1>4
  <2>2. CASE event.status = "PUBLISHED" <=> outbox[i].status = "PUBLISHED"
    <3>1. Outbox!EventStatus' = Outbox!EventStatus
      BY <2>1, <2>2, StatusStays
    <3> QED BY <1>4, <3>1
  <2>3. CASE ~(event.status = "PUBLISHED" <=> outbox[i].status = "PUBLISHED")
    <3>1. event.status = "PUBLISHED" /\ outbox[i].status = "PUBLISHING" /\ i \in sent
      BY <1>4, <2>3 DEF OwnerEnds
    <3>2. i \in 1..MaxEvents /\ Outbox!EventStatus[i] = "open"
      BY <1>0, <3>1 DEF Outbox!EventStatus
    <3>3. Outbox!EventStatus' = [k \in 1..MaxEvents |-> IF k = i THEN "done" ELSE Outbox!EventStatus[k]]
      <4>1. \A k \in 1..MaxEvents : ~(k > Len(outbox)) => k \in 1..Len(outbox)
        BY <1>0
      <4> QED BY <1>0, <2>1, <3>1, <4>1 DEF Outbox!EventStatus
    <3>4. Outbox!Promise!Finish(i)
      BY <1>4, <3>1, <3>2, <3>3 DEF Outbox!Promise!Finish
    <3> QED BY <3>2, <3>4 DEF Outbox!Promise!DJNext
  <2> QED BY <2>2, <2>3
<1> QED BY <1>1, <1>2, <1>3, <1>4 DEF OutboxEffect

LEMMA PromiseKept ==
  ASSUME OutboxInv, [Outbox!Next]_(Outbox!vars), Outbox!OutboxAssumption
  PROVE  [Outbox!Promise!DJNext]_(Outbox!Promise!djVars)
<1>1. CASE UNCHANGED Outbox!vars
  BY <1>1 DEF Outbox!vars, Outbox!Promise!djVars, Outbox!EventStatus
<1> QED BY <1>1, OutboxStepInv, PromiseStep DEF OutboxInv

\* The outbox keeps the promise of DurableJobs: an event once committed is never
\* forgotten, and is published only after Kafka took it.
THEOREM OutboxKeepsThePromise ==
  ASSUME Outbox!OutboxAssumption
  PROVE  Outbox!Spec => Outbox!Promise!DJSpec
<1>1. Outbox!Init => Outbox!Promise!DJInit
  <2>1. ASSUME Outbox!Init
        PROVE  Outbox!EventStatus = [j \in 1..MaxEvents |-> "absent"]
    BY <2>1 DEF Outbox!Init, Outbox!EventStatus, Outbox!OutboxAssumption
  <2> QED BY <2>1 DEF Outbox!Promise!DJInit, Outbox!Init
<1>2. OutboxInv /\ [Outbox!Next]_(Outbox!vars) => [Outbox!Promise!DJNext]_(Outbox!Promise!djVars)
  BY PromiseKept
<1> QED BY <1>1, <1>2, OutboxInvariance, PTL DEF Outbox!Spec, Outbox!Promise!DJSpec

-----------------------------------------------------------------------------
(* StripeCatalog *)

\* The workers with a hint in hand, and among them the one that holds the lock.
Taken == {w \in Worker : run[w].step # "idle"}
Locked == {"read", "list", "product", "price", "default", "retire", "commit"}
Knows == Locked \ {"read"}

Made(r) == price[r].state # "absent"
Active(r) == price[r].state = "active"

RowFields == {"live", "rev", "amount", "category"}
RunFields == {"step", "seen", "listed", "price"}

StripeTypes ==
  /\ DOMAIN source = RowFields /\ source.live \in BOOLEAN
  /\ source.rev \in Stripe!Revs /\ source.amount \in Amount
  /\ hints \in Nat
  /\ DOMAIN stripe = {"active", "known", "default", "category"}
  /\ stripe.default \in Stripe!Revs \cup {0}
  /\ price \in [Stripe!Revs -> [state : {"absent", "active", "inactive"},
                              amount : Amount \cup {0}, keyed : BOOLEAN]]
  /\ DOMAIN budget = {"repeats", "renames", "faults"}
  /\ budget.renames \in 0..MaxRenames /\ budget.faults \in 0..StripeFaults
  /\ budget.repeats \in 0..MaxRepeats
  /\ DOMAIN run = Worker
  /\ \A w \in Worker :
       /\ DOMAIN run[w] = RunFields /\ run[w].step \in Locked \cup {"idle", "complete"}
       /\ run[w].listed \subseteq Stripe!Revs /\ run[w].price \in Stripe!Revs \cup {0}

\* One worker at a time is between Begin and Commit.
LockIsHeld ==
  /\ lock = {w \in Worker : run[w].step \in Locked}
  /\ \A v, w \in lock : v = w

\* The newest price holds the lookup key, and no other.
KeyIsNewest ==
  /\ \A r, q \in Stripe!Revs : price[r].keyed /\ Made(q) => Made(r) /\ q <= r
  /\ (\E r \in Stripe!Revs : Made(r)) => \E r \in Stripe!Revs : price[r].keyed
  /\ \A r \in Stripe!Revs : Made(r) => r <= source.rev
  /\ Made(source.rev) => price[source.rev].amount = source.amount
  /\ source.live => \A r \in Stripe!Revs : price[r].keyed => Active(r)
  /\ stripe.default = 0 \/ Made(stripe.default)

\* What a worker read is as new as every price, and the product's unless it
\* has changed since.
SeenIsNewest(w) ==
  LET seen == run[w].seen IN
  /\ DOMAIN seen = RowFields /\ seen.live \in BOOLEAN
  /\ seen.rev \in Stripe!Revs /\ seen.amount \in Amount
  /\ seen.rev <= source.rev /\ (seen.rev = source.rev => seen.amount = source.amount)
  /\ source.live => seen.live
  /\ \A r \in Stripe!Revs : Made(r) => r <= seen.rev
  /\ Made(seen.rev) => price[seen.rev].amount = seen.amount
  /\ seen.live => \A r \in Stripe!Revs : price[r].keyed => Active(r)

\* The price a product of this state is sold at.
HasPrice(entry, r) ==
  /\ r \in Stripe!Revs /\ price[r].keyed /\ Active(r) /\ price[r].amount = entry.amount

\* How far a worker has come with what it read.
Come(w) ==
  LET seen == run[w].seen
      doing == run[w].step
  IN
  /\ doing \in Knows \ {"list"} => \A r \in run[w].listed : Made(r)
  /\ doing \in {"product", "price"} =>
       seen.live /\ run[w].listed = {r \in Stripe!Revs : Active(r) /\ price[r].keyed}
  /\ doing \in {"price", "default"} => stripe.known /\ stripe.active /\ stripe.category = seen.category
  /\ doing = "default" => seen.live /\ HasPrice(seen, run[w].price)
  /\ doing \in {"retire", "commit"} /\ seen.live =>
       /\ stripe.known /\ stripe.active /\ stripe.category = seen.category
       /\ HasPrice(seen, stripe.default) /\ stripe.default \notin run[w].listed
  /\ doing = "retire" /\ ~seen.live =>
       \A r \in Stripe!Revs : Active(r) /\ price[r].keyed => r \in run[w].listed
  /\ doing = "commit" /\ ~seen.live =>
       /\ ~stripe.active
       /\ \A r \in Stripe!Revs : ~(Active(r) /\ price[r].keyed)

RunsInv == \A w \in Worker : run[w].step \in Knows => SeenIsNewest(w) /\ Come(w)

\* A hint that nobody has in hand; a worker that has read the product as it is.
Pending == hints > Cardinality(Taken)
Fresh(w) ==
  \/ run[w].step = "read"
  \/ /\ run[w].step \in Knows
     /\ run[w].seen.live = source.live /\ run[w].seen.rev = source.rev
     /\ budget.renames = MaxRenames => run[w].seen.category = source.category

\* Stripe shows the product as it is.
Synchronised ==
  IF source.live
  THEN /\ stripe.known /\ stripe.active
       /\ HasPrice(source, stripe.default)
       /\ budget.renames = MaxRenames => stripe.category = source.category
  ELSE /\ ~stripe.active
       /\ \A r \in Stripe!Revs : ~(Active(r) /\ price[r].keyed)

\* If it does not, somebody will see to it.
SomebodyWill ==
  /\ Cardinality(Taken) <= hints
  /\ Pending \/ (\A w \in lock : Fresh(w))
  /\ lock = {} => Pending \/ Synchronised

\* As long as no run failed, a price without the key is about to be retired.
OthersAreRetired ==
  budget.faults = StripeFaults =>
    \A r \in Stripe!Revs : Active(r) /\ ~price[r].keyed =>
      \E w \in lock : run[w].step \in {"default", "retire"} /\ r \in run[w].listed

StripeInv ==
  /\ StripeTypes /\ LockIsHeld /\ KeyIsNewest /\ RunsInv /\ SomebodyWill /\ OthersAreRetired

LEMMA CatalogNaturals ==
  ASSUME Stripe!CatalogAssumption
  PROVE  /\ MaxChanges \in Nat /\ MaxRepeats \in Nat /\ MaxRenames \in Nat /\ StripeFaults \in Nat
         /\ Stripe!Revs = 1..MaxChanges + 1
BY DEF Stripe!CatalogAssumption, Stripe!Revs

\* A worker more, a worker less.
LEMMA WorkersCount ==
  ASSUME Stripe!CatalogAssumption
  PROVE  \A S \in SUBSET Worker :
           /\ Cardinality(S) \in Nat
           /\ \A w \in Worker \ S : Cardinality(S \cup {w}) = Cardinality(S) + 1
           /\ \A w \in S : Cardinality(S \ {w}) = Cardinality(S) - 1
<1>1. IsFiniteSet(Worker)
  <2>1. \A S : Stripe!IsFiniteSet(S) <=> IsFiniteSet(S)
    BY DEF Stripe!IsFiniteSet, IsFiniteSet
  <2> QED BY <2>1 DEF Stripe!CatalogAssumption
<1> SUFFICES ASSUME NEW S \in SUBSET Worker
             PROVE  /\ Cardinality(S) \in Nat
                    /\ \A w \in Worker \ S : Cardinality(S \cup {w}) = Cardinality(S) + 1
                    /\ \A w \in S : Cardinality(S \ {w}) = Cardinality(S) - 1
  OBVIOUS
<1>2. IsFiniteSet(S)
  BY <1>1, FS_Subset
<1> QED BY <1>2, FS_CardinalityType, FS_AddElement, FS_RemoveElement

LEMMA SyncCounts == \A S : Stripe!Cardinality(S) = Cardinality(S)
BY DEF Stripe!Cardinality, Cardinality

LEMMA InitStripeInv ==
  ASSUME Stripe!CatalogAssumption, Stripe!Init
  PROVE  StripeInv
<1> USE CatalogNaturals DEF Stripe!Init
<1>1. /\ \A w \in Worker : run[w] = Stripe!Idle
      /\ \A r \in Stripe!Revs : price[r] = Stripe!NoPrice
  OBVIOUS
<1>2. StripeTypes
  BY <1>1 DEF StripeTypes, Stripe!Idle, Stripe!NoPrice, RowFields, RunFields
<1>3. LockIsHeld
  BY <1>1 DEF LockIsHeld, Stripe!Idle, Locked
<1>4. KeyIsNewest
  BY <1>1, 1 \in Stripe!Revs DEF KeyIsNewest, Made, Active, Stripe!NoPrice
<1>5. RunsInv
  BY <1>1 DEF RunsInv, Stripe!Idle, Locked, Knows
<1>6. Cardinality(Taken) = 0
  <2>1. Taken = {}
    BY <1>1 DEF Taken, Stripe!Idle
  <2> QED BY <2>1, FS_EmptySet
<1>7. SomebodyWill
  BY <1>6 DEF SomebodyWill, Pending
<1>8. OthersAreRetired
  BY <1>1 DEF OthersAreRetired, Active, Stripe!NoPrice
<1> QED BY <1>2, <1>3, <1>4, <1>5, <1>7, <1>8 DEF StripeInv

-----------------------------------------------------------------------------

OthersStay(w) == DOMAIN run' = Worker /\ \A u \in Worker : u # w => run'[u] = run[u]

\* A step of the worker that holds the lock, which it keeps.
LEMMA HolderStep ==
  ASSUME StripeInv, NEW w \in Worker, run[w].step \in Locked, run'[w].step \in Locked, OthersStay(w),
         UNCHANGED <<source, hints, budget, lock>>, StripeTypes', KeyIsNewest', OthersAreRetired',
         run'[w].step \in Knows => SeenIsNewest(w)' /\ Come(w)',
         Fresh(w) => Fresh(w)'
  PROVE  StripeInv'
<1>1. lock = {w}
  BY DEF StripeInv, LockIsHeld
<1>2. \A u \in Worker : u # w => run'[u] = run[u] /\ run[u].step \notin Locked
  BY <1>1 DEF StripeInv, LockIsHeld, OthersStay
<1>3. LockIsHeld'
  BY <1>1, <1>2 DEF LockIsHeld
<1>4. RunsInv'
  BY <1>2 DEF RunsInv, Knows
<1>5. Taken' = Taken
  BY <1>2 DEF Taken, Locked
<1>6. SomebodyWill'
  BY <1>1, <1>5 DEF StripeInv, SomebodyWill, Pending
<1> QED BY <1>3, <1>4, <1>6 DEF StripeInv

\* Who holds the lock is alone, and what is known of it.
LEMMA Holder ==
  ASSUME StripeInv, NEW w \in Worker, run[w].step \in Locked
  PROVE  /\ lock = {w} /\ DOMAIN run = Worker /\ DOMAIN run[w] = RunFields
         /\ run[w].step \in Knows => SeenIsNewest(w) /\ Come(w)
BY DEF StripeInv, LockIsHeld, StripeTypes, RunsInv

LEMMA ReadSourceKeeps ==
  ASSUME Stripe!CatalogAssumption, StripeInv, NEW w \in Worker, Stripe!ReadSource(w)
  PROVE  StripeInv'
<1> USE DEF Stripe!ReadSource, Stripe!At
<1>1. /\ lock = {w} /\ run[w].step \in Locked /\ DOMAIN run[w] = RunFields /\ DOMAIN run = Worker
  BY Holder DEF Locked
<1>2. /\ run'[w].step = "list" /\ run'[w].seen = source /\ DOMAIN run'[w] = RunFields
      /\ run'[w].listed = run[w].listed /\ run'[w].price = run[w].price /\ OthersStay(w)
  BY <1>1 DEF RunFields, OthersStay
<1>3. StripeTypes'
  BY <1>2 DEF StripeInv, StripeTypes, OthersStay, Locked
<1>4. KeyIsNewest'
  BY DEF StripeInv, KeyIsNewest, Made, Active
<1>5. SeenIsNewest(w)'
  <2>1. /\ DOMAIN source = RowFields /\ source.live \in BOOLEAN /\ source.rev \in Stripe!Revs
        /\ source.amount \in Amount /\ source.rev <= source.rev
    BY CatalogNaturals DEF StripeInv, StripeTypes
  <2>2. /\ \A r \in Stripe!Revs : Made(r) => r <= source.rev
        /\ Made(source.rev) => price[source.rev].amount = source.amount
        /\ source.live => \A r \in Stripe!Revs : price[r].keyed => Active(r)
    BY DEF StripeInv, KeyIsNewest
  <2>3. price' = price /\ source' = source
    OBVIOUS
  <2> QED BY <1>2, <2>1, <2>2, <2>3 DEF SeenIsNewest, Made, Active
<1>6. Come(w)' /\ Fresh(w)'
  BY <1>2 DEF Come, Fresh, Knows, Locked
<1>7. OthersAreRetired'
  BY <1>1, <1>2 DEF StripeInv, OthersAreRetired, Active
<1> QED BY <1>1, <1>2, <1>3, <1>4, <1>5, <1>6, <1>7, HolderStep DEF Locked

LEMMA ListPricesKeeps ==
  ASSUME Stripe!CatalogAssumption, StripeInv, NEW w \in Worker, Stripe!ListPrices(w)
  PROVE  StripeInv'
<1> USE DEF Stripe!ListPrices, Stripe!At
<1>1. /\ lock = {w} /\ run[w].step \in Locked /\ DOMAIN run[w] = RunFields /\ DOMAIN run = Worker
      /\ SeenIsNewest(w)
  BY Holder DEF Locked, Knows
<1>2. /\ run'[w].step = IF run[w].seen.live THEN "product" ELSE "retire"
      /\ run'[w].seen = run[w].seen /\ DOMAIN run'[w] = RunFields
      /\ run'[w].listed = {r \in Stripe!Revs : Active(r) /\ price[r].keyed}
      /\ run'[w].price = run[w].price /\ OthersStay(w)
  BY <1>1 DEF RunFields, OthersStay, Active
<1>3. StripeTypes'
  BY <1>2 DEF StripeInv, StripeTypes, OthersStay, Locked
<1>4. KeyIsNewest'
  BY DEF StripeInv, KeyIsNewest, Made, Active
<1>5. SeenIsNewest(w)'
  BY <1>1, <1>2 DEF SeenIsNewest, Made, Active
<1>6. Come(w)' /\ (Fresh(w) => Fresh(w)')
  BY <1>1, <1>2 DEF Come, Fresh, Knows, Locked, Made, Active
<1>7. OthersAreRetired'
  BY <1>1, <1>2 DEF StripeInv, OthersAreRetired, Active
<1> QED BY <1>1, <1>2, <1>3, <1>4, <1>5, <1>6, <1>7, HolderStep DEF Locked

LEMMA WriteProductKeeps ==
  ASSUME Stripe!CatalogAssumption, StripeInv, NEW w \in Worker, Stripe!WriteProduct(w)
  PROVE  StripeInv'
<1> USE DEF Stripe!WriteProduct, Stripe!At, Stripe!Goto
<1>1. /\ lock = {w} /\ run[w].step \in Locked /\ DOMAIN run[w] = RunFields /\ DOMAIN run = Worker
      /\ SeenIsNewest(w) /\ Come(w) /\ StripeTypes
  BY Holder DEF Locked, Knows, StripeInv
<1>2. /\ run'[w].step = "price" /\ run'[w].seen = run[w].seen /\ DOMAIN run'[w] = RunFields
      /\ run'[w].listed = run[w].listed /\ run'[w].price = run[w].price /\ OthersStay(w)
      /\ stripe'.known /\ stripe'.active /\ stripe'.category = run[w].seen.category
      /\ stripe'.default = stripe.default /\ DOMAIN stripe' = DOMAIN stripe
  BY <1>1 DEF RunFields, OthersStay, StripeTypes
<1>3. StripeTypes'
  BY <1>2 DEF StripeInv, StripeTypes, OthersStay, Locked
<1>4. KeyIsNewest'
  BY <1>2 DEF StripeInv, KeyIsNewest, Made, Active
<1>5. SeenIsNewest(w)'
  BY <1>1, <1>2 DEF SeenIsNewest, Made, Active
<1>6. Come(w)' /\ (Fresh(w) => Fresh(w)')
  BY <1>1, <1>2 DEF Come, Fresh, Knows, Locked, Made, Active
<1>7. OthersAreRetired'
  BY <1>1, <1>2 DEF StripeInv, OthersAreRetired, Active
<1> QED BY <1>1, <1>2, <1>3, <1>4, <1>5, <1>6, <1>7, HolderStep DEF Locked

\* A price of the wanted amount is the one with the key; or a new one gets it.
LEMMA ChoosePriceKeeps ==
  ASSUME Stripe!CatalogAssumption, StripeInv, NEW w \in Worker, Stripe!ChoosePrice(w)
  PROVE  StripeInv'
<1> USE DEF Stripe!ChoosePrice, Stripe!At
<1>1. /\ lock = {w} /\ run[w].step \in Locked /\ DOMAIN run[w] = RunFields /\ DOMAIN run = Worker
      /\ SeenIsNewest(w) /\ Come(w) /\ StripeTypes /\ KeyIsNewest
  BY Holder DEF Locked, Knows, StripeInv
<1>2. PICK seen, rev, listed, p :
        seen = run[w].seen /\ rev = seen.rev /\ listed = run[w].listed /\ p = run'[w].price
  OBVIOUS
<1>3. /\ run'[w].step = "default" /\ run'[w].seen = seen /\ DOMAIN run'[w] = RunFields
      /\ run'[w].listed = listed /\ OthersStay(w)
  <2>1. PICK r : run' = [run EXCEPT ![w].price = r, ![w].step = "default"]
    OBVIOUS
  <2> QED BY <1>1, <1>2, <2>1 DEF RunFields, OthersStay
<1>4. /\ rev \in Stripe!Revs /\ seen.live /\ seen.amount \in Amount /\ rev <= source.rev
      /\ rev = source.rev => seen.amount = source.amount
      /\ \A r \in Stripe!Revs : Made(r) => r <= rev
      /\ Made(rev) => price[rev].amount = seen.amount
      /\ \A r \in Stripe!Revs : price[r].keyed => Active(r)
      /\ listed = {r \in Stripe!Revs : Active(r) /\ price[r].keyed}
      /\ stripe.known /\ stripe.active /\ stripe.category = seen.category
  BY <1>1, <1>2 DEF SeenIsNewest, Come
<1>5. /\ \A r, q \in Stripe!Revs : price[r].keyed /\ Made(q) => Made(r) /\ q <= r
      /\ (\E r \in Stripe!Revs : Made(r)) => \E r \in Stripe!Revs : price[r].keyed
  BY <1>1 DEF KeyIsNewest
<1>6. Stripe!Revs \subseteq Nat
  BY CatalogNaturals
<1>7. Fresh(w) => Fresh(w)'
  BY <1>2, <1>3 DEF Fresh, Knows, Locked
<1>8. CASE Stripe!Matches(w) # {}
  <2>1. p \in Stripe!Matches(w) /\ UNCHANGED price
    <3>1. PICK r \in Stripe!Matches(w) : run' = [run EXCEPT ![w].price = r, ![w].step = "default"]
      BY <1>8
    <3>2. run'[w].price = r
      BY <1>1, <3>1 DEF RunFields
    <3> QED BY <1>2, <1>8, <3>1, <3>2
  <2>2. p \in Stripe!Revs /\ price[p].keyed /\ Active(p) /\ price[p].amount = seen.amount
    BY <1>2, <1>4, <2>1 DEF Stripe!Matches
  <2>3. StripeTypes'
    BY <1>1, <1>2, <1>3, <2>1, <2>2 DEF StripeTypes, OthersStay, Locked
  <2>4. KeyIsNewest'
    BY <1>1, <2>1 DEF KeyIsNewest, Made, Active
  <2>5. SeenIsNewest(w)'
    BY <1>1, <1>2, <1>3, <2>1 DEF SeenIsNewest, Made, Active
  <2>6. Come(w)'
    <3>1. \A r \in listed : Made(r)'
      BY <1>4, <2>1 DEF Made, Active
    <3> QED BY <1>2, <1>3, <1>4, <2>1, <2>2, <3>1 DEF Come, HasPrice, Active, Made
  <2>7. OthersAreRetired'
    BY <1>1, <1>2, <1>3, <2>1 DEF StripeInv, OthersAreRetired, Active
  <2> QED BY <1>1, <1>3, <1>7, <2>3, <2>4, <2>5, <2>6, <2>7, HolderStep DEF Locked
<1>9. CASE Stripe!Matches(w) = {}
  <2>1. ~Made(rev)
    <3>1. SUFFICES ASSUME Made(rev) PROVE FALSE
      OBVIOUS
    <3>2. PICK k \in Stripe!Revs : price[k].keyed
      BY <1>4, <1>5, <3>1
    <3>3. k = rev
      BY <1>4, <1>5, <1>6, <3>1, <3>2
    <3>4. rev \in Stripe!Matches(w)
      BY <1>2, <1>4, <3>1, <3>2, <3>3 DEF Stripe!Matches
    <3> QED BY <1>9, <3>4
  <2>2. /\ p = rev
        /\ price' = [r \in Stripe!Revs |->
             IF r = rev THEN [state |-> "active", amount |-> seen.amount, keyed |-> TRUE]
             ELSE [price[r] EXCEPT !.keyed = FALSE]]
    BY <1>1, <1>2, <1>9, <2>1 DEF RunFields, Made
  <2>3. /\ Made(rev)' /\ Active(rev)' /\ price'[rev].keyed /\ price'[rev].amount = seen.amount
        /\ \A r \in Stripe!Revs : r # rev =>
             /\ (Made(r)' <=> Made(r)) /\ (Active(r)' <=> Active(r))
             /\ ~price'[r].keyed /\ price'[r].amount = price[r].amount
    BY <1>1, <1>4, <2>2 DEF Made, Active, StripeTypes
  <2>4. StripeTypes'
    <3>1. price' \in [Stripe!Revs -> [state : {"absent", "active", "inactive"},
                                    amount : Amount \cup {0}, keyed : BOOLEAN]]
      <4>1. \A r \in Stripe!Revs : price'[r] \in [state : {"absent", "active", "inactive"},
                                              amount : Amount \cup {0}, keyed : BOOLEAN]
        <5>1. SUFFICES ASSUME NEW r \in Stripe!Revs
              PROVE  price'[r] \in [state : {"absent", "active", "inactive"},
                                    amount : Amount \cup {0}, keyed : BOOLEAN]
          OBVIOUS
        <5>2. price[r] \in [state : {"absent", "active", "inactive"},
                            amount : Amount \cup {0}, keyed : BOOLEAN]
          BY <1>1 DEF StripeTypes
        <5>3. [price[r] EXCEPT !.keyed = FALSE] \in
                [state : {"absent", "active", "inactive"}, amount : Amount \cup {0}, keyed : BOOLEAN]
          BY <5>2
        <5> QED BY <1>4, <2>2, <5>3
      <4> QED BY <2>2, <4>1
    <3>2. run'[w].price \in Stripe!Revs
      BY <1>2, <1>4, <2>2
    <3> QED BY <1>1, <1>2, <1>3, <3>1, <3>2 DEF StripeTypes, OthersStay, Locked
  <2>5. KeyIsNewest'
    <3>1. stripe.default # 0 => Made(stripe.default)'
      BY <1>1, <2>3 DEF KeyIsNewest, StripeTypes
    <3>2. Made(source.rev)' => price'[source.rev].amount = source.amount
      BY <1>1, <1>4, <1>6, <2>3 DEF KeyIsNewest, StripeTypes
    <3>3. \A r \in Stripe!Revs : Made(r)' => r <= source.rev
      BY <1>1, <1>4, <2>3 DEF KeyIsNewest
    <3>4. UNCHANGED <<source, stripe>>
      OBVIOUS
    <3>5. \A r, q \in Stripe!Revs : price'[r].keyed /\ Made(q)' => Made(r)' /\ q <= r
      BY <1>4, <1>6, <2>3
    <3>6. \A r \in Stripe!Revs : price'[r].keyed => Active(r)'
      BY <2>3
    <3>7. \E r \in Stripe!Revs : price'[r].keyed
      BY <1>4, <2>3
    <3> QED BY <3>1, <3>2, <3>3, <3>4, <3>5, <3>6, <3>7 DEF KeyIsNewest, Made, Active
  <2>6. SeenIsNewest(w)'
    BY <1>1, <1>2, <1>3, <1>4, <1>6, <2>3 DEF SeenIsNewest, Made, Active
  <2>7. Come(w)'
    <3>1. \A r \in listed : Made(r)'
      BY <1>4, <2>3 DEF Made, Active
    <3> QED BY <1>2, <1>3, <1>4, <2>2, <2>3, <3>1 DEF Come, HasPrice, Active, Made
  <2>8. OthersAreRetired'
    BY <1>1, <1>2, <1>3, <1>4, <2>3 DEF StripeInv, OthersAreRetired, Active
  <2> QED BY <1>1, <1>3, <1>7, <2>4, <2>5, <2>6, <2>7, <2>8, HolderStep DEF Locked
<1> QED BY <1>8, <1>9

LEMMA SetDefaultKeeps ==
  ASSUME Stripe!CatalogAssumption, StripeInv, NEW w \in Worker, Stripe!SetDefault(w)
  PROVE  StripeInv'
<1> USE DEF Stripe!SetDefault, Stripe!At
<1>1. /\ lock = {w} /\ run[w].step \in Locked /\ DOMAIN run[w] = RunFields /\ DOMAIN run = Worker
      /\ SeenIsNewest(w) /\ Come(w) /\ StripeTypes /\ KeyIsNewest
  BY Holder DEF Locked, Knows, StripeInv
<1>2. PICK p : p = run[w].price
  OBVIOUS
<1>3. /\ run'[w].step = "retire" /\ run'[w].seen = run[w].seen /\ DOMAIN run'[w] = RunFields
      /\ run'[w].listed = run[w].listed \ {p} /\ run'[w].price = p /\ OthersStay(w)
      /\ stripe'.known = stripe.known /\ stripe'.active = stripe.active
      /\ stripe'.category = stripe.category /\ stripe'.default = p /\ DOMAIN stripe' = DOMAIN stripe
  BY <1>1, <1>2 DEF RunFields, OthersStay, StripeTypes
<1>4. /\ run[w].seen.live /\ p \in Stripe!Revs /\ price[p].keyed /\ Active(p)
      /\ price[p].amount = run[w].seen.amount
      /\ stripe.known /\ stripe.active /\ stripe.category = run[w].seen.category
  BY <1>1, <1>2 DEF Come, HasPrice
<1>5. StripeTypes'
  BY <1>1, <1>3, <1>4 DEF StripeTypes, OthersStay, Locked
<1>6. KeyIsNewest'
  BY <1>1, <1>3, <1>4 DEF KeyIsNewest, Made, Active
<1>7. SeenIsNewest(w)'
  BY <1>1, <1>3 DEF SeenIsNewest, Made, Active
<1>8. Come(w)' /\ (Fresh(w) => Fresh(w)')
  <2>1. \A r \in run[w].listed : Made(r)
    BY <1>1 DEF Come, Knows, Locked
  <2> QED BY <1>3, <1>4, <2>1 DEF Come, Fresh, Knows, Locked, HasPrice, Active, Made
<1>9. OthersAreRetired'
  BY <1>1, <1>3, <1>4 DEF StripeInv, OthersAreRetired, Active
<1> QED BY <1>1, <1>3, <1>5, <1>6, <1>7, <1>8, <1>9, HolderStep DEF Locked

\* What is retired has lost the key, or its product.
LEMMA RetirePriceKeeps ==
  ASSUME Stripe!CatalogAssumption, StripeInv, NEW w \in Worker, Stripe!RetirePrice(w)
  PROVE  StripeInv'
<1> USE DEF Stripe!RetirePrice, Stripe!At
<1>1. /\ lock = {w} /\ run[w].step \in Locked /\ DOMAIN run[w] = RunFields /\ DOMAIN run = Worker
      /\ SeenIsNewest(w) /\ Come(w) /\ StripeTypes /\ KeyIsNewest
  BY Holder DEF Locked, Knows, StripeInv
<1>2. PICK q \in run[w].listed : price' = [price EXCEPT ![q].state = "inactive"]
                                 /\ run' = [run EXCEPT ![w].listed = @ \ {q}]
  OBVIOUS
<1>3. /\ run'[w].step = "retire" /\ run'[w].seen = run[w].seen /\ DOMAIN run'[w] = RunFields
      /\ run'[w].listed = run[w].listed \ {q} /\ run'[w].price = run[w].price /\ OthersStay(w)
  BY <1>1, <1>2 DEF RunFields, OthersStay
<1>4. q \in Stripe!Revs
  BY <1>1, <1>2 DEF StripeTypes
<1>5. /\ \A r \in Stripe!Revs : price'[r].keyed = price[r].keyed /\ price'[r].amount = price[r].amount
      /\ \A r \in Stripe!Revs : Made(r) => Made(r)'
      /\ \A r \in Stripe!Revs : r # q => price'[r] = price[r]
      /\ Made(q)' /\ ~Active(q)'
  BY <1>1, <1>2, <1>4 DEF StripeTypes, Made, Active
<1>6. StripeTypes'
  <2>1. price' \in [Stripe!Revs -> [state : {"absent", "active", "inactive"},
                                  amount : Amount \cup {0}, keyed : BOOLEAN]]
    BY <1>1, <1>2, <1>4 DEF StripeTypes
  <2> QED BY <1>1, <1>2, <1>3, <2>1 DEF StripeTypes, OthersStay, Locked
<1>7. run[w].seen.live => q # stripe.default /\ ~price[q].keyed
  <2>1. SUFFICES ASSUME run[w].seen.live
                 PROVE  q # stripe.default /\ ~price[q].keyed
    OBVIOUS
  <2>2. PICK r : r = stripe.default
    OBVIOUS
  <2>3. q # r /\ r \in Stripe!Revs /\ price[r].keyed /\ Active(r)
    BY <1>1, <1>2, <2>1, <2>2 DEF Come, HasPrice
  <2>4. q \in Nat /\ r \in Nat
    BY <1>4, <2>3, CatalogNaturals
  <2>5. Made(q)
    BY <1>1, <1>2 DEF Come, Knows, Locked
  <2> QED BY <1>1, <1>4, <2>2, <2>3, <2>4, <2>5 DEF KeyIsNewest, Made, Active
<1>8. KeyIsNewest'
  <2>1. source.live => \A r \in Stripe!Revs : price'[r].keyed => Active(r)'
    BY <1>1, <1>5, <1>7 DEF SeenIsNewest, Active
  <2>2. UNCHANGED <<source, stripe>> /\ source.rev \in Stripe!Revs
    BY <1>1 DEF StripeTypes
  <2>3. \A r \in Stripe!Revs : Made(r)' <=> Made(r)
    <3>1. Made(q)
      BY <1>1, <1>2 DEF Come, Knows, Locked
    <3> QED BY <1>5, <3>1 DEF Made
  <2> QED BY <1>1, <1>5, <2>1, <2>2, <2>3 DEF KeyIsNewest, Made, Active
<1>9. SeenIsNewest(w)'
  <2>1. \A r \in Stripe!Revs : Made(r)' <=> Made(r)
    <3>1. Made(q)
      BY <1>1, <1>2 DEF Come, Knows, Locked
    <3> QED BY <1>5, <3>1 DEF Made
  <2>2. run[w].seen.live => \A r \in Stripe!Revs : price'[r].keyed => Active(r)'
    BY <1>1, <1>5, <1>7 DEF SeenIsNewest, Active
  <2>3. UNCHANGED source
    OBVIOUS
  <2> QED BY <1>1, <1>3, <1>5, <2>1, <2>2, <2>3 DEF SeenIsNewest, Made, Active
<1>10. Come(w)'
  <2>1. \A r \in run[w].listed : Made(r)'
    BY <1>1, <1>5 DEF Come, Knows, Locked, StripeTypes
  <2>2. run[w].seen.live => HasPrice(run[w].seen, stripe.default)'
    BY <1>1, <1>5, <1>7 DEF Come, HasPrice, Active
  <2>3. ~run[w].seen.live =>
          \A r \in Stripe!Revs : Active(r)' /\ price'[r].keyed => r \in run'[w].listed
    BY <1>1, <1>3, <1>5 DEF Come, Active
  <2> QED BY <1>1, <1>3, <2>1, <2>2, <2>3 DEF Come, HasPrice, Active, Made
<1>11. Fresh(w) => Fresh(w)'
  BY <1>3 DEF Fresh, Knows, Locked
<1>12. OthersAreRetired'
  BY <1>1, <1>3, <1>5 DEF StripeInv, OthersAreRetired, Active
<1> QED BY <1>1, <1>3, <1>6, <1>8, <1>9, <1>10, <1>11, <1>12, HolderStep DEF Locked

LEMMA RetiredKeeps ==
  ASSUME Stripe!CatalogAssumption, StripeInv, NEW w \in Worker, Stripe!Retired(w)
  PROVE  StripeInv'
<1> USE DEF Stripe!Retired, Stripe!At, Stripe!Goto
<1>1. /\ lock = {w} /\ run[w].step \in Locked /\ DOMAIN run[w] = RunFields /\ DOMAIN run = Worker
      /\ SeenIsNewest(w) /\ Come(w) /\ StripeTypes /\ KeyIsNewest
  BY Holder DEF Locked, Knows, StripeInv
<1>2. /\ run'[w].step = "commit" /\ run'[w].seen = run[w].seen /\ DOMAIN run'[w] = RunFields
      /\ run[w].listed = {} /\ run'[w].listed = {} /\ run'[w].price = run[w].price /\ OthersStay(w)
  BY <1>1 DEF RunFields, OthersStay
<1>3. /\ stripe'.default = stripe.default /\ DOMAIN stripe' = DOMAIN stripe
      /\ run[w].seen.live => stripe' = stripe
      /\ ~run[w].seen.live => ~stripe'.active
  BY <1>1 DEF StripeTypes
<1>4. StripeTypes'
  BY <1>1, <1>2, <1>3 DEF StripeTypes, OthersStay, Locked
<1>5. KeyIsNewest'
  BY <1>1, <1>3 DEF KeyIsNewest, Made, Active
<1>6. SeenIsNewest(w)'
  BY <1>1, <1>2 DEF SeenIsNewest, Made, Active
<1>7. Come(w)' /\ (Fresh(w) => Fresh(w)')
  BY <1>1, <1>2, <1>3 DEF Come, Fresh, Knows, Locked, HasPrice, Active
<1>8. OthersAreRetired'
  BY <1>1, <1>2 DEF StripeInv, OthersAreRetired, Active
<1> QED BY <1>1, <1>2, <1>4, <1>5, <1>6, <1>7, <1>8, HolderStep DEF Locked

-----------------------------------------------------------------------------

\* Nobody holds the lock before Begin, and whoever begins has all to read.
LEMMA BeginKeeps ==
  ASSUME Stripe!CatalogAssumption, StripeInv, NEW w \in Worker, Stripe!Begin(w)
  PROVE  StripeInv'
<1> USE DEF Stripe!Begin, Stripe!At, Stripe!Goto
<1>1. /\ lock = {} /\ lock' = {w} /\ run[w].step = "idle" /\ DOMAIN run[w] = RunFields
      /\ DOMAIN run = Worker /\ StripeTypes /\ KeyIsNewest
  BY DEF StripeInv, StripeTypes, Stripe!TryLock
<1>2. /\ run'[w].step = "read" /\ run'[w].seen = run[w].seen /\ DOMAIN run'[w] = RunFields
      /\ run'[w].listed = run[w].listed /\ run'[w].price = run[w].price /\ OthersStay(w)
  BY <1>1 DEF RunFields, OthersStay
<1>3. \A u \in Worker : run[u].step \notin Locked
  BY <1>1 DEF StripeInv, LockIsHeld
<1>4. StripeTypes'
  BY <1>1, <1>2 DEF StripeTypes, OthersStay, Locked
<1>5. LockIsHeld'
  BY <1>1, <1>2, <1>3 DEF LockIsHeld, OthersStay, Locked
<1>6. KeyIsNewest'
  BY <1>1 DEF KeyIsNewest, Made, Active
<1>7. RunsInv'
  BY <1>2, <1>3 DEF RunsInv, OthersStay, Knows, Locked
<1>8. SomebodyWill'
  <2>1. Taken' = Taken \cup {w} /\ w \notin Taken /\ Taken \subseteq Worker
    BY <1>1, <1>2 DEF Taken, OthersStay
  <2>2. Cardinality(Taken') = Cardinality(Taken) + 1 /\ Cardinality(Taken) \in Nat
    BY <2>1, WorkersCount
  <2>3. Cardinality(Taken) < hints
    BY SyncCounts DEF Taken
  <2>4. hints \in Nat /\ hints' = hints
    BY <1>1 DEF StripeTypes
  <2>5. Fresh(w)'
    BY <1>2 DEF Fresh
  <2> QED BY <1>1, <2>2, <2>3, <2>4, <2>5 DEF SomebodyWill
<1>9. OthersAreRetired'
  BY <1>1 DEF StripeInv, OthersAreRetired, Active
<1> QED BY <1>4, <1>5, <1>6, <1>7, <1>8, <1>9 DEF StripeInv

\* What a worker commits is the product, unless that has changed since and left
\* another hint.
LEMMA CommitKeeps ==
  ASSUME Stripe!CatalogAssumption, StripeInv, NEW w \in Worker, Stripe!Commit(w)
  PROVE  StripeInv'
<1> USE DEF Stripe!Commit, Stripe!At, Stripe!Goto
<1>1. /\ lock = {w} /\ run[w].step \in Locked /\ DOMAIN run[w] = RunFields /\ DOMAIN run = Worker
      /\ SeenIsNewest(w) /\ Come(w) /\ StripeTypes /\ KeyIsNewest
  BY Holder DEF Locked, Knows, StripeInv
<1>2. /\ run'[w].step = "complete" /\ run'[w].seen = run[w].seen /\ DOMAIN run'[w] = RunFields
      /\ run'[w].listed = run[w].listed /\ run'[w].price = run[w].price /\ OthersStay(w) /\ lock' = {}
  BY <1>1 DEF RunFields, OthersStay
<1>3. \A u \in Worker : u # w => run[u].step \notin Locked
  BY <1>1 DEF StripeInv, LockIsHeld
<1>4. StripeTypes'
  BY <1>1, <1>2 DEF StripeTypes, OthersStay, Locked
<1>5. LockIsHeld'
  BY <1>1, <1>2, <1>3 DEF LockIsHeld, OthersStay, Locked
<1>6. KeyIsNewest'
  BY <1>1 DEF KeyIsNewest, Made, Active
<1>7. RunsInv'
  BY <1>2, <1>3 DEF RunsInv, OthersStay, Knows, Locked
<1>8. SomebodyWill'
  <2>1. Taken' = Taken
    BY <1>1, <1>2 DEF Taken, OthersStay
  <2>2. Fresh(w) => Synchronised'
    <3>1. SUFFICES ASSUME Fresh(w)
                   PROVE  Synchronised'
      OBVIOUS
    <3>2. /\ run[w].seen.live = source.live /\ run[w].seen.amount = source.amount
          /\ budget.renames = MaxRenames => run[w].seen.category = source.category
      BY <1>1, <3>1 DEF Fresh, SeenIsNewest
    <3>3. UNCHANGED <<source, stripe, price, budget>>
      OBVIOUS
    <3> QED BY <1>1, <3>2, <3>3 DEF Come, Synchronised, HasPrice, Active
  <2> QED BY <1>1, <1>2, <2>1, <2>2 DEF StripeInv, SomebodyWill, Pending
<1>9. OthersAreRetired'
  BY <1>1 DEF StripeInv, OthersAreRetired, Active
<1> QED BY <1>4, <1>5, <1>6, <1>7, <1>8, <1>9 DEF StripeInv

\* A worker that is done, or has failed, gives its hint back with what is
\* left of the lock.
LEMMA LeaveKeeps ==
  ASSUME Stripe!CatalogAssumption, StripeInv, NEW w \in Worker, Stripe!Complete(w) \/ Stripe!Fail(w)
  PROVE  StripeInv'
<1> USE DEF Stripe!Complete, Stripe!Fail, Stripe!At, Stripe!Spend
<1>1. /\ DOMAIN run = Worker /\ StripeTypes /\ KeyIsNewest /\ run[w].step # "idle"
  BY DEF StripeInv, StripeTypes
<1>2. /\ run'[w] = Stripe!Idle /\ OthersStay(w) /\ UNCHANGED <<source, stripe, price>>
  BY <1>1 DEF OthersStay
<1>3. \/ hints' = hints - 1 /\ lock' = lock /\ budget' = budget /\ run[w].step \notin Locked
      \/ /\ hints' = hints /\ lock' = lock \ {w} /\ budget'.faults = budget.faults - 1
         /\ budget'.renames = budget.renames /\ budget'.repeats = budget.repeats
         /\ DOMAIN budget' = DOMAIN budget /\ budget.faults \in 1..StripeFaults
  BY <1>1, CatalogNaturals DEF StripeTypes, Locked
<1>4. /\ Taken' = Taken \ {w} /\ w \in Taken /\ Taken \subseteq Worker
  BY <1>1, <1>2 DEF Taken, OthersStay, Stripe!Idle
<1>5. /\ Cardinality(Taken') = Cardinality(Taken) - 1 /\ Cardinality(Taken) \in Nat
      /\ Cardinality(Taken') \in Nat
  BY <1>4, WorkersCount
<1>6. Cardinality(Taken) <= hints /\ hints \in Nat
  BY DEF StripeInv, SomebodyWill, StripeTypes
<1>7. StripeTypes'
  <2>1. hints' \in Nat
    BY <1>3, <1>5, <1>6
  <2>2. /\ DOMAIN budget' = {"repeats", "renames", "faults"}
        /\ budget'.renames \in 0..MaxRenames /\ budget'.faults \in 0..StripeFaults
        /\ budget'.repeats \in 0..MaxRepeats
    BY <1>1, <1>3, CatalogNaturals DEF StripeTypes
  <2> QED BY <1>1, <1>2, <2>1, <2>2 DEF StripeTypes, OthersStay, Stripe!Idle, RunFields
<1>8. LockIsHeld' /\ \A u \in lock' : u # w /\ u \in lock
  BY <1>2, <1>3 DEF StripeInv, LockIsHeld, OthersStay, Stripe!Idle, Locked
<1>9. KeyIsNewest'
  BY <1>1, <1>2 DEF KeyIsNewest, Made, Active
<1>10. RunsInv'
  BY <1>2 DEF StripeInv, RunsInv, OthersStay, Stripe!Idle, Knows, Locked, SeenIsNewest, Come, HasPrice,
              Made, Active
<1>11. SomebodyWill'
  <2>1. Cardinality(Taken') <= hints'
    BY <1>3, <1>5, <1>6
  <2>2. CASE Pending
    <3>1. Pending'
      BY <1>3, <1>5, <1>6, <2>2 DEF Pending
    <3> QED BY <2>1, <3>1 DEF SomebodyWill
  <2>3. CASE hints' = hints
    <3>1. Pending'
      BY <1>5, <1>6, <2>3 DEF Pending
    <3> QED BY <2>1, <3>1 DEF SomebodyWill
  <2>4. CASE ~Pending /\ hints' = hints - 1
    <3>1. lock' = lock /\ budget' = budget /\ w \notin lock
      BY <1>3, <1>6, <2>4 DEF StripeInv, LockIsHeld
    <3>2. \A u \in lock : Fresh(u)'
      BY <1>2, <2>4, <3>1 DEF StripeInv, SomebodyWill, LockIsHeld, OthersStay, Fresh
    <3>3. Synchronised => Synchronised'
      BY <1>2, <3>1 DEF Synchronised, HasPrice, Active
    <3> QED BY <2>1, <2>4, <3>1, <3>2, <3>3 DEF StripeInv, SomebodyWill
  <2> QED BY <1>3, <2>2, <2>3, <2>4
<1>12. OthersAreRetired'
  <2>1. CASE budget'.faults = StripeFaults
    <3>1. lock' = lock /\ budget' = budget /\ w \notin lock
      BY <1>3, <2>1, CatalogNaturals DEF StripeInv, LockIsHeld
    <3> QED BY <1>2, <3>1 DEF StripeInv, OthersAreRetired, LockIsHeld, OthersStay, Active
  <2> QED BY <2>1 DEF OthersAreRetired
<1> QED BY <1>7, <1>8, <1>9, <1>10, <1>11, <1>12 DEF StripeInv

\* The product service changes the product, or says so twice: there is a hint
\* more, but for a renaming.
LEMMA SourceKeeps ==
  ASSUME Stripe!CatalogAssumption, StripeInv, UNCHANGED <<stripe, price, run, lock>>,
         StripeTypes', KeyIsNewest',
         \A w \in Worker : SeenIsNewest(w) => SeenIsNewest(w)',
         \/ hints' = hints + 1 /\ budget'.renames = budget.renames
         \/ /\ hints' = hints /\ budget'.renames # MaxRenames
            /\ source'.live = source.live /\ source'.rev = source.rev
            /\ source'.amount = source.amount,
         budget'.faults = budget.faults
  PROVE  StripeInv'
<1>1. LockIsHeld'
  BY DEF StripeInv, LockIsHeld
<1>2. \A w \in Worker : Come(w) => Come(w)'
  BY DEF Come, HasPrice, Active, Made
<1>3. RunsInv'
  BY <1>2 DEF StripeInv, RunsInv
<1>4. OthersAreRetired'
  BY DEF StripeInv, OthersAreRetired, Active
<1>5. Taken' = Taken /\ Cardinality(Taken) \in Nat
  BY WorkersCount DEF Taken
<1>6. Cardinality(Taken) <= hints /\ hints \in Nat
  BY DEF StripeInv, SomebodyWill, StripeTypes
<1>7. SomebodyWill'
  <2>1. CASE hints' = hints + 1
    BY <1>5, <1>6, <2>1 DEF SomebodyWill, Pending
  <2>2. CASE /\ hints' = hints /\ budget'.renames # MaxRenames
             /\ source'.live = source.live /\ source'.rev = source.rev
             /\ source'.amount = source.amount
    <3>1. \A w \in lock : Fresh(w) => Fresh(w)'
      BY <2>2 DEF Fresh
    <3>2. Synchronised => Synchronised'
      BY <2>2 DEF Synchronised, HasPrice, Active
    <3> QED BY <1>5, <1>6, <2>2, <3>1, <3>2 DEF StripeInv, SomebodyWill, Pending
  <2> QED BY <2>1, <2>2
<1> QED BY <1>1, <1>3, <1>4, <1>7 DEF StripeInv

LEMMA UpdateKeeps ==
  ASSUME Stripe!CatalogAssumption, StripeInv, NEW m \in Amount, NEW c \in Category, Stripe!Update(m, c)
  PROVE  StripeInv'
<1> USE DEF Stripe!Update
<1>1. /\ StripeTypes /\ KeyIsNewest /\ source.rev \in 1..MaxChanges + 1
      /\ source.rev <= MaxChanges
  BY CatalogNaturals DEF StripeInv, StripeTypes
<1>2. /\ source'.rev = source.rev + 1 /\ source'.amount = m /\ source'.live = source.live
      /\ source.live /\ DOMAIN source' = RowFields
  BY <1>1 DEF StripeTypes, RowFields
<1>3. \A r \in Stripe!Revs : Made(r) => r <= source.rev
  BY <1>1 DEF KeyIsNewest
<1>4. source'.rev \in Stripe!Revs /\ ~Made(source'.rev)
  BY <1>1, <1>2, <1>3, CatalogNaturals
<1>5. StripeTypes'
  <2>1. source'.live \in BOOLEAN
    <3>1. source.live \in BOOLEAN
      BY <1>1 DEF StripeTypes
    <3>2. source'.live = source.live
      BY <1>2
    <3> QED BY <3>1, <3>2
  <2>3. source'.amount \in Amount /\ hints' \in Nat
    BY <1>1, <1>2 DEF StripeTypes
  <2>2. UNCHANGED <<budget, stripe, price, run>>
    OBVIOUS
  <2> QED BY <1>1, <1>2, <1>4, <2>1, <2>2, <2>3 DEF StripeTypes
<1>6. KeyIsNewest'
  <2>1. \A r \in Stripe!Revs : Made(r) => r <= source'.rev
    BY <1>1, <1>2, <1>3, CatalogNaturals
  <2> QED BY <1>1, <1>2, <1>4, <2>1 DEF KeyIsNewest, Made, Active
<1>7. \A w \in Worker : SeenIsNewest(w) => SeenIsNewest(w)'
  <2>1. SUFFICES ASSUME NEW w \in Worker, SeenIsNewest(w)
                 PROVE  SeenIsNewest(w)'
    OBVIOUS
  <2>2. run[w].seen.rev \in Nat /\ run[w].seen.rev <= source.rev
    BY <2>1, CatalogNaturals DEF SeenIsNewest
  <2>3. run[w].seen.rev < source'.rev
    BY <1>1, <1>2, <2>2
  <2> QED BY <1>1, <1>2, <2>1, <2>2, <2>3 DEF SeenIsNewest, Made, Active
<1> QED BY <1>5, <1>6, <1>7, SourceKeeps

LEMMA DeleteKeeps ==
  ASSUME Stripe!CatalogAssumption, StripeInv, Stripe!Delete
  PROVE  StripeInv'
<1> USE DEF Stripe!Delete
<1>1. StripeTypes /\ KeyIsNewest
  BY DEF StripeInv
<1>2. /\ source'.rev = source.rev /\ source'.amount = source.amount /\ ~source'.live
      /\ source'.live \in BOOLEAN /\ DOMAIN source' = RowFields
  BY <1>1 DEF StripeTypes, RowFields
<1>3. StripeTypes'
  BY <1>1, <1>2 DEF StripeTypes
<1>4. KeyIsNewest'
  BY <1>1, <1>2 DEF KeyIsNewest, Made, Active
<1>5. \A w \in Worker : SeenIsNewest(w) => SeenIsNewest(w)'
  BY <1>2 DEF SeenIsNewest, Made, Active
<1> QED BY <1>3, <1>4, <1>5, SourceKeeps

LEMMA RenameCategoryKeeps ==
  ASSUME Stripe!CatalogAssumption, StripeInv, NEW c \in Category, Stripe!RenameCategory(c)
  PROVE  StripeInv'
<1> USE DEF Stripe!RenameCategory, Stripe!Spend
<1>1. StripeTypes /\ KeyIsNewest
  BY DEF StripeInv
<1>2. /\ source'.rev = source.rev /\ source'.amount = source.amount /\ source'.live = source.live
      /\ DOMAIN source' = RowFields
      /\ budget'.renames = budget.renames - 1 /\ budget'.faults = budget.faults
      /\ budget'.repeats = budget.repeats /\ DOMAIN budget' = DOMAIN budget
      /\ budget.renames \in 1..MaxRenames
  BY <1>1, CatalogNaturals DEF StripeTypes, RowFields
<1>3. budget'.renames \in 0..MaxRenames /\ budget'.renames # MaxRenames
  BY <1>2, CatalogNaturals
<1>4. StripeTypes'
  BY <1>1, <1>2, <1>3 DEF StripeTypes
<1>5. KeyIsNewest'
  BY <1>1, <1>2 DEF KeyIsNewest, Made, Active
<1>6. \A w \in Worker : SeenIsNewest(w) => SeenIsNewest(w)'
  BY <1>2 DEF SeenIsNewest, Made, Active
<1> QED BY <1>2, <1>3, <1>4, <1>5, <1>6, SourceKeeps

LEMMA RepeatHintKeeps ==
  ASSUME Stripe!CatalogAssumption, StripeInv, Stripe!RepeatHint
  PROVE  StripeInv'
<1> USE DEF Stripe!RepeatHint, Stripe!Spend
<1>1. StripeTypes /\ KeyIsNewest
  BY DEF StripeInv
<1>2. /\ budget'.renames = budget.renames /\ budget'.faults = budget.faults
      /\ budget'.repeats \in 0..MaxRepeats /\ DOMAIN budget' = DOMAIN budget
  BY <1>1, CatalogNaturals DEF StripeTypes
<1>3. StripeTypes'
  BY <1>1, <1>2 DEF StripeTypes
<1>4. KeyIsNewest'
  BY <1>1 DEF KeyIsNewest, Made, Active
<1>5. \A w \in Worker : SeenIsNewest(w) => SeenIsNewest(w)'
  BY DEF SeenIsNewest, Made, Active
<1> QED BY <1>2, <1>3, <1>4, <1>5, SourceKeeps

LEMMA StripeInvKept ==
  ASSUME Stripe!CatalogAssumption, StripeInv, [Stripe!Next]_(Stripe!vars)
  PROVE  StripeInv'
<1>1. CASE UNCHANGED Stripe!vars
  <2> USE <1>1 DEF Stripe!vars
  <2>1. StripeTypes' /\ LockIsHeld'
    BY DEF StripeInv, StripeTypes, LockIsHeld
  <2>2. KeyIsNewest' /\ OthersAreRetired'
    BY DEF StripeInv, KeyIsNewest, OthersAreRetired, Made, Active
  <2>3. RunsInv'
    BY DEF StripeInv, RunsInv, SeenIsNewest, Come, HasPrice, Made, Active
  <2>4. SomebodyWill'
    BY DEF StripeInv, SomebodyWill, Pending, Taken, Fresh, Synchronised, HasPrice, Active
  <2> QED BY <2>1, <2>2, <2>3, <2>4 DEF StripeInv
<1> QED BY <1>1, BeginKeeps, ReadSourceKeeps, ListPricesKeeps, WriteProductKeeps, ChoosePriceKeeps,
           SetDefaultKeeps, RetirePriceKeeps, RetiredKeeps, CommitKeeps, LeaveKeeps, UpdateKeeps,
           DeleteKeeps, RenameCategoryKeeps, RepeatHintKeeps DEF Stripe!Next, Stripe!Work

LEMMA StripeInvariance ==
  ASSUME Stripe!CatalogAssumption
  PROVE  Stripe!Spec => []StripeInv
<1>1. Stripe!Init => StripeInv
  BY InitStripeInv
<1>2. StripeInv /\ [Stripe!Next]_(Stripe!vars) => StripeInv'
  BY StripeInvKept
<1> QED BY <1>1, <1>2, PTL DEF Stripe!Spec

\* When nobody has a hint in hand, nobody holds the lock.
LEMMA QuietIsPeace ==
  ASSUME Stripe!CatalogAssumption, StripeInv, Stripe!Quiet
  PROVE  Synchronised /\ lock = {}
<1>1. lock = {}
  BY DEF StripeInv, LockIsHeld, Stripe!Quiet, Stripe!At, Locked
<1>2. ~Pending
  BY WorkersCount DEF Stripe!Quiet, Pending, Taken, StripeInv, SomebodyWill
<1> QED BY <1>1, <1>2 DEF StripeInv, SomebodyWill

\* What the invariant promises of Stripe's product.
LEMMA StripePromises ==
  ASSUME Stripe!CatalogAssumption, StripeInv
  PROVE  /\ Stripe!TypeOK
         /\ Stripe!QuietIsSynchronised
         /\ Stripe!DeletedHasNoActivePrice
<1>1. StripeInv => Stripe!TypeOK
  <2>1. StripeInv => lock \subseteq Worker
    BY DEF StripeInv, LockIsHeld
  <2> QED BY <2>1 DEF StripeInv, StripeTypes, Stripe!TypeOK
<1>2. StripeInv => Stripe!QuietIsSynchronised
  <2> SUFFICES ASSUME StripeInv, Stripe!Quiet
               PROVE  /\ stripe.known => (stripe.active <=> source.live)
                      /\ source.live =>
                           /\ stripe.known /\ stripe.default \in Stripe!OnSale
                           /\ price[stripe.default].amount = source.amount
                           /\ {r \in Stripe!OnSale : price[r].keyed} = {stripe.default}
                           /\ budget.renames = MaxRenames => stripe.category = source.category
    BY DEF Stripe!QuietIsSynchronised
  <2>1. Synchronised
    BY QuietIsPeace
  <2>2. \A r \in Stripe!Revs : r \in Nat
    BY CatalogNaturals
  <2>3. source.live => {r \in Stripe!OnSale : price[r].keyed} = {stripe.default}
    BY <2>1, <2>2 DEF StripeInv, KeyIsNewest, Synchronised, HasPrice, Made, Active, Stripe!OnSale
  <2> QED BY <2>1, <2>3 DEF Synchronised, HasPrice, Active, Stripe!OnSale
<1>3. StripeInv => Stripe!DeletedHasNoActivePrice
  BY QuietIsPeace DEF StripeInv, OthersAreRetired, Synchronised, Active, Stripe!OnSale,
                      Stripe!DeletedHasNoActivePrice
<1> QED BY <1>1, <1>2, <1>3

\* Stripe's prices, the runs and the lock have their types.
THEOREM SyncTypeCorrect ==
  ASSUME Stripe!CatalogAssumption
  PROVE  Stripe!Spec => []Stripe!TypeOK
<1>1. StripeInv => Stripe!TypeOK
  BY StripePromises
<1> QED BY <1>1, StripeInvariance, PTL

\* Whatever the order of the hints, the workers and the failures: when all hints
\* are worked off Stripe shows the product as it is.
THEOREM SyncedWhenQuiet ==
  ASSUME Stripe!CatalogAssumption
  PROVE  Stripe!Spec => []Stripe!QuietIsSynchronised
<1>1. StripeInv => Stripe!QuietIsSynchronised
  BY StripePromises
<1> QED BY <1>1, StripeInvariance, PTL

\* A product that is gone leaves no active price, unless a run failed.
THEOREM DeletedIsOffSale ==
  ASSUME Stripe!CatalogAssumption
  PROVE  Stripe!Spec => []Stripe!DeletedHasNoActivePrice
<1>1. StripeInv => Stripe!DeletedHasNoActivePrice
  BY StripePromises
<1> QED BY <1>1, StripeInvariance, PTL

\* A default price gives way only to that of a newer revision.
LEMMA NeverOlder ==
  ASSUME StripeInv, Stripe!Next, Stripe!CatalogAssumption
  PROVE  Stripe!NeverOlderPrice
<1> SUFFICES stripe'.default >= stripe.default
  BY DEF Stripe!NeverOlderPrice
<1>1. StripeTypes /\ stripe.default \in Nat
  BY CatalogNaturals DEF StripeInv, StripeTypes
<1>2. ASSUME NEW w \in Worker, Stripe!SetDefault(w)
      PROVE  stripe'.default >= stripe.default
  <2>1. Come(w) /\ KeyIsNewest /\ run[w].step = "default" /\ stripe'.default = run[w].price
    BY <1>1, <1>2, Holder DEF Stripe!SetDefault, Stripe!At, Locked, Knows, StripeInv, StripeTypes
  <2>2. run[w].price \in Stripe!Revs /\ price[run[w].price].keyed
    BY <2>1 DEF Come, HasPrice
  <2>3. run[w].price \in Nat
    BY <2>2, CatalogNaturals
  <2>4. stripe.default = 0 \/ stripe.default <= run[w].price
    BY <1>1, <2>1, <2>2 DEF KeyIsNewest, StripeTypes
  <2> QED BY <1>1, <2>1, <2>3, <2>4
<1>3. (\A w \in Worker : ~Stripe!SetDefault(w)) => stripe'.default = stripe.default
  BY <1>1 DEF StripeTypes, Stripe!Next, Stripe!Update, Stripe!Delete, Stripe!RenameCategory,
     Stripe!RepeatHint, Stripe!Work, Stripe!Fail, Stripe!Begin, Stripe!ReadSource, Stripe!ListPrices,
     Stripe!WriteProduct, Stripe!ChoosePrice, Stripe!RetirePrice, Stripe!Retired, Stripe!Commit, Stripe!Complete
<1> QED BY <1>1, <1>2, <1>3

\* The default price only becomes that of a newer revision.
THEOREM PriceNeverGoesBack ==
  ASSUME Stripe!CatalogAssumption
  PROVE  Stripe!Spec => [][Stripe!NeverOlderPrice]_(Stripe!vars)
<1>1. StripeInv /\ Stripe!Next => Stripe!NeverOlderPrice
  BY NeverOlder
<1> QED BY <1>1, StripeInvariance, PTL DEF Stripe!Spec

-----------------------------------------------------------------------------
(* CatalogSeed *)

SeedRow == [name : Seed!SeedNames \cup OtherNames \cup {"none"},
            slug : Seed!SeedSlugs \cup OtherSlugs \cup {"none"}]

\* The run began at the first product, and there is one.
PlaceInv ==
  /\ at \in {"categories", "reading"} => next = 1
  /\ at = "reading" => Len(Seeds) # 0
  /\ at = "products" => next <= Len(Seeds)

\* What the run read of the products that are still to come: whoever bears the
\* name of one is the row it found.
KnownInv ==
  at = "products" =>
    \A j \in next..Len(Seeds) : \A i \in Seed!Live :
      rows[i].name = Seeds[j].name => i = known[Seeds[j].name]

\* A product that no event told of is one of the seeds, and the run has stored
\* it or will come to it.
SilentInv ==
  /\ \A i \in silent : i \in Seed!Live /\ rows[i].name \in Seed!SeedNames
  /\ at = "products" =>
       \A i \in silent \ stored : \E j \in next..Len(Seeds) : rows[i].name = Seeds[j].name
  /\ at = "publishing" => silent \subseteq stored

SeedInv ==
  /\ rows \in Seq(SeedRow) /\ Seed!TypeOK
  /\ Seed!OneProductPerName /\ Seed!ReplayIsComplete
  /\ PlaceInv /\ KnownInv /\ SilentInv

LEMMA ElementOfSeq ==
  ASSUME NEW S, NEW q \in Seq(S), NEW i \in 1..Len(q)
  PROVE  q[i] \in S
OBVIOUS

LEMMA SeedFacts ==
  ASSUME Seed!SeedAssumption
  PROVE  /\ Len(Seeds) \in Nat /\ DOMAIN Seeds = 1..Len(Seeds)
         /\ MaxRuns \in Nat /\ SeedFaults \in Nat /\ SeedEdits \in Nat
         /\ "none" \notin Seed!SeedSlugs /\ "none" \notin OtherSlugs
         /\ \A j \in 1..Len(Seeds) :
              /\ Seeds[j] \in SeedRow /\ Seeds[j] # Seed!None
              /\ Seeds[j].name \in Seed!SeedNames /\ Seeds[j].slug \in Seed!SeedSlugs
         /\ \A n \in Seed!SeedNames : n \notin OtherNames /\ \E j \in 1..Len(Seeds) : n = Seeds[j].name
         /\ \A i, j \in 1..Len(Seeds) : Seeds[i].name = Seeds[j].name => i = j
<1> USE DEF Seed!SeedAssumption
<1>1. Len(Seeds) \in Nat /\ DOMAIN Seeds = 1..Len(Seeds)
  OBVIOUS
<1>2. "none" \notin Seed!SeedSlugs /\ "none" \notin OtherSlugs
  BY DEF Seed!None, Seed!SeedSlugs
<1>3. ASSUME NEW j \in 1..Len(Seeds)
      PROVE  /\ Seeds[j] \in SeedRow /\ Seeds[j] # Seed!None
             /\ Seeds[j].name \in Seed!SeedNames /\ Seeds[j].slug \in Seed!SeedSlugs
  <2>1. Seeds[j] = [name |-> Seeds[j].name, slug |-> Seeds[j].slug]
    <3>1. Seeds \in Seq([name : STRING, slug : STRING])
      OBVIOUS
    <3> HIDE DEF Seed!SeedAssumption
    <3>2. Seeds[j] \in [name : STRING, slug : STRING]
      BY <3>1, ElementOfSeq
    <3> QED BY <3>2
  <2>2. Seeds[j].name \in Seed!SeedNames /\ Seeds[j].slug \in Seed!SeedSlugs
    BY <1>1 DEF Seed!SeedNames, Seed!SeedSlugs
  <2> QED BY <2>1, <2>2, <1>2 DEF SeedRow, Seed!None
<1>4. \A n \in Seed!SeedNames : n \notin OtherNames /\ \E j \in 1..Len(Seeds) : n = Seeds[j].name
  BY <1>1 DEF Seed!SeedNames
<1>5. \A i, j \in 1..Len(Seeds) : Seeds[i].name = Seeds[j].name => i = j
  BY <1>1
<1> QED BY <1>1, <1>2, <1>3, <1>4, <1>5

\* A row is replaced, or added after the last.
LEMMA WriteWrites ==
  ASSUME rows \in Seq(SeedRow), NEW id \in 1..Len(rows) + 1, NEW entry \in SeedRow,
         Seed!Write(id, entry)
  PROVE  /\ rows' \in Seq(SeedRow) /\ DOMAIN rows' = DOMAIN rows \cup {id}
         /\ rows'[id] = entry
         /\ \A i \in DOMAIN rows : i # id => rows'[i] = rows[i]
<1>1. DOMAIN rows = 1..Len(rows) /\ Len(rows) \in Nat
  OBVIOUS
<1>2. rows' = [i \in DOMAIN rows \cup {id} |-> IF i = id THEN entry ELSE rows[i]]
  BY DEF Seed!Write
<1>3. PICK n \in Nat : DOMAIN rows \cup {id} = 1..n
  <2>1. CASE id = Len(rows) + 1
    BY <2>1, <1>1
  <2>2. CASE id # Len(rows) + 1
    BY <2>2, <1>1
  <2> QED BY <2>1, <2>2
<1>4. \A i \in DOMAIN rows : rows[i] \in SeedRow
  OBVIOUS
<1>5. rows' \in [1..n -> SeedRow]
  BY <1>2, <1>3, <1>4
<1>6. rows' \in Seq(SeedRow)
  BY <1>3, <1>5
<1> QED BY <1>2, <1>6

\* Rows keep their ids, and who lives was there or is written.
LEMMA WriteLives ==
  ASSUME rows \in Seq(SeedRow), NEW id \in 1..Len(rows) + 1, NEW entry \in SeedRow,
         Seed!Write(id, entry)
  PROVE  /\ \A i \in Seed!Live' : i # id => i \in Seed!Live /\ rows'[i] = rows[i]
         /\ \A i \in Seed!Live : i # id => i \in Seed!Live' /\ rows'[i] = rows[i]
         /\ entry # Seed!None => id \in Seed!Live'
         /\ rows'[id] = entry
BY WriteWrites DEF Seed!Live

\* Nothing is stored at first.
LEMMA InitSeedInv ==
  ASSUME Seed!SeedAssumption, Seed!Init
  PROVE  SeedInv
<1> USE DEF Seed!Init
<1>1. rows \in Seq(SeedRow) /\ Seed!Live = {} /\ DOMAIN rows = {}
  BY DEF Seed!Live
<1>2. Seed!TypeOK
  BY <1>1, SeedFacts DEF Seed!TypeOK, Seed!NothingKnown
<1> QED BY <1>1, <1>2, SeedFacts DEF SeedInv, Seed!OneProductPerName, Seed!ReplayIsComplete, PlaceInv, KnownInv,
          SilentInv

\* A step that leaves the catalogue and the run alone.
LEMMA SeedStutter ==
  ASSUME SeedInv, UNCHANGED Seed!vars
  PROVE  SeedInv'
BY DEF SeedInv, Seed!vars, Seed!catalogue, Seed!run, Seed!TypeOK, Seed!Live, Seed!OneProductPerName,
       Seed!ReplayIsComplete, PlaceInv, KnownInv, SilentInv

LEMMA StartKeeps ==
  ASSUME Seed!SeedAssumption, SeedInv, Seed!Start
  PROVE  SeedInv'
<1> USE DEF Seed!Start, SeedInv, Seed!catalogue
<1>1. rows' = rows /\ slugs' = slugs /\ silent' = silent /\ Seed!Live' = Seed!Live
  BY DEF Seed!Live
<1>2. Seed!TypeOK'
  BY <1>1, SeedFacts DEF Seed!TypeOK, Seed!NothingKnown
<1>3. Seed!OneProductPerName' /\ Seed!ReplayIsComplete' /\ PlaceInv' /\ KnownInv' /\ SilentInv'
  BY <1>1 DEF Seed!OneProductPerName, Seed!ReplayIsComplete, PlaceInv, KnownInv, SilentInv
<1> QED BY <1>1, <1>2, <1>3

LEMMA UpsertCategoryKeeps ==
  ASSUME Seed!SeedAssumption, SeedInv, NEW s \in Seed!SeedSlugs, Seed!UpsertCategory(s)
  PROVE  SeedInv'
<1> USE DEF Seed!UpsertCategory, SeedInv
<1>1. rows' = rows /\ silent' = silent /\ Seed!Live' = Seed!Live
  BY DEF Seed!Live
<1>2. Seed!TypeOK'
  BY <1>1 DEF Seed!TypeOK
<1>3. Len(Seeds) # 0
  BY SeedFacts DEF Seed!SeedSlugs
<1>4. Seed!OneProductPerName' /\ Seed!ReplayIsComplete' /\ PlaceInv' /\ KnownInv' /\ SilentInv'
  BY <1>1, <1>3 DEF Seed!OneProductPerName, Seed!ReplayIsComplete, PlaceInv, KnownInv, SilentInv
<1> QED BY <1>1, <1>2, <1>4

\* What is read is the one row of a name.
LEMMA ReadExistingKeeps ==
  ASSUME Seed!SeedAssumption, SeedInv, Seed!ReadExisting
  PROVE  SeedInv'
<1> USE DEF Seed!ReadExisting, SeedInv, Seed!catalogue
<1>1. rows' = rows /\ silent' = silent /\ slugs' = slugs /\ Seed!Live' = Seed!Live
  BY DEF Seed!Live
<1>2. PICK ids \in [Seed!SeedNames -> Seed!Live \cup {0}] :
        /\ \A n \in Seed!SeedNames :
             LET found == {i \in Seed!Live : rows[i].name = n} IN
             IF found = {} THEN ids[n] = 0 ELSE ids[n] \in found
        /\ known' = ids
  BY DEF Seed!FindExisting
<1>3. Seed!Live \subseteq DOMAIN rows
  BY DEF Seed!Live
<1>4. Seed!TypeOK'
  BY <1>1, <1>2, <1>3 DEF Seed!TypeOK
<1>5. KnownInv'
  <2> SUFFICES ASSUME NEW j \in 1..Len(Seeds), NEW i \in Seed!Live, rows[i].name = Seeds[j].name
               PROVE  i = known'[Seeds[j].name]
    BY <1>1 DEF KnownInv, PlaceInv
  <2>1. Seeds[j].name \in Seed!SeedNames
    BY SeedFacts
  <2>2. ids[Seeds[j].name] \in Seed!Live /\ rows[ids[Seeds[j].name]].name = Seeds[j].name
    BY <1>2, <2>1
  <2> QED BY <1>2, <2>1, <2>2 DEF Seed!OneProductPerName
<1>6. SilentInv'
  BY <1>1, SeedFacts DEF SilentInv, PlaceInv
<1>7. Seed!OneProductPerName' /\ Seed!ReplayIsComplete' /\ PlaceInv'
  BY <1>1, SeedFacts DEF Seed!OneProductPerName, Seed!ReplayIsComplete, PlaceInv
<1> QED BY <1>1, <1>4, <1>5, <1>6, <1>7

\* The product in hand is stored in the one row that bears its name, or in a new
\* one; so none of its name stays untold.
LEMMA StoreProductKeeps ==
  ASSUME Seed!SeedAssumption, SeedInv, Seed!StoreProduct
  PROVE  SeedInv'
<1> USE DEF SeedInv
<1> DEFINE seed == Seeds[next]
           id == IF known[seed.name] # 0 THEN known[seed.name] ELSE Len(rows) + 1
           gone == known[seed.name] # 0 /\ id \notin Seed!Live
<1>0. at = "products" /\ UNCHANGED <<calm, faults, edits>>
  BY DEF Seed!StoreProduct
<1>1. /\ next \in 1..Len(Seeds) /\ seed \in SeedRow /\ seed # Seed!None
      /\ seed.name \in Seed!SeedNames /\ seed.slug \in Seed!SeedSlugs
  BY <1>0, SeedFacts DEF PlaceInv, Seed!TypeOK
<1>2. DOMAIN rows = 1..Len(rows) /\ Len(rows) \in Nat /\ Seed!Live \subseteq DOMAIN rows
  BY DEF Seed!Live
<1>3. id \in 1..Len(rows) + 1 /\ (known[seed.name] # 0 => id \in 1..Len(rows))
  BY <1>1, <1>2 DEF Seed!TypeOK
<1>4. \A i \in Seed!Live : rows[i].name = seed.name => i = known[seed.name]
  BY <1>0, <1>1 DEF KnownInv
<1>n. /\ next + 1 \in 1..Len(Seeds) + 1 /\ (next # Len(Seeds) => next + 1 <= Len(Seeds))
      /\ next + 1 .. Len(Seeds) \subseteq next .. Len(Seeds)
      /\ \A j \in next .. Len(Seeds) : j # next => j \in next + 1 .. Len(Seeds)
      /\ next = Len(Seeds) => next + 1 .. Len(Seeds) = {}
  <2>1. next \in 1..Len(Seeds) /\ Len(Seeds) \in Nat
    BY <1>1, SeedFacts
  <2> HIDE DEF SeedInv
  <2> QED BY <2>1
<1>5. CASE gone /\ UNCHANGED <<rows, silent, stored, slugs, todo, known, ended, runs>>
           /\ next' = next + 1 /\ at' = IF next = Len(Seeds) THEN "publishing" ELSE at
  <2>1. Seed!Live' = Seed!Live
    BY <1>5 DEF Seed!Live
  <2>2. Seed!TypeOK'
    BY <1>5, <1>0, <1>n, <2>1 DEF Seed!TypeOK
  <2>3. \A i \in silent : rows[i].name # seed.name
    BY <1>4, <1>5 DEF SilentInv
  <2>4. SilentInv'
    <3>1. \A i \in silent \ stored : \E j \in next + 1 .. Len(Seeds) : rows[i].name = Seeds[j].name
      <4> SUFFICES ASSUME NEW i \in silent \ stored
                   PROVE  \E j \in next + 1 .. Len(Seeds) : rows[i].name = Seeds[j].name
        OBVIOUS
      <4>1. PICK j \in next..Len(Seeds) : rows[i].name = Seeds[j].name
        BY <1>0 DEF SilentInv
      <4> QED BY <4>1, <2>3, <1>n
    <3> QED BY <3>1, <1>5, <1>0, <1>n, <2>1 DEF SilentInv
  <2>5. KnownInv'
    BY <1>5, <1>0, <1>n, <2>1 DEF KnownInv
  <2>6. Seed!OneProductPerName' /\ Seed!ReplayIsComplete' /\ PlaceInv'
    BY <1>5, <1>0, <1>n, <2>1 DEF Seed!OneProductPerName, Seed!ReplayIsComplete, PlaceInv
  <2> QED BY <1>5, <2>2, <2>4, <2>5, <2>6
<1>6. CASE /\ ~gone /\ seed.slug \in slugs /\ Seed!Write(id, seed)
           /\ silent' = silent \cup {id} /\ stored' = stored \cup {id}
           /\ next' = next + 1 /\ (at' = IF next = Len(Seeds) THEN "publishing" ELSE at)
           /\ UNCHANGED <<slugs, todo, known, ended, runs>>
  <2>1. /\ rows' \in Seq(SeedRow) /\ DOMAIN rows' = DOMAIN rows \cup {id}
        /\ rows'[id] = seed /\ id \in Seed!Live'
        /\ \A i \in Seed!Live' : i # id => i \in Seed!Live /\ rows'[i] = rows[i]
        /\ \A i \in Seed!Live : i # id => i \in Seed!Live' /\ rows'[i] = rows[i]
    BY <1>1, <1>3, <1>6, WriteWrites, WriteLives
  <2>2. Seed!TypeOK'
    <3>1. \A i \in Seed!Live' : rows'[i].name \in Seed!SeedNames \cup OtherNames /\ rows'[i].slug \in slugs
      BY <2>1, <1>1, <1>6 DEF Seed!TypeOK
    <3>2. silent' \cup stored' \subseteq DOMAIN rows' /\ known' \in [Seed!SeedNames -> DOMAIN rows' \cup {0}]
      BY <2>1, <1>6 DEF Seed!TypeOK
    <3> QED BY <3>1, <3>2, <1>6, <1>0, <1>n DEF Seed!TypeOK
  <2>3. \A i \in Seed!Live : rows[i].name = seed.name => i = id
    BY <1>4, <1>2
  <2>4. Seed!OneProductPerName'
    <3> SUFFICES ASSUME NEW i \in Seed!Live', NEW j \in Seed!Live', rows'[i].name = rows'[j].name,
                        rows'[i].name \in Seed!SeedNames
                 PROVE  i = j
      BY DEF Seed!OneProductPerName
    <3>1. CASE i = id \/ j = id
      BY <3>1, <2>1, <2>3
    <3>2. CASE i # id /\ j # id
      BY <3>2, <2>1 DEF Seed!OneProductPerName
    <3> QED BY <3>1, <3>2
  <2>5. KnownInv'
    <3> SUFFICES ASSUME NEW j \in next + 1 .. Len(Seeds), NEW i \in Seed!Live', rows'[i].name = Seeds[j].name
                 PROVE  i = known[Seeds[j].name]
      BY <1>6 DEF KnownInv
    <3>1. i # id
      BY <2>1, <1>1, SeedFacts
    <3> QED BY <3>1, <2>1, <1>n, <1>0 DEF KnownInv
  <2>6. SilentInv'
    <3>1. \A i \in silent' : i \in Seed!Live' /\ rows'[i].name \in Seed!SeedNames
      BY <2>1, <1>1, <1>6 DEF SilentInv
    <3>2. \A i \in silent' \ stored' : \E j \in next + 1 .. Len(Seeds) : rows'[i].name = Seeds[j].name
      <4> SUFFICES ASSUME NEW i \in silent \ stored, i # id
                   PROVE  \E j \in next + 1 .. Len(Seeds) : rows'[i].name = Seeds[j].name
        BY <1>6
      <4>1. PICK j \in next..Len(Seeds) : rows[i].name = Seeds[j].name
        BY <1>0 DEF SilentInv
      <4>2. i \in Seed!Live /\ rows'[i] = rows[i]
        BY <2>1 DEF SilentInv
      <4>3. j # next
        BY <4>1, <4>2, <2>3
      <4> QED BY <4>1, <4>2, <4>3, <1>n
    <3> QED BY <3>1, <3>2, <1>6, <1>0, <1>n DEF SilentInv
  <2>7. Seed!ReplayIsComplete' /\ PlaceInv'
    BY <1>6, <1>0, <1>n DEF Seed!ReplayIsComplete, PlaceInv
  <2> QED BY <2>1, <2>2, <2>4, <2>5, <2>6, <2>7
<1>7. CASE Seed!Ends("failed") /\ UNCHANGED Seed!catalogue
  <2>1. Seed!Live' = Seed!Live /\ rows' = rows /\ silent' = silent /\ slugs' = slugs
    BY <1>7 DEF Seed!Live, Seed!catalogue
  <2>2. Seed!TypeOK'
    BY <1>7, <1>0, <2>1 DEF Seed!TypeOK, Seed!Ends
  <2> QED BY <1>7, <2>1, <2>2 DEF Seed!Ends, Seed!OneProductPerName, Seed!ReplayIsComplete, PlaceInv, KnownInv,
            SilentInv
<1> QED BY <1>5, <1>6, <1>7 DEF Seed!StoreProduct, Seed!Updated, Seed!ToAnnounce

\* What is sent is told; when all is sent, nothing stays untold.
LEMMA EndKeeps ==
  ASSUME Seed!SeedAssumption, SeedInv, UNCHANGED <<slugs, rows, calm, edits>>,
         at' = "off", faults' \in 0..SeedFaults, ended' \in {"published", "unpublished", "failed"},
         UNCHANGED <<todo, known, next, stored, runs>>, silent' \subseteq silent,
         ended' = "published" => silent' = {}
  PROVE  SeedInv'
<1> USE DEF SeedInv
<1>1. Seed!Live' = Seed!Live
  BY DEF Seed!Live
<1>2. Seed!TypeOK'
  BY <1>1 DEF Seed!TypeOK
<1> QED BY <1>1, <1>2 DEF Seed!OneProductPerName, Seed!ReplayIsComplete, PlaceInv, KnownInv, SilentInv

LEMMA SeedPublishKeeps ==
  ASSUME Seed!SeedAssumption, SeedInv, Seed!Publish
  PROVE  SeedInv'
<1>1. faults \in 0..SeedFaults /\ silent \subseteq stored
  BY DEF Seed!Publish, SeedInv, Seed!TypeOK, SilentInv
<1>2. CASE Seed!sendBatch(FALSE) /\ Seed!Ends("published") /\ UNCHANGED faults
  BY <1>1, <1>2, EndKeeps DEF Seed!Publish, Seed!Ends, Seed!sendBatch
<1>3. CASE /\ faults < SeedFaults /\ faults' = faults + 1
           /\ Seed!sendBatch(TRUE) /\ Seed!Ends("unpublished")
  <2>1. faults' \in 0..SeedFaults
    BY <1>1, <1>3, SeedFacts
  <2> QED BY <2>1, <1>3, EndKeeps DEF Seed!Publish, Seed!Ends, Seed!sendBatch
<1> QED BY <1>2, <1>3 DEF Seed!Publish

LEMMA FailKeeps ==
  ASSUME Seed!SeedAssumption, SeedInv, Seed!Fail
  PROVE  SeedInv'
<1>1. faults' \in 0..SeedFaults
  BY SeedFacts DEF Seed!Fail, SeedInv, Seed!TypeOK
<1>2. silent' \subseteq silent
  BY DEF Seed!Fail, Seed!sendBatch
<1> QED BY <1>1, <1>2, EndKeeps DEF Seed!Fail, Seed!Ends

\* An editor's change of a product is told, and gives no product a seed's name.
LEMMA EditKeeps ==
  ASSUME Seed!SeedAssumption, SeedInv, Seed!Edit, UNCHANGED slugs,
         NEW id \in Seed!Live, NEW entry \in SeedRow, Seed!Write(id, entry),
         silent' = silent \ {id},
         entry # Seed!None => /\ entry.name \in OtherNames \cup {rows[id].name}
                              /\ entry.slug \in slugs
  PROVE  SeedInv'
<1> USE DEF SeedInv, Seed!Edit, Seed!run
<1>1. DOMAIN rows = 1..Len(rows) /\ Len(rows) \in Nat /\ id \in DOMAIN rows /\ id \in 1..Len(rows) + 1
  BY DEF Seed!Live
<1>2. /\ rows' \in Seq(SeedRow) /\ DOMAIN rows' = DOMAIN rows
      /\ rows'[id] = entry
      /\ \A i \in Seed!Live' : i # id => i \in Seed!Live /\ rows'[i] = rows[i]
      /\ \A i \in Seed!Live : i # id => i \in Seed!Live' /\ rows'[i] = rows[i]
      /\ id \in Seed!Live' => entry # Seed!None
  <2>1. rows' \in Seq(SeedRow) /\ DOMAIN rows' = DOMAIN rows /\ rows'[id] = entry
    BY <1>1, WriteWrites
  <2> QED BY <2>1, <1>1, WriteLives DEF Seed!Live
<1>3. \A i \in Seed!Live' : /\ i \in Seed!Live
                            /\ rows'[i].name \in Seed!SeedNames => rows[i].name = rows'[i].name
  BY <1>2, SeedFacts
<1>4. Seed!TypeOK'
  <2>1. \A i \in Seed!Live' : rows'[i].name \in Seed!SeedNames \cup OtherNames /\ rows'[i].slug \in slugs
    BY <1>2 DEF Seed!TypeOK
  <2>2. edits' \in 0..SeedEdits
    BY SeedFacts DEF Seed!TypeOK
  <2>3. silent' \cup stored' \subseteq DOMAIN rows' /\ calm' \in BOOLEAN
    BY <1>2 DEF Seed!TypeOK
  <2> QED BY <2>1, <2>2, <2>3, <1>2 DEF Seed!TypeOK
<1>5. Seed!OneProductPerName'
  <2>1. SUFFICES ASSUME NEW n \in Seed!SeedNames, NEW i \in Seed!Live', NEW j \in Seed!Live',
                        rows'[i].name = n, rows'[j].name = n
        PROVE  i = j
    BY DEF Seed!OneProductPerName
  <2>2. i \in Seed!Live /\ j \in Seed!Live /\ rows[i].name = n /\ rows[j].name = n
    BY ONLY <1>3, <2>1
  <2>3. Seed!OneProductPerName
    OBVIOUS
  <2> QED BY ONLY <2>1, <2>2, <2>3 DEF Seed!OneProductPerName
<1>6. KnownInv'
  <2> SUFFICES ASSUME at = "products", NEW j \in next..Len(Seeds), NEW i \in Seed!Live',
                      rows'[i].name = Seeds[j].name
               PROVE  i = known[Seeds[j].name]
    BY DEF KnownInv
  <2>1. Seeds[j].name \in Seed!SeedNames
    BY SeedFacts DEF Seed!TypeOK
  <2>2. rows'[i].name = Seeds[j].name /\ i \in Seed!Live'
    OBVIOUS
  <2>3. i \in Seed!Live /\ rows[i].name = Seeds[j].name
    BY ONLY <2>1, <2>2, <1>3
  <2> QED BY <2>3 DEF KnownInv
<1>7. SilentInv'
  <2>1. \A i \in silent' : i # id /\ i \in Seed!Live /\ i \in Seed!Live' /\ rows'[i] = rows[i]
    BY <1>2 DEF SilentInv
  <2> QED BY <2>1 DEF SilentInv
<1>8. Seed!ReplayIsComplete' /\ PlaceInv'
  BY DEF Seed!ReplayIsComplete, PlaceInv
<1> QED BY <1>2, <1>4, <1>5, <1>6, <1>7, <1>8

LEMMA UpdateProductKeeps ==
  ASSUME Seed!SeedAssumption, SeedInv, NEW id \in Seed!Live, Seed!UpdateProduct(id)
  PROVE  SeedInv'
<1>1. PICK n \in OtherNames \cup {rows[id].name}, s \in slugs :
        Seed!Write(id, [name |-> n, slug |-> s])
  BY DEF Seed!UpdateProduct
<1>2. [name |-> n, slug |-> s] \in SeedRow
  BY <1>1 DEF SeedRow, SeedInv, Seed!TypeOK
<1> QED BY <1>1, <1>2, EditKeeps DEF Seed!UpdateProduct

LEMMA DeleteProductKeeps ==
  ASSUME Seed!SeedAssumption, SeedInv, NEW id \in Seed!Live, Seed!DeleteProduct(id)
  PROVE  SeedInv'
<1>1. Seed!None \in SeedRow
  BY DEF Seed!None, SeedRow
<1> QED BY <1>1, EditKeeps DEF Seed!DeleteProduct

\* A category's new name goes to its products, and to no other row.
LEMMA SeedRenameCategoryKeeps ==
  ASSUME Seed!SeedAssumption, SeedInv, NEW s \in slugs, Seed!RenameCategory(s)
  PROVE  SeedInv'
<1> USE DEF SeedInv, Seed!RenameCategory, Seed!Edit, Seed!run
<1>1. PICK to \in OtherSlugs \ slugs :
        /\ slugs' = (slugs \ {s}) \cup {to}
        /\ rows' = [i \in DOMAIN rows |-> IF rows[i].slug = s THEN [rows[i] EXCEPT !.slug = to]
                                                              ELSE rows[i]]
  OBVIOUS
<1>2. to # "none" /\ s # "none" /\ to \in Seed!SeedSlugs \cup OtherSlugs
  BY SeedFacts DEF Seed!TypeOK
<1>3. \A i \in DOMAIN rows : /\ rows[i] \in SeedRow /\ rows'[i] \in SeedRow /\ rows'[i].name = rows[i].name
                             /\ rows'[i].slug = IF rows[i].slug = s THEN to ELSE rows[i].slug
  <2> SUFFICES ASSUME NEW i \in DOMAIN rows
               PROVE  /\ rows[i] \in SeedRow /\ rows'[i] \in SeedRow /\ rows'[i].name = rows[i].name
                      /\ rows'[i].slug = IF rows[i].slug = s THEN to ELSE rows[i].slug
    OBVIOUS
  <2>1. rows[i] \in SeedRow
    OBVIOUS
  <2>2. rows'[i] = IF rows[i].slug = s THEN [rows[i] EXCEPT !.slug = to] ELSE rows[i]
    BY <1>1
  <2>3. [rows[i] EXCEPT !.slug = to] \in SeedRow /\ [rows[i] EXCEPT !.slug = to].name = rows[i].name
        /\ [rows[i] EXCEPT !.slug = to].slug = to
    BY <2>1, <1>2 DEF SeedRow
  <2> QED BY <2>1, <2>2, <2>3
<1>4. DOMAIN rows' = DOMAIN rows /\ rows' \in Seq(SeedRow)
  <2>1. DOMAIN rows = 1..Len(rows) /\ Len(rows) \in Nat
    OBVIOUS
  <2>2. rows' \in [1..Len(rows) -> SeedRow]
    BY <1>1, <1>3, <2>1
  <2> QED BY <2>1, <2>2, <1>1
<1>5. Seed!Live' = Seed!Live
  <2>1. \A i \in DOMAIN rows : rows[i] = Seed!None <=> rows'[i] = Seed!None
    BY <1>1, <1>2, <1>3 DEF SeedRow, Seed!None
  <2> QED BY <2>1, <1>4 DEF Seed!Live
<1>6. \A i \in Seed!Live : i \in DOMAIN rows /\ rows'[i].name = rows[i].name
  BY <1>3 DEF Seed!Live
<1>7. Seed!TypeOK'
  <2>1. \A i \in Seed!Live' : rows'[i].name \in Seed!SeedNames \cup OtherNames /\ rows'[i].slug \in slugs'
    BY <1>1, <1>3, <1>5, <1>6 DEF Seed!TypeOK
  <2>2. edits' \in 0..SeedEdits
    BY SeedFacts DEF Seed!TypeOK
  <2> QED BY <2>1, <2>2, <1>1, <1>2, <1>4 DEF Seed!TypeOK
<1>8. Seed!OneProductPerName' /\ Seed!ReplayIsComplete' /\ PlaceInv'
  BY <1>5, <1>6 DEF Seed!OneProductPerName, Seed!ReplayIsComplete, PlaceInv
<1>9. KnownInv' /\ SilentInv'
  BY <1>5, <1>6 DEF KnownInv, SilentInv
<1> QED BY <1>4, <1>7, <1>8, <1>9

\* Only an unused category goes.
LEMMA DeleteCategoryKeeps ==
  ASSUME Seed!SeedAssumption, SeedInv, NEW s \in slugs, Seed!DeleteCategory(s)
  PROVE  SeedInv'
<1> USE DEF SeedInv, Seed!DeleteCategory, Seed!Edit, Seed!run
<1>1. Seed!Live' = Seed!Live
  BY DEF Seed!Live
<1>2. Seed!TypeOK'
  <2>1. edits' \in 0..SeedEdits
    BY SeedFacts DEF Seed!TypeOK
  <2>2. \A i \in Seed!Live : rows[i].slug \in slugs \ {s}
    BY DEF Seed!TypeOK
  <2> QED BY <1>1, <2>1, <2>2 DEF Seed!TypeOK
<1> QED BY <1>1, <1>2 DEF Seed!OneProductPerName, Seed!ReplayIsComplete, PlaceInv, KnownInv, SilentInv

LEMMA SeedInvKept ==
  ASSUME Seed!SeedAssumption, SeedInv, [Seed!Next]_Seed!vars
  PROVE  SeedInv'
<1>1. CASE Seed!Start
  BY <1>1, StartKeeps
<1>2. ASSUME NEW s \in Seed!SeedSlugs, Seed!UpsertCategory(s) PROVE SeedInv'
  BY <1>2, UpsertCategoryKeeps
<1>3. CASE Seed!ReadExisting
  BY <1>3, ReadExistingKeeps
<1>4. CASE Seed!StoreProduct
  BY <1>4, StoreProductKeeps
<1>5. CASE Seed!Publish
  BY <1>5, SeedPublishKeeps
<1>6. CASE Seed!Fail
  BY <1>6, FailKeeps
<1>7. ASSUME NEW id \in Seed!Live, Seed!UpdateProduct(id) \/ Seed!DeleteProduct(id) PROVE SeedInv'
  BY <1>7, UpdateProductKeeps, DeleteProductKeeps
<1>8. ASSUME NEW s \in slugs, Seed!RenameCategory(s) \/ Seed!DeleteCategory(s) PROVE SeedInv'
  BY <1>8, SeedRenameCategoryKeeps, DeleteCategoryKeeps
<1>9. CASE UNCHANGED Seed!vars
  BY <1>9, SeedStutter
<1> QED BY <1>1, <1>2, <1>3, <1>4, <1>5, <1>6, <1>7, <1>8, <1>9 DEF Seed!Next, Seed!JobStep

LEMMA SeedInvariance ==
  ASSUME Seed!SeedAssumption
  PROVE  Seed!Spec => []SeedInv
<1>1. Seed!Init => SeedInv
  BY InitSeedInv
<1>2. SeedInv /\ [Seed!Next]_Seed!vars => SeedInv'
  BY SeedInvKept
<1> QED BY <1>1, <1>2, PTL DEF Seed!Spec

\* What the invariant promises of the seed job.
LEMMA SeedPromises ==
  ASSUME Seed!SeedAssumption, SeedInv
  PROVE  /\ Seed!TypeOK
         /\ Seed!OneProductPerName
         /\ Seed!ReplayIsComplete
<1>1. SeedInv => Seed!TypeOK
  BY DEF SeedInv
<1>2. SeedInv => Seed!OneProductPerName
  BY DEF SeedInv
<1>3. SeedInv => Seed!ReplayIsComplete
  BY DEF SeedInv
<1> QED BY <1>1, <1>2, <1>3

\* Every variable has its type, and every product its category.
THEOREM SeedTypeCorrect ==
  ASSUME Seed!SeedAssumption
  PROVE  Seed!Spec => []Seed!TypeOK
<1>1. SeedInv => Seed!TypeOK
  BY SeedPromises
<1> QED BY <1>1, SeedInvariance, PTL

\* However often the job (product-service/src/scripts/seed.ts) fails, dies and is
\* run again, and whatever editors make of its rows: it stores a product once.
THEOREM SeedsAreStoredOnce ==
  ASSUME Seed!SeedAssumption
  PROVE  Seed!Spec => []Seed!OneProductPerName
<1>1. SeedInv => Seed!OneProductPerName
  BY SeedPromises
<1> QED BY <1>1, SeedInvariance, PTL

\* A run that has published leaves no product of any run unannounced, so that a
\* replay after an outage of the brokers is complete.
THEOREM ReplaysAreComplete ==
  ASSUME Seed!SeedAssumption
  PROVE  Seed!Spec => []Seed!ReplayIsComplete
<1>1. SeedInv => Seed!ReplayIsComplete
  BY SeedPromises
<1> QED BY <1>1, SeedInvariance, PTL

-----------------------------------------------------------------------------
(* ThemeTabs *)

\* The types, with the tabs' news as one function; a choice is stored only where
\* there is storage, and only a tab that is there listens.
ThemeTypes ==
  /\ Theme!TypeOK
  /\ \A t \in mounted : applied[t] \in Theme!Themes
  /\ \A t \in Tabs : turned[t] => t \in mounted
  /\ news \in [Tabs -> Seq(Theme!Themes \cup {Theme!Absent})]
  /\ author # Nobody => ~denied /\ stored # Theme!Absent

\* A tab that has heard all its news, and could store what it chose, has the theme
\* that is stored.
HeardInv ==
  \A t \in mounted \ unsaved : news[t] = <<>> => theme[t] = Theme!getStoredTheme

\* A tab whose listener has been told shows the theme its effect has run for.
AppliedInv ==
  \A t \in mounted : ~turned[t] => shown[t] = Theme!resolveTheme(applied[t])

ThemeInv == ThemeTypes /\ HeardInv /\ AppliedInv

\* What is read from the storage is a theme, and a page has a shade for it.
LEMMA ThemeValues ==
  ASSUME ThemeTypes
  PROVE  /\ Theme!getStoredTheme \in Theme!Themes
         /\ \A choice \in Theme!Themes : Theme!resolveTheme(choice) \in Theme!Shades
         /\ Theme!Default \in Theme!Themes /\ Theme!Default # Theme!Absent
         /\ author # Nobody => Theme!getStoredTheme = stored
BY DEF ThemeTypes, Theme!TypeOK, Theme!getStoredTheme, Theme!resolveTheme, Theme!Themes,
       Theme!Shades, Theme!Default, Theme!Absent

\* No tab is there at first.
LEMMA InitThemeInv ==
  ASSUME Theme!ThemeAssumption, Theme!Init
  PROVE  ThemeInv
<1> USE DEF Theme!Init
<1>1. ThemeTypes
  BY DEF Theme!ThemeAssumption, ThemeTypes, Theme!TypeOK, Theme!Themes, Theme!Shades,
         Theme!Absent, Theme!Default
<1> QED BY <1>1 DEF ThemeInv, HeardInv, AppliedInv

LEMMA MountTab ==
  ASSUME ThemeInv, NEW t \in Tabs, Theme!Mount(t)
  PROVE  ThemeInv'
<1> USE DEF Theme!Mount, Theme!system, Theme!storage
<1>1. ThemeTypes /\ HeardInv /\ AppliedInv
  BY DEF ThemeInv
<1>2. ThemeTypes'
  BY <1>1, ThemeValues DEF ThemeTypes, Theme!TypeOK
<1>3. HeardInv'
  BY <1>1 DEF ThemeTypes, Theme!TypeOK, HeardInv, Theme!getStoredTheme
<1>4. AppliedInv'
  BY <1>1 DEF ThemeTypes, Theme!TypeOK, AppliedInv, Theme!resolveTheme
<1> QED BY <1>2, <1>3, <1>4 DEF ThemeInv

LEMMA ApplyTheme ==
  ASSUME ThemeInv, NEW t \in Tabs, Theme!Apply(t) \/ Theme!FollowSystem(t)
  PROVE  ThemeInv'
<1> USE DEF Theme!Apply, Theme!FollowSystem, Theme!system, Theme!storage
<1>1. ThemeTypes /\ HeardInv /\ AppliedInv
  BY DEF ThemeInv
<1>2. ThemeTypes'
  <2>1. CASE Theme!Apply(t)
    BY <2>1, <1>1, ThemeValues DEF ThemeTypes, Theme!TypeOK
  <2>2. CASE Theme!FollowSystem(t)
    <3>0. applied[t] \in Theme!Themes
      BY <1>1, <2>2 DEF ThemeTypes
    <3>1. Theme!resolveTheme(applied[t]) \in Theme!Shades
      BY <1>1, <3>0, ThemeValues
    <3> QED BY <2>2, <1>1, <3>1 DEF ThemeTypes, Theme!TypeOK
  <2> QED BY <2>1, <2>2
<1>3. HeardInv'
  BY <1>1 DEF HeardInv, Theme!getStoredTheme
<1>4. AppliedInv'
  BY <1>1 DEF ThemeTypes, Theme!TypeOK, AppliedInv, Theme!resolveTheme
<1> QED BY <1>2, <1>3, <1>4 DEF ThemeInv

LEMMA HearNews ==
  ASSUME ThemeInv, NEW t \in Tabs, Theme!Hear(t)
  PROVE  ThemeInv'
<1> USE DEF Theme!Hear, Theme!system
<1>1. ThemeTypes /\ HeardInv /\ AppliedInv
  BY DEF ThemeInv
<1>2. ThemeTypes'
  <2>1. Tail(news[t]) \in Seq(Theme!Themes \cup {Theme!Absent})
    BY <1>1 DEF ThemeTypes
  <2>2. news' \in [Tabs -> Seq(Theme!Themes \cup {Theme!Absent})]
    BY <1>1, <2>1 DEF ThemeTypes
  <2>3. theme' \in [Tabs -> Theme!Themes] /\ unsaved' \subseteq Tabs
    BY <1>1, ThemeValues DEF ThemeTypes, Theme!TypeOK
  <2>4. \A u \in Tabs : news'[u] \in Seq(Theme!Themes \cup {Theme!Absent})
    BY <2>2
  <2> QED BY <1>1, <2>2, <2>3, <2>4 DEF ThemeTypes, Theme!TypeOK
<1>3. HeardInv'
  BY <1>1 DEF ThemeTypes, Theme!TypeOK, HeardInv, Theme!getStoredTheme
<1>4. AppliedInv'
  BY <1>1 DEF AppliedInv, Theme!resolveTheme
<1> QED BY <1>2, <1>3, <1>4 DEF ThemeInv

\* A tab that has no news after a change was told of nothing: what is stored is
\* what was.
LEMMA TellTabs ==
  ASSUME ThemeTypes, NEW t \in Tabs \cup {Nobody}, NEW value \in Theme!Themes \cup {Theme!Absent},
         Theme!Tell(t, value), stored' = value
  PROVE  /\ news' \in [Tabs -> Seq(Theme!Themes \cup {Theme!Absent})]
         /\ \A u \in mounted \ {t} : news'[u] = <<>> => news[u] = <<>> /\ stored' = stored
<1>1. news \in [Tabs -> Seq(Theme!Themes \cup {Theme!Absent})] /\ mounted \subseteq Tabs
  BY DEF ThemeTypes, Theme!TypeOK
<1>2. \A u \in Tabs : /\ Append(news[u], value) \in Seq(Theme!Themes \cup {Theme!Absent})
                      /\ Append(news[u], value) # <<>>
  BY <1>1
<1>3. news' \in [Tabs -> Seq(Theme!Themes \cup {Theme!Absent})]
  BY <1>1, <1>2 DEF Theme!Tell
<1>4. \A u \in mounted \ {t} :
        news'[u] = IF stored # value THEN Append(news[u], value) ELSE news[u]
  BY <1>1 DEF Theme!Tell
<1> QED BY <1>1, <1>2, <1>3, <1>4

LEMMA ChooseTheme ==
  ASSUME ThemeInv, Theme!ThemeAssumption, NEW t \in Tabs, Theme!Choose(t)
  PROVE  ThemeInv'
<1> USE DEF Theme!Choose, Theme!system
<1>1. ThemeTypes /\ HeardInv /\ AppliedInv
  BY DEF ThemeInv
<1>2. PICK choice \in Theme!Themes : Theme!setTheme(t, choice)
  OBVIOUS
<1>3. theme' = [theme EXCEPT ![t] = choice] /\ theme' \in [Tabs -> Theme!Themes] /\ theme'[t] = choice
      /\ \A u \in Tabs \ {t} : theme'[u] = theme[u]
  BY <1>1, <1>2 DEF Theme!setTheme, ThemeTypes, Theme!TypeOK
<1>4. choice # Theme!Absent /\ writes' \in 0..MaxWrites
  BY <1>1 DEF ThemeTypes, Theme!TypeOK, Theme!Themes, Theme!Shades, Theme!Absent, Theme!ThemeAssumption
<1>5. AppliedInv'
  BY <1>1 DEF AppliedInv, Theme!resolveTheme
<1>6. CASE ~denied /\ stored' = choice /\ author' = t /\ unsaved' = unsaved \ {t} /\ Theme!Tell(t, choice)
  <2>1. /\ news' \in [Tabs -> Seq(Theme!Themes \cup {Theme!Absent})]
        /\ \A u \in mounted \ {t} : news'[u] = <<>> => news[u] = <<>> /\ stored' = stored
    BY <1>1, <1>6, TellTabs
  <2>2. \A u \in Tabs : news'[u] \in Seq(Theme!Themes \cup {Theme!Absent})
    BY <2>1
  <2>3. ThemeTypes'
    BY <1>1, <1>3, <1>4, <1>6, <2>1, <2>2 DEF ThemeTypes, Theme!TypeOK
  <2>4. HeardInv'
    <3>1. SUFFICES ASSUME NEW u \in (mounted \ unsaved)', news'[u] = <<>>
          PROVE  theme'[u] = Theme!getStoredTheme'
      BY DEF HeardInv
    <3>2. CASE u = t
      BY <1>3, <1>4, <1>6, <3>2 DEF Theme!getStoredTheme
    <3>3. CASE u # t
      BY <1>1, <1>3, <1>6, <2>1, <3>1, <3>3
         DEF HeardInv, Theme!getStoredTheme, ThemeTypes, Theme!TypeOK
    <3> QED BY <3>2, <3>3
  <2> QED BY <1>5, <2>3, <2>4 DEF ThemeInv
<1>7. CASE unsaved' = unsaved \cup {t} /\ UNCHANGED <<stored, author, news>>
  <2>1. ThemeTypes'
    BY <1>1, <1>3, <1>4, <1>7 DEF ThemeTypes, Theme!TypeOK
  <2>2. HeardInv'
    BY <1>1, <1>3, <1>7 DEF HeardInv, Theme!getStoredTheme, ThemeTypes, Theme!TypeOK
  <2> QED BY <1>5, <2>1, <2>2 DEF ThemeInv
<1> QED BY <1>2, <1>6, <1>7 DEF Theme!setTheme

LEMMA ClearStorage ==
  ASSUME ThemeInv, Theme!ThemeAssumption, Theme!Clear
  PROVE  ThemeInv'
<1> USE DEF Theme!Clear, Theme!system, Theme!pages
<1>1. ThemeTypes /\ HeardInv /\ AppliedInv
  BY DEF ThemeInv
<1>2. /\ news' \in [Tabs -> Seq(Theme!Themes \cup {Theme!Absent})]
      /\ \A u \in mounted \ {Nobody} : news'[u] = <<>> => news[u] = <<>> /\ stored' = stored
  BY <1>1, TellTabs
<1>3. \A u \in Tabs : news'[u] \in Seq(Theme!Themes \cup {Theme!Absent}) /\ u # Nobody
  BY <1>2 DEF Theme!ThemeAssumption
<1>4. writes' \in 0..MaxWrites
  BY <1>1 DEF ThemeTypes, Theme!TypeOK, Theme!ThemeAssumption
<1>5. ThemeTypes'
  BY <1>1, <1>2, <1>3, <1>4 DEF ThemeTypes, Theme!TypeOK
<1>6. HeardInv'
  BY <1>1, <1>2, <1>3 DEF HeardInv, Theme!getStoredTheme, ThemeTypes, Theme!TypeOK
<1>7. AppliedInv'
  BY <1>1 DEF AppliedInv, Theme!resolveTheme
<1> QED BY <1>5, <1>6, <1>7 DEF ThemeInv

\* A tab that follows the system is to be told of the turn.
LEMMA TurnSystem ==
  ASSUME ThemeInv, Theme!ThemeAssumption, Theme!Turn
  PROVE  ThemeInv'
<1> USE DEF Theme!Turn, Theme!storage, Theme!pages
<1>1. ThemeTypes /\ HeardInv /\ AppliedInv
  BY DEF ThemeInv
<1>2. turns' \in 0..MaxTurns /\ prefers' \in Theme!Shades
  BY <1>1 DEF ThemeTypes, Theme!TypeOK, Theme!ThemeAssumption
<1>3. turned' \in [Tabs -> BOOLEAN]
      /\ \A t \in Tabs : turned'[t] <=> turned[t] \/ (t \in mounted /\ applied[t] = "system")
  BY <1>1 DEF ThemeTypes, Theme!TypeOK
<1>4. ThemeTypes'
  BY <1>1, <1>2, <1>3 DEF ThemeTypes, Theme!TypeOK
<1>5. HeardInv'
  BY <1>1 DEF HeardInv, Theme!getStoredTheme
<1>6. AppliedInv'
  BY <1>1, <1>3 DEF AppliedInv, Theme!resolveTheme, ThemeTypes, Theme!TypeOK
<1> QED BY <1>4, <1>5, <1>6 DEF ThemeInv

LEMMA ThemeInvKept ==
  ASSUME Theme!ThemeAssumption, ThemeInv, [Theme!Next]_(Theme!vars)
  PROVE  ThemeInv'
<1>1. CASE UNCHANGED Theme!vars
  BY <1>1 DEF Theme!vars, Theme!system, Theme!storage, Theme!pages, ThemeInv, ThemeTypes, Theme!TypeOK,
              HeardInv, AppliedInv, Theme!getStoredTheme, Theme!resolveTheme
<1> QED BY <1>1, MountTab, ApplyTheme, HearNews, ChooseTheme, ClearStorage, TurnSystem DEF Theme!Next

LEMMA ThemeInvariance ==
  ASSUME Theme!ThemeAssumption
  PROVE  Theme!Spec => []ThemeInv
<1>1. Theme!Init => ThemeInv
  BY InitThemeInv
<1>2. ThemeInv /\ [Theme!Next]_(Theme!vars) => ThemeInv'
  BY ThemeInvKept
<1> QED BY <1>1, <1>2, PTL DEF Theme!Spec

\* What the invariant promises of the theme.
LEMMA ThemePromises ==
  ASSUME ThemeInv
  PROVE  /\ Theme!TypeOK
         /\ Theme!QuietTabsAgree
         /\ Theme!ShownIsChosen
<1>1. Theme!TypeOK
  BY DEF ThemeInv, ThemeTypes
<1>2. Theme!QuietTabsAgree
  BY DEF ThemeInv, HeardInv, Theme!QuietTabsAgree
<1>3. Theme!ShownIsChosen
  BY DEF ThemeInv, AppliedInv, Theme!ShownIsChosen
<1> QED BY <1>1, <1>2, <1>3

\* What a tab reads while its own choice is stored is that choice.
LEMMA ChoiceStays ==
  ASSUME Theme!ThemeAssumption, ThemeInv, Theme!Next
  PROVE  Theme!LastChoiceStays
<1>1. SUFFICES ASSUME NEW t \in Tabs, author = t, author' = t, stored' = stored, theme[t] = stored,
                      writes' = writes
      PROVE  theme'[t] = stored
  BY DEF Theme!LastChoiceStays
<1>2. ThemeTypes /\ theme \in [Tabs -> Theme!Themes] /\ writes \in Nat
  BY DEF ThemeInv, ThemeTypes, Theme!TypeOK, Theme!ThemeAssumption
<1>3. Theme!getStoredTheme = stored
  BY <1>1, <1>2, ThemeValues DEF Theme!ThemeAssumption
<1>4. ASSUME NEW u \in Tabs, Theme!Mount(u) \/ Theme!Hear(u)
      PROVE  theme'[t] = stored
  BY <1>1, <1>2, <1>3, <1>4 DEF Theme!Mount, Theme!Hear
<1>5. ASSUME NEW u \in Tabs, Theme!Apply(u) \/ Theme!FollowSystem(u)
      PROVE  theme'[t] = stored
  BY <1>1, <1>5 DEF Theme!Apply, Theme!FollowSystem
<1>6. ~Theme!Clear /\ \A u \in Tabs : ~Theme!Choose(u)
  BY <1>1, <1>2 DEF Theme!Clear, Theme!Choose
<1>7. CASE Theme!Turn
  BY <1>1, <1>7 DEF Theme!Turn, Theme!pages
<1> QED BY <1>4, <1>5, <1>6, <1>7 DEF Theme!Next

\* Once the news are out, all tabs have the theme that is stored, but those that
\* could not store their own (theme-provider.tsx).
THEOREM TabsAgree ==
  ASSUME Theme!ThemeAssumption
  PROVE  Theme!Spec => []Theme!QuietTabsAgree
<1>1. ThemeInv => Theme!QuietTabsAgree
  BY ThemePromises
<1> QED BY <1>1, ThemeInvariance, PTL

\* A tab whose choice is stored keeps it, though news of older choices reach it.
THEOREM ChoicesStay ==
  ASSUME Theme!ThemeAssumption
  PROVE  Theme!Spec => [][Theme!LastChoiceStays]_(Theme!vars)
<1>1. ThemeInv /\ Theme!Next => Theme!LastChoiceStays
  BY ChoiceStays
<1> QED BY <1>1, ThemeInvariance, PTL DEF Theme!Spec

-----------------------------------------------------------------------------
(* StockConsole *)

CountRow == Stock!Count \union {Stock!NoRow}
SaveRow == [for : Size, value : Stock!Count, clears : BOOLEAN]

\* Types, and that a request under way says what it sets.
StockTypes ==
  /\ Stock!TypeOK
  /\ step \in {"saving", "saved"} => request \in SaveRow

\* A draft is what was typed for its variant.
DraftInv == draft # Stock!Unset => draft \in SaveRow /\ typed[draft.for] = draft.value

\* Counts that a confirmed change is missing from are being loaded, or unknown.
BehindInv ==
  behind => step = "reloading" \/ (rows = Stock!NoRows /\ step \in {"idle", "loading"})

StockInv == StockTypes /\ DraftInv /\ BehindInv /\ Stock!SavesWhatWasMeant

LEMMA LeastVariant ==
  ASSUME NEW S \in SUBSET Nat, S # {}
  PROVE  Stock!Min(S) \in S
BY LeastOf DEF Stock!Min

\* The variant on the form is one the product offers.
LEMMA SelectedIsOffered ==
  ASSUME Stock!StockAssumption, offers \in (SUBSET Size) \ {{}}
  PROVE  Stock!selected \in offers /\ Stock!selected \in Size
<1>1. offers \in SUBSET Nat /\ offers # {}
  BY DEF Stock!StockAssumption
<1>2. Stock!Min(offers) \in offers
  BY <1>1, LeastVariant
<1> QED BY <1>2 DEF Stock!selected

LEMMA InitStockInv ==
  ASSUME Stock!StockAssumption, Stock!Init
  PROVE  StockInv
<1> USE DEF Stock!Init
<1>1. Stock!Min(Size) \in Size /\ Size # {}
  BY LeastVariant DEF Stock!StockAssumption
<1>2. 1 \in Stock!Count /\ StockChanges \in Nat
  BY DEF Stock!Count, Stock!StockAssumption
<1>3. stock \in [Size -> CountRow] /\ typed \in [Size -> CountRow]
  BY <1>2 DEF CountRow
<1>4. Stock!TypeOK
  <2>1. offers \in (SUBSET Size) \ {{}} /\ size \in Size
    BY <1>1
  <2>2. changes \in 0..StockChanges
    BY <1>2
  <2> QED BY <1>3, <2>1, <2>2 DEF Stock!TypeOK, CountRow
<1> QED BY <1>4 DEF StockInv, StockTypes, DraftInv, BehindInv, Stock!SavesWhatWasMeant

\* The form is edited only while the counts are known and nothing is under way.
LEMMA FormKeeps ==
  ASSUME Stock!StockAssumption, StockInv,
         \/ Stock!Toggle \/ Stock!refreshStock
         \/ \E v \in Size : Stock!Select(v)
         \/ \E n \in Stock!Count : Stock!Type(n)
  PROVE  StockInv'
<1> USE DEF StockInv, StockTypes, DraftInv, BehindInv, Stock!SavesWhatWasMeant, Stock!TypeOK, Stock!busy,
            Stock!loading, Stock!Editable
<1>1. CASE Stock!Toggle
  BY <1>1 DEF Stock!Toggle
<1>2. CASE Stock!refreshStock
  BY <1>2 DEF Stock!refreshStock
<1>3. ASSUME NEW v \in Size, Stock!Select(v)
      PROVE  StockInv'
  BY <1>3 DEF Stock!Select
<1>4. ASSUME NEW n \in Stock!Count, Stock!Type(n)
      PROVE  StockInv'
  <2>1. Stock!selected \in Size
    BY SelectedIsOffered
  <2>2. PICK entry \in SaveRow : entry = [for |-> Stock!selected, value |-> n, clears |-> FALSE]
    BY <2>1 DEF SaveRow
  <2>3. draft' = entry /\ entry.for = Stock!selected /\ entry.value = n
    BY <1>4, <2>2 DEF Stock!Type
  <2>4. typed' = [typed EXCEPT ![Stock!selected] = n]
    BY <1>4 DEF Stock!Type
  <2>5. typed' \in [Size -> Stock!Count \union {Stock!NoRow}] /\ typed'[entry.for] = n
    BY <2>1, <2>3, <2>4
  <2> QED BY <1>4, <2>3, <2>5 DEF Stock!Type, SaveRow
<1> QED BY <1>1, <1>2, <1>3, <1>4

\* What is saved was typed or loaded for the variant, is the default of one without
\* a row, or clears one that is no longer offered.
LEMMA SaveKeeps ==
  ASSUME Stock!StockAssumption, StockInv,
         \/ Stock!saveStock(Stock!selected, Stock!quantity)
         \/ \E v \in Size : Stock!ClearRetired(v)
  PROVE  StockInv'
<1> USE DEF StockInv, StockTypes, DraftInv, BehindInv, Stock!TypeOK, Stock!busy,
            Stock!loading, Stock!Editable
<1>1. ASSUME NEW v \in Size, NEW n \in Stock!Count, Stock!saveStock(v, n),
             n \in {typed[v], rows[v]} \union (IF rows[v] = Stock!NoRow THEN {DefaultCount} ELSE {})
                     \union (IF v \notin offers THEN {0} ELSE {})
      PROVE  StockInv'
  <2> DEFINE retired == v \notin offers
  <2>0. retired \in BOOLEAN
    OBVIOUS
  <2> HIDE DEF retired
  <2>1. PICK entry \in SaveRow : entry = [for |-> v, value |-> n, clears |-> retired]
    BY <2>0 DEF SaveRow
  <2>2. request' = entry /\ entry.for = v /\ entry.value = n /\ (entry.clears <=> v \notin offers)
    BY <1>1, <2>1 DEF Stock!saveStock, retired
  <2>3. Stock!SavesWhatWasMeant'
    BY <1>1, <2>2 DEF Stock!SavesWhatWasMeant, Stock!saveStock
  <2> QED BY <1>1, <2>2, <2>3 DEF Stock!saveStock, SaveRow
<1>2. CASE Stock!saveStock(Stock!selected, Stock!quantity)
  <2>1. Stock!selected \in Size
    BY SelectedIsOffered
  <2>2. rows \in [Size -> CountRow]
    BY <1>2 DEF Stock!saveStock, CountRow
  <2>3. CASE draft # Stock!Unset /\ draft.for = Stock!selected
    <3>1. Stock!quantity = typed[Stock!selected] /\ Stock!quantity \in Stock!Count
      BY <2>3 DEF Stock!quantity, SaveRow
    <3> QED BY <1>1, <1>2, <2>1, <3>1
  <2>4. CASE ~(draft # Stock!Unset /\ draft.for = Stock!selected)
    <3>1. Stock!quantity = IF rows[Stock!selected] = Stock!NoRow THEN DefaultCount ELSE rows[Stock!selected]
      BY <2>4 DEF Stock!quantity
    <3>2. Stock!quantity \in Stock!Count
      BY <2>1, <2>2, <3>1 DEF CountRow, Stock!StockAssumption, Stock!Count
    <3> QED BY <1>1, <1>2, <2>1, <3>1, <3>2
  <2> QED BY <2>3, <2>4
<1>3. ASSUME NEW v \in Size, Stock!ClearRetired(v)
      PROVE  StockInv'
  <2>1. 0 \in Stock!Count
    BY DEF Stock!Count, Stock!StockAssumption
  <2> QED BY <1>1, <1>3, <2>1 DEF Stock!ClearRetired
<1> QED BY <1>2, <1>3

\* The service sets the count of the variant that is asked for.
LEMMA SetKeeps ==
  ASSUME Stock!StockAssumption, StockInv, Stock!Set \/ Stock!SetFails \/ Stock!Reload
  PROVE  StockInv'
<1> USE DEF StockInv, StockTypes, DraftInv, BehindInv, Stock!SavesWhatWasMeant, Stock!TypeOK
<1>1. ASSUME step = "saving"
      PROVE  [stock EXCEPT ![request.for] = request.value] \in [Size -> Stock!Count \union {Stock!NoRow}]
  BY <1>1 DEF SaveRow
<1>2. CASE Stock!Set
  BY <1>1, <1>2 DEF Stock!Set
<1>3. CASE Stock!SetFails
  BY <1>1, <1>3 DEF Stock!SetFails
<1>4. CASE Stock!Reload
  BY <1>4 DEF Stock!Reload
<1> QED BY <1>2, <1>3, <1>4

\* A load that fails leaves no counts that look like confirmed ones.
LEMMA LoadKeeps ==
  ASSUME Stock!StockAssumption, StockInv, Stock!ReadStock \/ Stock!Loaded \/ Stock!LoadFails
  PROVE  StockInv'
<1> USE DEF StockInv, StockTypes, DraftInv, BehindInv, Stock!SavesWhatWasMeant, Stock!TypeOK, Stock!loading
<1>1. CASE Stock!ReadStock
  BY <1>1 DEF Stock!ReadStock
<1>2. CASE Stock!Loaded
  BY <1>2 DEF Stock!Loaded
<1>3. CASE Stock!LoadFails
  BY <1>3 DEF Stock!LoadFails, Stock!RowsAfterFailure
<1> QED BY <1>1, <1>2, <1>3

\* What happens behind the panel changes nothing on it.
LEMMA BehindKeeps ==
  ASSUME Stock!StockAssumption, StockInv, Stock!Reoffer \/ Stock!Trade \/ UNCHANGED Stock!vars
  PROVE  StockInv'
<1> USE DEF StockInv, StockTypes, DraftInv, BehindInv, Stock!SavesWhatWasMeant, Stock!TypeOK, Stock!panelVars
<1>1. CASE Stock!Reoffer
  BY <1>1 DEF Stock!Reoffer, Stock!StockAssumption
<1>2. CASE Stock!Trade
  BY <1>2 DEF Stock!Trade, Stock!StockAssumption
<1>3. CASE UNCHANGED Stock!vars
  BY <1>3 DEF Stock!vars
<1> QED BY <1>1, <1>2, <1>3

LEMMA StockInvKept ==
  ASSUME Stock!StockAssumption, StockInv, [Stock!Next]_(Stock!vars)
  PROVE  StockInv'
BY FormKeeps, SaveKeeps, SetKeeps, LoadKeeps, BehindKeeps DEF Stock!Next

LEMMA StockInvariance ==
  ASSUME Stock!StockAssumption
  PROVE  Stock!Spec => []StockInv
<1>1. Stock!Init => StockInv
  BY InitStockInv
<1>2. StockInv /\ [Stock!Next]_(Stock!vars) => StockInv'
  BY StockInvKept
<1> QED BY <1>1, <1>2, PTL DEF Stock!Spec

\* What the invariant promises of the stock panel.
LEMMA StockPromises ==
  ASSUME StockInv
  PROVE  /\ Stock!TypeOK
         /\ Stock!SavesWhatWasMeant
         /\ Stock!SavesOnLoadedCounts
BY DEF StockInv, StockTypes, BehindInv, Stock!SavesOnLoadedCounts

\* A count is saved for the variant it was typed or loaded for, whatever changes
\* under the form (InventoryManager.tsx).
THEOREM CountsAreMeant ==
  ASSUME Stock!StockAssumption
  PROVE  Stock!Spec => []Stock!SavesWhatWasMeant
<1>1. StockInv => Stock!SavesWhatWasMeant
  BY StockPromises
<1> QED BY <1>1, StockInvariance, PTL

\* After a confirmed change whose reload failed, nothing is saved before the counts
\* have been loaded again.
THEOREM CountsAreLoaded ==
  ASSUME Stock!StockAssumption
  PROVE  Stock!Spec => []Stock!SavesOnLoadedCounts
<1>1. StockInv => Stock!SavesOnLoadedCounts
  BY StockPromises
<1> QED BY <1>1, StockInvariance, PTL

-----------------------------------------------------------------------------
(* CatalogConsole *)

PageItem == Console!Item \union {Console!New}
PageForm == [edits : PageItem, for : PageItem]
PageCall ==
  [step : {"none", "sent", "served"}, op : {"none", "save", "delete"}, kind : Console!Kinds,
   item : PageItem, for : PageItem, write : 0..PageWrites]
PageLists == [Console!Item -> Console!State]

ConsoleTypes == Console!TypeOK /\ refreshes \in Seq(PageLists)

\* A form edits what it was opened for, and so does the request it sends.
OpenedInv ==
  /\ \A k \in Console!Kinds : form[k].edits = form[k].for
  /\ call.step = "sent" => call.item = call.for

\* A list has all that was confirmed on the page.
HasConfirmed(entries) == \A i \in Console!Item : entries[i].write >= confirmed[i]

\* The catalog has what is confirmed or about to be, and so has the list that will
\* be on the page in the end: the last refresh has not read yet, or read it.
RefreshInv ==
  /\ HasConfirmed(catalog)
  /\ \A i \in Console!Item : catalog[i].write <= writes
  /\ call.step = "served" => call.item \in Console!Item /\ call.write <= catalog[call.item].write
  /\ refreshes = <<>> => HasConfirmed(shown)
  /\ refreshes # <<>> =>
       \/ refreshes[Len(refreshes)] = Console!Unread
       \/ HasConfirmed(refreshes[Len(refreshes)])

ConsoleInv == ConsoleTypes /\ OpenedInv /\ RefreshInv

LEMMA ConsoleStart ==
  ASSUME Console!ConsoleAssumption
  PROVE  /\ Console!Absent \in Console!State /\ Console!Unread \in PageLists
         /\ Console!EmptyForm \in PageForm
         /\ Console!NoCall \in PageCall
BY DEF Console!ConsoleAssumption, Console!Absent, Console!State, Console!Unread, PageLists,
       Console!EmptyForm, PageForm, PageItem, Console!NoCall, PageCall, Console!Kinds

LEMMA InitConsoleInv ==
  ASSUME Console!ConsoleAssumption, Console!Init
  PROVE  ConsoleInv
<1> USE DEF Console!Init
<1>1. Console!TypeOK
  <2>1. catalog \in PageLists /\ shown \in PageLists
    BY ConsoleStart DEF PageLists
  <2>2. /\ form \in [Console!Kinds -> PageForm]
        /\ \A k \in Console!Kinds : form[k].edits \in Console!Items(k) \union {Console!New}
    BY ConsoleStart DEF Console!EmptyForm
  <2>3. call \in PageCall
    BY ConsoleStart
  <2>4. /\ confirmed \in [Console!Item -> 0..PageWrites] /\ writes \in 0..PageWrites
        /\ Len(refreshes) <= MaxRefreshes /\ Len(refreshes) = 0
    BY DEF Console!ConsoleAssumption
  <2>5. \A n \in 1..Len(refreshes) : refreshes[n] \in PageLists
    BY <2>4
  <2>6. sheet \in BOOLEAN
    OBVIOUS
  <2> HIDE DEF Console!Init
  <2> QED
    BY <2>1, <2>2, <2>3, <2>4, <2>5, <2>6 DEF Console!TypeOK, PageLists, PageForm, PageItem, PageCall
<1>2. OpenedInv
  BY DEF OpenedInv, Console!EmptyForm, Console!NoCall
<1>3. RefreshInv
  BY DEF RefreshInv, HasConfirmed, Console!Absent, Console!NoCall
<1> QED BY <1>1, <1>2, <1>3 DEF ConsoleInv, ConsoleTypes

\* A step that leaves the lists alone disturbs no list.
LEMMA ListsStay ==
  ASSUME RefreshInv, UNCHANGED <<catalog, shown, refreshes, confirmed, writes>>,
         call'.step # "served" \/ UNCHANGED call
  PROVE  RefreshInv'
BY DEF RefreshInv, HasConfirmed, Console!Unread, Console!Absent

\* A form that is opened or closed edits what it is for.
LEMMA FormsKeep ==
  ASSUME Console!ConsoleAssumption, ConsoleInv,
         NEW k \in Console!Kinds, NEW i \in Console!Items(k) \union {Console!New},
         form' \in {form, [form EXCEPT ![k] = [edits |-> i, for |-> i]]},
         sheet' \in BOOLEAN,
         UNCHANGED <<catalog, shown, call, refreshes, confirmed, writes>>
  PROVE  ConsoleInv'
<1>1. i \in PageItem
  BY DEF Console!Items, PageItem
<1>2. PICK entry \in PageForm : entry = [edits |-> i, for |-> i]
  BY <1>1 DEF PageForm
<1>3. entry.edits = i /\ entry.for = i
  BY <1>2
<1>4. form \in [Console!Kinds -> PageForm]
  BY DEF ConsoleInv, ConsoleTypes, Console!TypeOK, PageForm, PageItem
<1>5. /\ form' \in [Console!Kinds -> PageForm]
      /\ \A kind \in Console!Kinds :
           /\ form'[kind].edits = form'[kind].for
           /\ form'[kind].edits \in Console!Items(kind) \union {Console!New}
  BY <1>2, <1>3, <1>4 DEF ConsoleInv, ConsoleTypes, Console!TypeOK, OpenedInv
<1>6. ConsoleTypes' /\ OpenedInv'
  BY <1>5 DEF ConsoleInv, ConsoleTypes, Console!TypeOK, OpenedInv, PageForm, PageItem
<1> QED BY <1>6, ListsStay DEF ConsoleInv

LEMMA PageFormsKeep ==
  ASSUME Console!ConsoleAssumption, ConsoleInv,
         \/ Console!openCreateProduct \/ Console!CloseSheet \/ Console!cancelCategory
         \/ \E p \in ShownProduct : Console!openEditProduct(p)
         \/ \E c \in ShownCategory : Console!editCategory(c)
  PROVE  ConsoleInv'
<1> USE DEF Console!Kinds, Console!EmptyForm
<1>1. sheet \in BOOLEAN
  BY DEF ConsoleInv, ConsoleTypes, Console!TypeOK
<1>2. CASE Console!openCreateProduct
  BY <1>2, FormsKeep DEF Console!openCreateProduct
<1>3. CASE Console!CloseSheet
  BY <1>3, FormsKeep DEF Console!CloseSheet
<1>4. CASE Console!cancelCategory
  BY <1>1, <1>4, FormsKeep DEF Console!cancelCategory
<1>5. ASSUME NEW p \in ShownProduct, Console!openEditProduct(p)
      PROVE  ConsoleInv'
  <2>1. p \in Console!Items("product")
    BY DEF Console!Items, Console!Item, Console!Kind
  <2> QED BY <1>5, <2>1, FormsKeep DEF Console!openEditProduct
<1>6. ASSUME NEW c \in ShownCategory, Console!editCategory(c)
      PROVE  ConsoleInv'
  <2>1. c \in Console!Items("category")
    BY DEF Console!Items, Console!Item, Console!Kind, Console!ConsoleAssumption
  <2> QED BY <1>1, <1>6, <2>1, FormsKeep DEF Console!editCategory
<1> QED BY <1>2, <1>3, <1>4, <1>5, <1>6

\* A request is for what its form edits.
LEMMA AskKeeps ==
  ASSUME Console!ConsoleAssumption, ConsoleInv,
         NEW op \in {"save", "delete"}, NEW k \in Console!Kinds, NEW i \in PageItem,
         Console!Ask(op, k, i, i)
  PROVE  ConsoleInv'
<1>0. 0 \in 0..PageWrites
  BY DEF Console!ConsoleAssumption
<1>1. PICK entry \in PageCall :
        entry = [step |-> "sent", op |-> op, kind |-> k, item |-> i, for |-> i, write |-> 0]
  BY <1>0 DEF PageCall
<1>2. call' = entry /\ entry.step = "sent" /\ entry.item = i /\ entry.for = i
  BY <1>1 DEF Console!Ask
<1>3. ConsoleTypes' /\ OpenedInv'
  BY <1>2 DEF ConsoleInv, ConsoleTypes, Console!TypeOK, OpenedInv, PageCall, PageItem, Console!Ask
<1>4. UNCHANGED <<catalog, shown, refreshes, confirmed, writes>>
  BY DEF Console!Ask
<1> QED BY <1>2, <1>3, <1>4, ListsStay DEF ConsoleInv

LEMMA RequestsKeep ==
  ASSUME Console!ConsoleAssumption, ConsoleInv,
         \/ Console!handleProductSubmit \/ Console!handleCategorySubmit
         \/ \E p \in ShownProduct : Console!handleProductDelete(p)
         \/ \E c \in ShownCategory : Console!handleCategoryDelete(c)
  PROVE  ConsoleInv'
<1>1. \A k \in Console!Kinds : form[k].edits \in PageItem /\ form[k].for = form[k].edits
  BY DEF ConsoleInv, ConsoleTypes, Console!TypeOK, OpenedInv, PageItem
<1>2. "product" \in Console!Kinds /\ "category" \in Console!Kinds
  BY DEF Console!Kinds
<1>3. CASE Console!handleProductSubmit
  BY <1>1, <1>2, <1>3, AskKeeps DEF Console!handleProductSubmit
<1>4. CASE Console!handleCategorySubmit
  BY <1>1, <1>2, <1>4, AskKeeps DEF Console!handleCategorySubmit
<1>5. ASSUME NEW p \in ShownProduct, Console!handleProductDelete(p)
      PROVE  ConsoleInv'
  BY <1>2, <1>5, AskKeeps DEF Console!handleProductDelete, PageItem, Console!Item
<1>6. ASSUME NEW c \in ShownCategory, Console!handleCategoryDelete(c)
      PROVE  ConsoleInv'
  BY <1>2, <1>6, AskKeeps DEF Console!handleCategoryDelete, PageItem, Console!Item
<1> QED BY <1>3, <1>4, <1>5, <1>6

\* A write has a newer number than any before it.
LEMMA WritesKeep ==
  ASSUME Console!ConsoleAssumption, ConsoleInv,
         NEW i \in Console!Item, NEW live \in BOOLEAN,
         writes < PageWrites, writes' = writes + 1,
         catalog' = [catalog EXCEPT ![i] = Console!Row(live)],
         UNCHANGED <<shown, form, sheet, refreshes, confirmed>>,
         \/ UNCHANGED call
         \/ /\ call.step = "sent"
            /\ call' = [call EXCEPT !.step = "served", !.item = i, !.write = writes + 1]
  PROVE  ConsoleInv'
<1>1. writes \in 0..PageWrites /\ PageWrites \in Nat /\ writes + 1 \in 0..PageWrites
  BY DEF ConsoleInv, ConsoleTypes, Console!TypeOK, Console!ConsoleAssumption
<1>2. PICK entry \in Console!State : entry = [write |-> writes + 1, live |-> live]
  BY <1>1 DEF Console!State
<1>3. catalog' = [catalog EXCEPT ![i] = entry] /\ entry.write = writes + 1
  BY <1>2 DEF Console!Row
<1>4. catalog \in PageLists /\ catalog' \in PageLists
  BY <1>3 DEF ConsoleInv, ConsoleTypes, Console!TypeOK, PageLists
<1>5. \A x \in Console!Item : catalog'[x] = IF x = i THEN entry ELSE catalog[x]
  BY <1>3, <1>4 DEF PageLists
<1>6. call \in PageCall /\ call' \in PageCall
  BY <1>1 DEF ConsoleInv, ConsoleTypes, Console!TypeOK, PageCall, PageItem
<1>7. \A x \in Console!Item : catalog[x].write \in Nat /\ catalog[x].write <= writes /\ confirmed[x] \in Nat
  BY <1>1, <1>4 DEF PageLists, Console!State, ConsoleInv, ConsoleTypes, Console!TypeOK, RefreshInv
<1>8. \A x \in Console!Item :
        catalog'[x].write <= writes' /\ catalog[x].write <= catalog'[x].write
  BY <1>1, <1>3, <1>5, <1>7
<1>9. ConsoleTypes' /\ OpenedInv'
  BY <1>1, <1>4, <1>6 DEF ConsoleInv, ConsoleTypes, Console!TypeOK, OpenedInv, PageCall, PageItem, PageLists
<1>10. call'.step = "served" => call'.item \in Console!Item /\ call'.write <= catalog'[call'.item].write
  <2>1. CASE UNCHANGED call
    <3>1. ASSUME call.step = "served"
          PROVE  /\ call.item \in Console!Item /\ call.write <= catalog[call.item].write
                 /\ call.write \in Nat
      BY <1>6, <3>1 DEF ConsoleInv, RefreshInv, PageCall
    <3>2. \A x \in Console!Item : catalog[x].write \in Nat /\ catalog'[x].write \in Nat
      BY <1>4 DEF PageLists, Console!State
    <3> QED BY <1>8, <2>1, <3>1, <3>2
  <2>2. CASE call' = [call EXCEPT !.step = "served", !.item = i, !.write = writes + 1]
    <3>1. call'.item = i /\ call'.write = writes + 1
      BY <1>6, <2>2 DEF PageCall
    <3> QED BY <1>1, <1>3, <1>5, <3>1
  <2> QED BY <2>1, <2>2
<1>11. HasConfirmed(catalog)'
  <2>1. \A x \in Console!Item : catalog'[x].write \in Nat
    BY <1>4 DEF PageLists, Console!State
  <2> QED BY <1>7, <1>8, <2>1 DEF ConsoleInv, RefreshInv, HasConfirmed
<1>12. RefreshInv'
  BY <1>8, <1>10, <1>11 DEF ConsoleInv, RefreshInv, HasConfirmed, Console!Unread, Console!Absent
<1> QED BY <1>9, <1>12 DEF ConsoleInv

LEMMA ServicesWriteKeeps ==
  ASSUME Console!ConsoleAssumption, ConsoleInv,
         Console!Serve \/ \E i \in Console!Item : Console!OtherWrite(i)
  PROVE  ConsoleInv'
<1>1. CASE Console!Serve
  <2>1. PICK i \in Console!Items(call.kind) :
          /\ catalog' = [catalog EXCEPT ![i] = Console!Row(call.op = "save")]
          /\ call' = [call EXCEPT !.step = "served", !.item = i, !.write = writes + 1]
    BY <1>1 DEF Console!Serve
  <2>2. i \in Console!Item /\ (call.op = "save") \in BOOLEAN
    BY DEF Console!Items
  <2> QED BY <1>1, <2>1, <2>2, WritesKeep DEF Console!Serve
<1>2. ASSUME NEW i \in Console!Item, Console!OtherWrite(i)
      PROVE  ConsoleInv'
  <2>1. PICK live \in BOOLEAN : catalog' = [catalog EXCEPT ![i] = Console!Row(live)]
    BY <1>2 DEF Console!OtherWrite
  <2> QED BY <1>2, <2>1, WritesKeep DEF Console!OtherWrite
<1> QED BY <1>1, <1>2

\* What is confirmed is in the catalog, and the refresh that follows reads it.
LEMMA AnsweredKeeps ==
  ASSUME Console!ConsoleAssumption, ConsoleInv, Console!Answered
  PROVE  ConsoleInv'
<1>1. PICK i \in Console!Item : i = call.item
  BY DEF ConsoleInv, RefreshInv, Console!Answered
<1>2. call \in PageCall
  BY DEF ConsoleInv, ConsoleTypes, Console!TypeOK, PageCall, PageItem
<1>3. PICK live \in BOOLEAN : live = (call.op = "save")
  OBVIOUS
<1>4. PICK entry \in Console!State : entry = [write |-> call.write, live |-> live]
  BY <1>2 DEF PageCall, Console!State
<1>5. shown' = [shown EXCEPT ![i] = entry] /\ confirmed' = [confirmed EXCEPT ![i] = call.write]
  BY <1>1, <1>3, <1>4 DEF Console!Answered
<1>6. shown' \in PageLists /\ confirmed' \in [Console!Item -> 0..PageWrites]
  BY <1>2, <1>5 DEF ConsoleInv, ConsoleTypes, Console!TypeOK, PageLists, PageCall
<1>7. /\ refreshes' = Append(refreshes, Console!Unread) /\ refreshes' \in Seq(PageLists)
      /\ Len(refreshes') <= MaxRefreshes
  BY ConsoleStart DEF Console!Answered, Console!Refresh, ConsoleInv, ConsoleTypes, Console!ConsoleAssumption
<1>8. refreshes'[Len(refreshes')] = Console!Unread /\ refreshes' # <<>>
  BY <1>7 DEF ConsoleInv, ConsoleTypes
<1>9. call' \in PageCall /\ call'.step = "none"
  BY ConsoleStart DEF Console!Answered, Console!NoCall
<1>10. /\ form \in [Console!Kinds -> PageForm] /\ Console!EmptyForm \in PageForm
       /\ Console!EmptyForm.edits = Console!New /\ Console!EmptyForm.for = Console!New
  BY ConsoleStart DEF ConsoleInv, ConsoleTypes, Console!TypeOK, PageForm, PageItem, Console!EmptyForm
<1>11. /\ form' \in [Console!Kinds -> PageForm] /\ sheet' \in BOOLEAN
       /\ \A kind \in Console!Kinds :
            /\ form'[kind].edits = form'[kind].for
            /\ form'[kind].edits \in Console!Items(kind) \union {Console!New}
  <2>1. \A kind \in Console!Kinds :
            /\ form[kind].edits = form[kind].for
            /\ form[kind].edits \in Console!Items(kind) \union {Console!New}
    BY DEF ConsoleInv, ConsoleTypes, Console!TypeOK, OpenedInv
  <2>2. CASE form' = form /\ sheet' = sheet
    BY <1>10, <2>1, <2>2 DEF ConsoleInv, ConsoleTypes, Console!TypeOK
  <2>3. CASE form' = [form EXCEPT ![call.kind] = Console!EmptyForm] /\ sheet' = FALSE
    BY <1>10, <2>1, <2>3
  <2> QED BY <2>2, <2>3 DEF Console!Answered
<1>12. \A n \in 1..Len(refreshes') : refreshes'[n] \in PageLists
  BY <1>7
<1>13. UNCHANGED <<catalog, writes>>
  BY DEF Console!Answered
<1>14. ConsoleTypes' /\ OpenedInv'
  BY <1>6, <1>7, <1>9, <1>11, <1>12, <1>13
     DEF ConsoleInv, ConsoleTypes, Console!TypeOK, OpenedInv, PageForm, PageItem, PageCall, PageLists
<1>15. HasConfirmed(catalog)'
  <2>1. call.write <= catalog[i].write /\ call.write \in Nat
    BY <1>1, <1>2 DEF ConsoleInv, RefreshInv, Console!Answered, PageCall
  <2>2. \A x \in Console!Item : confirmed'[x] = IF x = i THEN call.write ELSE confirmed[x]
    BY <1>5 DEF ConsoleInv, ConsoleTypes, Console!TypeOK
  <2> QED BY <1>13, <2>1, <2>2, <1>6 DEF ConsoleInv, RefreshInv, HasConfirmed, ConsoleTypes, Console!TypeOK, Console!State
<1>16. RefreshInv'
  BY <1>8, <1>9, <1>13, <1>15 DEF ConsoleInv, RefreshInv, Console!Unread, Console!Absent
<1> QED BY <1>14, <1>16 DEF ConsoleInv

\* A refresh reads the catalog, and takes the page's place in its turn.
LEMMA RefreshKeeps ==
  ASSUME Console!ConsoleAssumption, ConsoleInv, Console!Read \/ Console!Land
  PROVE  ConsoleInv'
<1>1. /\ refreshes \in Seq(PageLists) /\ refreshes # <<>> /\ catalog \in PageLists
      /\ Len(refreshes) \in Nat \ {0} /\ Len(refreshes) <= MaxRefreshes
      /\ MaxRefreshes \in Nat
      /\ UNCHANGED <<catalog, form, sheet, call, confirmed, writes>>
  BY DEF ConsoleInv, ConsoleTypes, Console!TypeOK, PageLists, Console!Read, Console!Land,
         Console!ConsoleAssumption
<1> DEFINE rest == Tail(refreshes)
<1>2. /\ rest \in Seq(PageLists) /\ Len(rest) = Len(refreshes) - 1
      /\ \A n \in 1..Len(rest) : rest[n] = refreshes[n + 1]
  BY <1>1
<1>3. Head(refreshes) = refreshes[1] /\ refreshes[1] \in PageLists
  BY <1>1
<1> HIDE DEF rest
<1>4. CASE Console!Read
  <2>1. refreshes' = <<catalog>> \o rest
    BY <1>4 DEF Console!Read, rest
  <2>2. /\ refreshes' \in Seq(PageLists) /\ Len(refreshes') = Len(refreshes)
        /\ refreshes'[1] = catalog
        /\ \A n \in 2..Len(refreshes) : refreshes'[n] = refreshes[n]
    BY <1>1, <1>2, <2>1
  <2>3. shown' = shown /\ refreshes' # <<>>
    BY <1>1, <1>4, <2>2 DEF Console!Read
  <2>4. \/ refreshes'[Len(refreshes')] = Console!Unread
        \/ HasConfirmed(refreshes'[Len(refreshes')])
    <3>1. CASE Len(refreshes) = 1
      BY <2>2, <3>1 DEF ConsoleInv, RefreshInv
    <3>2. CASE Len(refreshes) # 1
      <4>1. refreshes'[Len(refreshes')] = refreshes[Len(refreshes)]
        BY <1>1, <2>2, <3>2
      <4> QED BY <1>1, <4>1 DEF ConsoleInv, RefreshInv
    <3> QED BY <3>1, <3>2
  <2>5. \A n \in 1..Len(refreshes') : refreshes'[n] \in PageLists
    BY <2>2
  <2>6. ConsoleTypes' /\ OpenedInv'
    BY <1>1, <2>2, <2>3, <2>5 DEF ConsoleInv, ConsoleTypes, Console!TypeOK, OpenedInv, PageLists
  <2>7. RefreshInv'
    BY <1>1, <2>3, <2>4 DEF ConsoleInv, RefreshInv, HasConfirmed, Console!Unread, Console!Absent
  <2> QED BY <2>6, <2>7 DEF ConsoleInv
<1>5. CASE Console!Land
  <2>1. refreshes' = rest /\ shown' = refreshes[1] /\ refreshes[1] # Console!Unread
    BY <1>3, <1>5 DEF Console!Land, rest
  <2>2. /\ refreshes' \in Seq(PageLists) /\ Len(refreshes') = Len(refreshes) - 1
        /\ \A n \in 1..Len(refreshes') : refreshes'[n] \in PageLists
        /\ shown' \in PageLists
    BY <1>2, <1>3, <2>1
  <2>3. refreshes' = <<>> => HasConfirmed(shown')
    <3>1. HAVE refreshes' = <<>>
    <3>2. Len(refreshes) = 1
      BY <1>1, <2>2, <3>1
    <3> QED BY <1>1, <2>1, <3>2 DEF ConsoleInv, RefreshInv
  <2>4. refreshes' # <<>> => refreshes'[Len(refreshes')] = refreshes[Len(refreshes)]
    <3>1. HAVE refreshes' # <<>>
    <3>2. Len(refreshes') \in Nat \ {0}
      BY <2>2, <3>1
    <3> QED BY <1>1, <1>2, <2>1, <2>2, <3>2
  <2>5. ConsoleTypes' /\ OpenedInv'
    BY <1>1, <2>2 DEF ConsoleInv, ConsoleTypes, Console!TypeOK, OpenedInv, PageLists
  <2>6. RefreshInv'
    BY <1>1, <2>3, <2>4 DEF ConsoleInv, RefreshInv, HasConfirmed, Console!Unread, Console!Absent
  <2> QED BY <2>5, <2>6 DEF ConsoleInv
<1> QED BY <1>4, <1>5

LEMMA ConsoleInvKept ==
  ASSUME Console!ConsoleAssumption, ConsoleInv, [Console!Next]_(Console!vars)
  PROVE  ConsoleInv'
<1>1. CASE Console!Failed
  <2>1. call' \in PageCall /\ call'.step = "none"
    BY <1>1, ConsoleStart DEF Console!Failed, Console!NoCall
  <2>2. ConsoleTypes' /\ OpenedInv'
    BY <1>1, <2>1 DEF ConsoleInv, ConsoleTypes, Console!TypeOK, OpenedInv, PageCall, PageItem, Console!Failed
  <2>3. UNCHANGED <<catalog, shown, refreshes, confirmed, writes>>
    BY <1>1 DEF Console!Failed
  <2> QED BY <2>1, <2>2, <2>3, ListsStay DEF ConsoleInv
<1>2. CASE UNCHANGED Console!vars
  <2>1. ConsoleTypes' /\ OpenedInv'
    BY <1>2 DEF Console!vars, ConsoleInv, ConsoleTypes, Console!TypeOK, OpenedInv
  <2>2. UNCHANGED <<catalog, shown, refreshes, confirmed, writes>> /\ UNCHANGED call
    BY <1>2 DEF Console!vars
  <2> QED BY <2>1, <2>2, ListsStay DEF ConsoleInv
<1> QED BY <1>1, <1>2, PageFormsKeep, RequestsKeep, ServicesWriteKeeps, AnsweredKeeps, RefreshKeeps
       DEF Console!Next

LEMMA ConsoleInvariance ==
  ASSUME Console!ConsoleAssumption
  PROVE  Console!Spec => []ConsoleInv
<1>1. Console!Init => ConsoleInv
  BY InitConsoleInv
<1>2. ConsoleInv /\ [Console!Next]_(Console!vars) => ConsoleInv'
  BY ConsoleInvKept
<1> QED BY <1>1, <1>2, PTL DEF Console!Spec

\* What the invariant promises of the catalog page.
LEMMA ConsolePromises ==
  ASSUME ConsoleInv
  PROVE  /\ Console!TypeOK
         /\ Console!SavesWhatWasOpened
         /\ Console!RestShowsOwnWork
BY DEF ConsoleInv, ConsoleTypes, OpenedInv, RefreshInv, HasConfirmed, Console!SavesWhatWasOpened,
       Console!RestShowsOwnWork

\* A form that was opened to add an item overwrites none, and an edit is sent for
\* the item whose form was opened (CatalogManager.tsx).
THEOREM SavesAreForWhatWasOpened ==
  ASSUME Console!ConsoleAssumption
  PROVE  Console!Spec => []Console!SavesWhatWasOpened
<1>1. ConsoleInv => Console!SavesWhatWasOpened
  BY ConsolePromises
<1> QED BY <1>1, ConsoleInvariance, PTL

\* A refresh that read the catalog before a change does not have the last word on
\* the page the change was confirmed on.
THEOREM OwnWorkIsShown ==
  ASSUME Console!ConsoleAssumption
  PROVE  Console!Spec => []Console!RestShowsOwnWork
<1>1. ConsoleInv => Console!RestShowsOwnWork
  BY ConsolePromises
<1> QED BY <1>1, ConsoleInvariance, PTL

-----------------------------------------------------------------------------
(* ProductForm *)

Sheet ==
  [open : BOOLEAN, edits : BOOLEAN, colors : Seq(Form!Color), json : BOOLEAN,
   lines : Seq(Form!Line), price : Int]

\* A line is one that was written since, or that of a picture the product had, and
\* a picture nobody touched has its line.
LinesInv ==
  form.open =>
    /\ \A i \in DOMAIN form.lines :
         \/ form.lines[i] \in added
         \/ /\ form.edits /\ form.lines[i].name \in DOMAIN opened.images
            /\ form.lines[i].to = opened.images[form.lines[i].name]
    /\ form.edits =>
         \A k \in (DOMAIN opened.images) \ Form!touched :
           \E i \in DOMAIN form.lines : form.lines[i].name = k

FormInv == Form!TypeOK /\ LinesInv

LEMMA FormCardinality ==
  /\ \A S : Form!Cardinality(S) = Cardinality(S)
  /\ \A S : Form!IsFiniteSet(S) <=> IsFiniteSet(S)
<1>1. \A S : Form!Cardinality(S) = Cardinality(S)
  BY DEF Form!Cardinality, Cardinality
<1>2. \A S : Form!IsFiniteSet(S) <=> IsFiniteSet(S)
  BY DEF Form!IsFiniteSet, IsFiniteSet
<1> QED BY <1>1, <1>2

\* What the constants are, without the names.
LEMMA FormConstants ==
  ASSUME Form!FormAssumption
  PROVE  /\ Form!NoName \notin Form!Color /\ Stem \notin Form!Color /\ Null \notin Form!Color
         /\ Stem # Form!NoName
         /\ Broken \notin Form!Supported /\ Odd \in Form!Supported /\ Odd # Broken
         /\ IsFiniteSet(Form!Color) /\ Address # {} /\ Address \subseteq Form!Supported
         /\ Plain \subseteq Form!Color /\ AddressLike \subseteq Form!Color
         /\ WithEquals \subseteq Form!Color /\ WithEquals \intersect AddressLike = {}
         /\ MaxPrice \in Nat /\ FormEdits \in Nat /\ FormRows \subseteq Form!Stored
<1>1. IsFiniteSet(Form!Color)
  BY FormCardinality DEF Form!FormAssumption
<1> QED BY <1>1 DEF Form!FormAssumption, Form!Supported, Form!Color

\* A picture map is a function from colors.
LEMMA PictureMap ==
  ASSUME NEW P, NEW f, f = [k \in DOMAIN f |-> f[k]],
         DOMAIN f \subseteq Form!Color, \A k \in DOMAIN f : f[k] \in P
  PROVE  f \in UNION {[names -> P] : names \in SUBSET Form!Color}
<1>1. f \in [DOMAIN f -> P]
  OBVIOUS
<1> QED BY <1>1

LEMMA PicturesOf ==
  ASSUME NEW P, NEW f \in UNION {[names -> P] : names \in SUBSET Form!Color}
  PROVE  /\ DOMAIN f \subseteq Form!Color /\ \A k \in DOMAIN f : f[k] \in P
         /\ f = [k \in DOMAIN f |-> f[k]]
<1>1. PICK names \in SUBSET Form!Color : f \in [names -> P]
  OBVIOUS
<1> QED BY <1>1

LEMMA PickedAre ==
  ASSUME NEW T, NEW seq \in Seq(T), NEW I \in SUBSET (DOMAIN seq)
  PROVE  /\ Form!Picked(seq, I) = [n \in 1..Cardinality(I) |-> seq[NthOf(I, n)]]
         /\ Cardinality(I) \in Nat
         /\ \A n \in 1..Cardinality(I) : NthOf(I, n) \in I
         /\ \A i \in I : RankIn(I, i) \in 1..Cardinality(I)
         /\ Cardinality(I) = 0 => I = {}
<1>1. Len(seq) \in Nat /\ DOMAIN seq = 1..Len(seq)
  OBVIOUS
<1>2. I \in SUBSET Nat /\ IsFiniteSet(I) /\ Cardinality(I) \in Nat
  BY <1>1, IndicesFinite
<1>3. Form!Picked(seq, I) = [n \in 1..Cardinality(I) |-> seq[NthOf(I, n)]]
  BY Zenon DEF Form!Picked, NthOf, RankIn, Form!Cardinality, Cardinality
<1>4. \A n \in 1..Cardinality(I) : NthOf(I, n) \in I
  BY <1>2, RankOnto
<1>5. \A i \in I : RankIn(I, i) \in 1..Cardinality(I)
  BY <1>2, RankType
<1> QED BY <1>2, <1>3, <1>4, <1>5, FS_EmptySet

\* The elements of a finite set, one after the other.
LEMMA SetAsSequence ==
  ASSUME NEW S, IsFiniteSet(S)
  PROVE  /\ Form!SetToSeq(S) \in Seq(S)
         /\ \A x \in S : \E i \in DOMAIN Form!SetToSeq(S) : Form!SetToSeq(S)[i] = x
<1> DEFINE n == Cardinality(S)
           f == Form!SetToSeq(S)
<1>1. n \in Nat /\ ExistsBijection(1..n, S)
  BY FS_CardinalityType
<1>2. \E g \in [1..n -> S] : Form!IsInjective(g)
  BY <1>1 DEF ExistsBijection, Bijection, Injection, IsInjective, Form!IsInjective
<1>3. f \in [1..n -> S] /\ Form!IsInjective(f)
  BY <1>2, FormCardinality DEF Form!SetToSeq
<1>4. f \in Injection(1..n, S)
  BY <1>3 DEF Injection, IsInjective, Form!IsInjective
<1>5. IsFiniteSet(1..n) /\ Cardinality(1..n) = n
  BY <1>1, FS_Interval
<1>6. f \in Surjection(1..n, S)
  BY <1>4, <1>5, FS_Injection
<1>7. f \in Seq(S)
  BY <1>1, <1>3
<1> HIDE DEF n, f
<1>8. \A x \in S : \E i \in DOMAIN f : f[i] = x
  BY <1>3, <1>6 DEF Surjection
<1> QED BY <1>7, <1>8 DEF f

\* What is gathered for a color is the picture of one of its pairs.
LEMMA GatheredIs ==
  ASSUME NEW pairs, NEW n \in Nat, NEW I \in SUBSET (1..n)
  PROVE  /\ DOMAIN Form!Gather(pairs, I) = {pairs[i].name : i \in I}
         /\ \A c \in DOMAIN Form!Gather(pairs, I) :
              \E i \in I : pairs[i].name = c /\ Form!Gather(pairs, I)[c] = pairs[i].to
         /\ Form!Gather(pairs, I) =
              [c \in DOMAIN Form!Gather(pairs, I) |-> Form!Gather(pairs, I)[c]]
<1> DEFINE Last(c) == CHOOSE i \in I :
             /\ pairs[i].name = c
             /\ \A j \in I : pairs[j].name = c => j <= i
<1>1. Form!Gather(pairs, I) = [c \in {pairs[i].name : i \in I} |-> pairs[Last(c)].to]
  BY DEF Form!Gather
<1>2. ASSUME NEW c \in {pairs[i].name : i \in I}
      PROVE  Last(c) \in I /\ pairs[Last(c)].name = c
  <2> DEFINE S == {i \in I : pairs[i].name = c}
  <2>1. S \in SUBSET (1..n) /\ S # {}
    OBVIOUS
  <2>2. PICK i \in S : \A j \in S : j <= i
    BY <2>1, GreatestIndex
  <2>3. i \in I /\ pairs[i].name = c /\ \A j \in I : pairs[j].name = c => j <= i
    BY <2>2
  <2> QED BY <2>3
<1> HIDE DEF Last
<1> QED BY <1>1, <1>2

LEMMA GatheredFrom ==
  ASSUME NEW pairs, NEW n \in Nat, NEW I \in SUBSET (1..n), NEW c \in DOMAIN Form!Gather(pairs, I)
  PROVE  \E i \in I : pairs[i].name = c /\ Form!Gather(pairs, I)[c] = pairs[i].to
BY ONLY n \in Nat, I \in SUBSET (1..n), c \in DOMAIN Form!Gather(pairs, I), GatheredIs

\* The addresses without a color are those of the lines that are references.
LEMMA ReferencesAre ==
  ASSUME Form!FormAssumption, NEW lines \in Seq(Form!Line)
  PROVE  /\ Len(Form!References(lines)) \in Nat
         /\ DOMAIN Form!References(lines) = 1..Len(Form!References(lines))
         /\ \A n \in 1..Len(Form!References(lines)) :
              \E i \in DOMAIN lines :
                Form!IsReference(lines[i]) /\ Form!References(lines)[n] = Form!Referred(lines[i])
         /\ Form!References(lines) = <<>> => Form!ReferenceLines(lines) = {}
<1> DEFINE I == Form!ReferenceLines(lines)
           found == Form!Picked(lines, I)
<1>1. I \in SUBSET (DOMAIN lines) /\ \A i \in I : Form!IsReference(lines[i])
  BY DEF Form!ReferenceLines
<1>2. /\ found = [n \in 1..Cardinality(I) |-> lines[NthOf(I, n)]]
      /\ Cardinality(I) \in Nat
      /\ \A n \in 1..Cardinality(I) : NthOf(I, n) \in I
      /\ Cardinality(I) = 0 => I = {}
  BY <1>1, PickedAre
<1> HIDE DEF I
<1>3. Form!References(lines) = [n \in 1..Cardinality(I) |-> Form!Referred(lines[NthOf(I, n)])]
  BY <1>2 DEF Form!References, I
<1>4. Len(Form!References(lines)) = Cardinality(I)
  BY <1>2, <1>3
<1>5. Form!References(lines) = <<>> => Cardinality(I) = 0
  BY <1>4
<1> QED BY <1>1, <1>2, <1>3, <1>4, <1>5 DEF I

\* What the lines are read as for a color comes from one of them.
LEMMA ParsedIs ==
  ASSUME Form!FormAssumption, NEW lines \in Seq(Form!Line), NEW colors \in Seq(Form!Color),
         Form!Fits(Form!References(lines), colors)
  PROVE  /\ \A k \in DOMAIN Form!ParsedLines(lines, colors) :
              \/ \E i \in DOMAIN lines :
                   /\ ~Form!IsReference(lines[i]) /\ Form!PairOf(lines[i]).name = k
                   /\ Form!ParsedLines(lines, colors)[k] = Form!PairOf(lines[i]).to
              \/ /\ k \in Form!Color
                 /\ \E i \in DOMAIN lines :
                      /\ Form!IsReference(lines[i])
                      /\ Form!ParsedLines(lines, colors)[k] = Form!Referred(lines[i])
         /\ Form!ParsedLines(lines, colors) =
              [k \in DOMAIN Form!ParsedLines(lines, colors) |-> Form!ParsedLines(lines, colors)[k]]
         /\ \A i \in DOMAIN lines :
              ~Form!IsReference(lines[i]) =>
                Form!PairOf(lines[i]).name \in DOMAIN Form!ParsedLines(lines, colors)
<1> DEFINE refs == Form!References(lines)
           rest == (DOMAIN lines) \ Form!ReferenceLines(lines)
           asPairs == [i \in DOMAIN lines |-> Form!PairOf(lines[i])]
           pairs == Form!Gather(asPairs, rest)
           inOrder == [i \in DOMAIN colors |->
                         [name |-> colors[i], to |-> IF Len(refs) = 1 THEN refs[1] ELSE refs[i]]]
           given == IF refs = <<>> THEN <<>> ELSE Form!InOrder(refs, colors)
           result == Form!ParsedLines(lines, colors)
<1>1. result = [k \in DOMAIN pairs \union DOMAIN given |-> IF k \in DOMAIN given THEN given[k] ELSE pairs[k]]
  BY DEF Form!ParsedLines
<1>2. /\ Len(lines) \in Nat /\ rest \in SUBSET (1..Len(lines))
      /\ \A i \in rest : i \in DOMAIN lines /\ ~Form!IsReference(lines[i]) /\ asPairs[i] = Form!PairOf(lines[i])
      /\ \A i \in DOMAIN lines : ~Form!IsReference(lines[i]) => i \in rest
  BY DEF Form!ReferenceLines
<1>3. Len(colors) \in Nat /\ DOMAIN colors = 1..Len(colors) /\ \A i \in 1..Len(colors) : colors[i] \in Form!Color
  OBVIOUS
<1>4. DOMAIN inOrder = 1..Len(colors)
  BY <1>3
<1>5. /\ Len(refs) \in Nat /\ DOMAIN refs = 1..Len(refs)
      /\ \A n \in 1..Len(refs) :
           \E i \in DOMAIN lines : Form!IsReference(lines[i]) /\ refs[n] = Form!Referred(lines[i])
  BY ReferencesAre
<1>6. refs # <<>> => given = Form!Gather(inOrder, 1..Len(colors))
  BY <1>4 DEF Form!InOrder, Form!GatherAll
<1>7. refs = <<>> => DOMAIN given = {}
  OBVIOUS
<1>8. refs # <<>> => Len(refs) = 1 \/ Len(refs) = Len(colors)
  BY <1>5 DEF Form!Fits
<1>9. \A i \in 1..Len(colors) :
        inOrder[i].name = colors[i] /\ inOrder[i].to = IF Len(refs) = 1 THEN refs[1] ELSE refs[i]
  BY <1>3
<1> HIDE DEF refs, rest, asPairs, inOrder
<1>10. /\ DOMAIN pairs = {asPairs[i].name : i \in rest}
       /\ \A c \in DOMAIN pairs : \E i \in rest : asPairs[i].name = c /\ pairs[c] = asPairs[i].to
  <2>1. Len(lines) \in Nat /\ rest \in SUBSET (1..Len(lines))
    BY <1>2
  <2>2. DOMAIN Form!Gather(asPairs, rest) = {asPairs[i].name : i \in rest}
    BY DEF Form!Gather
  <2>3. \A c \in DOMAIN Form!Gather(asPairs, rest) : \E i \in rest :
          asPairs[i].name = c /\ Form!Gather(asPairs, rest)[c] = asPairs[i].to
    BY ONLY <2>1, GatheredIs
  <2> QED BY ONLY <2>2, <2>3 DEF pairs
<1> HIDE DEF pairs, given, result
<1>11. refs # <<>> =>
         \A c \in DOMAIN given : \E i \in 1..Len(colors) : inOrder[i].name = c /\ given[c] = inOrder[i].to
  <2>1. 1..Len(colors) \in SUBSET (1..Len(colors))
    OBVIOUS
  <2>2. \A c \in DOMAIN Form!Gather(inOrder, 1..Len(colors)) : \E i \in 1..Len(colors) :
          inOrder[i].name = c /\ Form!Gather(inOrder, 1..Len(colors))[c] = inOrder[i].to
    BY ONLY <1>3, <2>1, GatheredIs
  <2> QED BY ONLY <1>6, <2>2
<1>12. ASSUME NEW k \in DOMAIN given
       PROVE  /\ k \in Form!Color
              /\ \E i \in DOMAIN lines : Form!IsReference(lines[i]) /\ given[k] = Form!Referred(lines[i])
  <2>1. refs # <<>>
    BY <1>7
  <2>2. PICK n \in 1..Len(colors) : inOrder[n].name = k /\ given[k] = inOrder[n].to
    BY <1>11, <2>1
  <2>3. PICK m \in 1..Len(refs) : given[k] = refs[m]
    <3>1. CASE Len(refs) = 1
      BY <1>9, <2>2, <3>1
    <3>2. CASE Len(refs) # 1 /\ Len(refs) = Len(colors)
      BY <1>9, <2>2, <3>2
    <3> QED BY <1>8, <2>1, <3>1, <3>2
  <2> QED BY <1>3, <1>5, <1>9, <2>2, <2>3
<1>13. ASSUME NEW k \in DOMAIN result
       PROVE  \/ \E i \in DOMAIN lines :
                   /\ ~Form!IsReference(lines[i]) /\ Form!PairOf(lines[i]).name = k
                   /\ result[k] = Form!PairOf(lines[i]).to
              \/ /\ k \in Form!Color
                 /\ \E i \in DOMAIN lines :
                      Form!IsReference(lines[i]) /\ result[k] = Form!Referred(lines[i])
  <2>1. CASE k \in DOMAIN given
    BY <1>1, <1>12, <2>1
  <2>2. CASE k \notin DOMAIN given
    <3>1. k \in DOMAIN pairs /\ result[k] = pairs[k]
      BY <1>1, <2>2
    <3>2. PICK i \in rest : asPairs[i].name = k /\ pairs[k] = asPairs[i].to
      BY <1>10, <3>1
    <3> QED BY <1>2, <3>1, <3>2
  <2> QED BY <2>1, <2>2
<1>14. ASSUME NEW i \in DOMAIN lines, ~Form!IsReference(lines[i])
       PROVE  Form!PairOf(lines[i]).name \in DOMAIN result
  BY <1>1, <1>2, <1>10, <1>14
<1>15. result = [k \in DOMAIN result |-> result[k]]
  BY <1>1
<1> QED BY <1>13, <1>14, <1>15 DEF result

\* What a form's text is read as: the pictures of its lines, and with no address
\* alone among them a picture for the color of each.
LEMMA SavedIs ==
  ASSUME Form!FormAssumption, form \in Sheet, Form!Readable(form),
         Form!Valid(Form!buildProductPayload(form))
  PROVE  LET images == Form!parseProductImageInput(form)
         IN  /\ images = [k \in DOMAIN images |-> images[k]]
             /\ \A k \in DOMAIN images : k \in Form!Color /\ images[k] \in Form!Supported
             /\ \A k \in DOMAIN images :
                  \/ \E i \in DOMAIN form.lines :
                       form.lines[i].name = k /\ form.lines[i].to = images[k]
                  \/ \E i \in DOMAIN form.lines :
                       form.lines[i].name = Form!NoName /\ form.lines[i].to = images[k]
                  \/ images[k] = Odd
             /\ form.json \/ Form!References(form.lines) = <<>> =>
                  /\ \A i \in DOMAIN form.lines : form.lines[i].name \in DOMAIN images
                  /\ \A k \in DOMAIN images : \E i \in DOMAIN form.lines :
                       form.lines[i].name = k /\ form.lines[i].to = images[k]
<1> DEFINE lines == form.lines
           colors == form.colors
           images == Form!parseProductImageInput(form)
<1>1. /\ lines \in Seq(Form!Line) /\ colors \in Seq(Form!Color) /\ Len(lines) \in Nat
      /\ DOMAIN lines = 1..Len(lines)
      /\ \A i \in DOMAIN lines :
           /\ lines[i].name \in Form!Color \union {Form!NoName}
           /\ lines[i].to \in Form!Supported \union {Broken}
  <2>1. lines \in Seq(Form!Line) /\ colors \in Seq(Form!Color)
    BY DEF Sheet
  <2>2. \A x \in Form!Line : x.name \in Form!Color \union {Form!NoName} /\ x.to \in Form!Supported \union {Broken}
    BY DEF Form!Line
  <2> QED BY <2>1, <2>2
<1>2. \A k \in DOMAIN images : images[k] \in Form!Supported
  BY DEF Form!Valid, Form!buildProductPayload, Form!AllSupported, Form!Range
<1> HIDE DEF lines, colors
<1>3. CASE form.json
  <2>1. images = Form!Gather(lines, DOMAIN lines)
    BY <1>3 DEF Form!parseProductImageInput, Form!GatherAll, lines
  <2>2. \A i \in DOMAIN lines : lines[i].name # Form!NoName
    BY <1>1, <1>3 DEF Form!Readable, Form!Range, lines
  <2> HIDE DEF images
  <2>3. DOMAIN images = {lines[i].name : i \in DOMAIN lines}
    BY <2>1 DEF Form!Gather
  <2>4. /\ \A c \in DOMAIN images : \E i \in DOMAIN lines : lines[i].name = c /\ images[c] = lines[i].to
        /\ images = [k \in DOMAIN images |-> images[k]]
    <3>1. DOMAIN lines \in SUBSET (1..Len(lines)) /\ Len(lines) \in Nat
      BY <1>1
    <3>2. \A c \in DOMAIN images : \E i \in DOMAIN lines : lines[i].name = c /\ images[c] = lines[i].to
      <4>1. \A c \in DOMAIN Form!Gather(lines, DOMAIN lines) : \E i \in DOMAIN lines :
              lines[i].name = c /\ Form!Gather(lines, DOMAIN lines)[c] = lines[i].to
        BY ONLY <3>1, GatheredFrom
      <4> QED BY ONLY <2>1, <4>1
    <3>3. images = [k \in DOMAIN images |-> images[k]]
      BY <2>1 DEF Form!Gather
    <3> QED BY <3>2, <3>3
  <2>5. \A k \in DOMAIN images : k \in Form!Color
    BY <1>1, <2>2, <2>3
  <2>6. \A i \in DOMAIN lines : lines[i].name \in DOMAIN images
    BY <2>3
  <2> QED BY <1>2, <2>4, <2>5, <2>6 DEF images, lines
<1>4. CASE ~form.json
  <2>1. images = Form!ParsedLines(lines, colors)
    BY <1>4 DEF Form!parseProductImageInput, lines, colors
  <2>2. /\ \A i \in DOMAIN lines : lines[i].name # Form!NoName \/ Form!IsReference(lines[i])
        /\ Form!Fits(Form!References(lines), colors)
    BY <1>1, <1>4 DEF Form!Readable, Form!Range, lines, colors
  <2> HIDE DEF images
  <2>3. /\ \A k \in DOMAIN images :
              \/ \E i \in DOMAIN lines :
                   /\ ~Form!IsReference(lines[i]) /\ Form!PairOf(lines[i]).name = k
                   /\ images[k] = Form!PairOf(lines[i]).to
              \/ /\ k \in Form!Color
                 /\ \E i \in DOMAIN lines :
                      Form!IsReference(lines[i]) /\ images[k] = Form!Referred(lines[i])
        /\ images = [k \in DOMAIN images |-> images[k]]
        /\ \A i \in DOMAIN lines :
             ~Form!IsReference(lines[i]) => Form!PairOf(lines[i]).name \in DOMAIN images
    BY <1>1, <2>1, <2>2, ParsedIs
  \* A line with an "=" in its color would be saved with no address.
  <2>4. \A i \in DOMAIN lines :
          ~Form!IsReference(lines[i]) =>
            /\ Form!PairOf(lines[i]) = lines[i]
            /\ lines[i].name \in Form!Color
    <3>1. TAKE i \in DOMAIN lines
    <3>2. HAVE ~Form!IsReference(lines[i])
    <3>3. Form!PairOf(lines[i]).name \in DOMAIN images
      BY <2>3, <3>2
    <3>4. CASE lines[i].name \in WithEquals
      <4>1. Form!PairOf(lines[i]).name = Stem /\ Stem \notin Form!Color
        BY <3>4, FormConstants DEF Form!PairOf
      <4>2. PICK j \in DOMAIN lines :
              /\ Form!PairOf(lines[j]).name = Stem
              /\ images[Stem] = Form!PairOf(lines[j]).to
        BY <2>3, <3>3, <4>1
      <4>3. lines[j].name \in WithEquals \/ Form!PairOf(lines[j]) = lines[j]
        BY DEF Form!PairOf
      <4>4. CASE lines[j].name \in WithEquals
        <5>1. Form!PairOf(lines[j]).to = Broken
          BY <4>4 DEF Form!PairOf
        <5> QED BY <1>2, <3>3, <4>1, <4>2, <5>1, FormConstants
      <4>5. CASE Form!PairOf(lines[j]) = lines[j]
        \* Nor is a line without a color read as that of the stem.
        BY <1>1, <2>2, <4>1, <4>2, <4>5, FormConstants
      <4> QED BY <4>3, <4>4, <4>5
    <3>5. CASE lines[i].name \notin WithEquals
      BY <1>1, <2>2, <3>2, <3>5 DEF Form!PairOf
    <3> QED BY <3>4, <3>5
  <2>5. \A i \in DOMAIN lines :
          Form!IsReference(lines[i]) =>
            IF lines[i].name = Form!NoName THEN Form!Referred(lines[i]) = lines[i].to
            ELSE Form!Referred(lines[i]) = Odd
    BY DEF Form!Referred
  <2>6. Form!References(lines) = <<>> => \A i \in DOMAIN lines : ~Form!IsReference(lines[i])
    BY <1>1, ReferencesAre DEF Form!ReferenceLines
  <2>7. \A k \in DOMAIN images :
          /\ k \in Form!Color
          /\ \/ \E i \in DOMAIN lines : lines[i].name = k /\ lines[i].to = images[k]
             \/ \E i \in DOMAIN lines : lines[i].name = Form!NoName /\ lines[i].to = images[k]
             \/ images[k] = Odd
    BY <2>3, <2>4, <2>5
  <2>8. Form!References(lines) = <<>> =>
          /\ \A i \in DOMAIN lines : lines[i].name \in DOMAIN images
          /\ \A k \in DOMAIN images :
               \E i \in DOMAIN lines : lines[i].name = k /\ lines[i].to = images[k]
    BY <2>3, <2>4, <2>6
  <2> QED BY <1>2, <1>4, <2>3, <2>7, <2>8 DEF images, lines
<1> QED BY <1>3, <1>4

FormPictures == UNION {[names -> Form!Supported \union {Broken}] : names \in SUBSET Form!Color}

\* What is handed out has no nulls.
LEMMA RecordOf ==
  ASSUME Form!FormAssumption, NEW p \in Form!Stored
  PROVE  Form!toProductRecord(p) \in Form!Record
<1> DEFINE kept == {i \in DOMAIN p.colors : p.colors[i] # Null}
           named == {k \in DOMAIN p.images : p.images[k] # NotText}
           images == [k \in named |-> p.images[k]]
           colors == Form!Picked(p.colors, kept)
<1>1. /\ p.price \in Int /\ p.colors \in Seq(Form!Color \union {Null})
      /\ p.images \in UNION {[names -> Form!Supported \union {Broken, NotText}] : names \in SUBSET Form!Color}
  BY DEF Form!Stored, Form!Products
<1>2. /\ DOMAIN p.images \subseteq Form!Color
      /\ \A k \in DOMAIN p.images : p.images[k] \in Form!Supported \union {Broken, NotText}
  BY <1>1, PicturesOf
<1>3. images \in FormPictures
  <2>1. /\ images = [k \in DOMAIN images |-> images[k]] /\ DOMAIN images \subseteq Form!Color
        /\ \A k \in DOMAIN images : images[k] \in Form!Supported \union {Broken}
    BY <1>2
  <2> HIDE DEF images
  <2> QED BY <2>1, PictureMap DEF FormPictures
<1>4. colors \in Seq(Form!Color)
  <2>1. kept \in SUBSET (DOMAIN p.colors)
    OBVIOUS
  <2>2. \A i \in kept : p.colors[i] \in Form!Color
    BY <1>1
  <2>3. p.colors \in Seq(Form!Color \union {Null})
    BY <1>1
  <2> HIDE DEF colors, kept
  <2>4. /\ colors = [n \in 1..Cardinality(kept) |-> p.colors[NthOf(kept, n)]]
        /\ Cardinality(kept) \in Nat
        /\ \A n \in 1..Cardinality(kept) : NthOf(kept, n) \in kept
    BY ONLY <2>1, <2>3, PickedAre DEF colors
  <2>5. colors \in [1..Cardinality(kept) -> Form!Color]
    BY <2>2, <2>4
  <2> QED BY <2>4, <2>5
<1> HIDE DEF colors, images
<1>5. Form!toProductRecord(p) = [price |-> p.price, colors |-> colors, images |-> images]
  BY DEF Form!toProductRecord, colors, images
<1> QED BY <1>1, <1>3, <1>4, <1>5 DEF Form!Record, Form!Products, FormPictures

\* Each picture has its line, and each line is one of a picture.
LEMMA LinesAre ==
  ASSUME Form!FormAssumption, NEW images \in FormPictures
  PROVE  /\ Form!LinesOf(images) \in Seq(Form!Line)
         /\ \A i \in DOMAIN Form!LinesOf(images) :
              LET line == Form!LinesOf(images)[i]
              IN  line.name \in DOMAIN images /\ line.to = images[line.name]
         /\ \A k \in DOMAIN images :
              \E i \in DOMAIN Form!LinesOf(images) : Form!LinesOf(images)[i].name = k
<1> DEFINE names == Form!SetToSeq(DOMAIN images)
           lines == Form!LinesOf(images)
<1>1. DOMAIN images \subseteq Form!Color /\ \A k \in DOMAIN images : images[k] \in Form!Supported \union {Broken}
  BY PicturesOf DEF FormPictures
<1>2. IsFiniteSet(DOMAIN images)
  BY <1>1, FormConstants, FS_Subset
<1>3. /\ names \in Seq(DOMAIN images)
      /\ \A k \in DOMAIN images : \E i \in DOMAIN names : names[i] = k
  BY <1>2, SetAsSequence
<1>4. lines = [i \in DOMAIN names |-> [name |-> names[i], to |-> images[names[i]]]]
  BY DEF Form!LinesOf
<1> HIDE DEF names, lines
<1>5. /\ Len(names) \in Nat /\ DOMAIN names = 1..Len(names)
      /\ \A i \in DOMAIN names : names[i] \in DOMAIN images
  BY <1>3
<1>6. \A i \in DOMAIN lines : i \in DOMAIN names /\ lines[i].name = names[i] /\ lines[i].to = images[names[i]]
  BY <1>4
<1>7. \A i \in DOMAIN names : [name |-> names[i], to |-> images[names[i]]] \in Form!Line
  BY <1>1, <1>5 DEF Form!Line
<1>8. lines \in Seq(Form!Line)
  BY <1>4, <1>5, <1>7
<1>9. \A i \in DOMAIN lines : lines[i].name \in DOMAIN images /\ lines[i].to = images[lines[i].name]
  BY <1>5, <1>6
<1>10. \A k \in DOMAIN images : \E i \in DOMAIN lines : lines[i].name = k
  BY <1>3, <1>4
<1> QED BY <1>8, <1>9, <1>10 DEF lines

LEMMA ClosedIsASheet ==
  Form!ClosedForm \in Sheet /\ ~Form!ClosedForm.open
<1>1. <<>> \in Seq(Form!Color) /\ <<>> \in Seq(Form!Line) /\ -1 \in Int
  OBVIOUS
<1> QED BY <1>1 DEF Form!ClosedForm, Sheet, Form!Unreadable

LEMMA InitFormInv ==
  ASSUME Form!FormAssumption, Form!Init
  PROVE  FormInv
<1>1. row \in Form!Stored
  BY FormConstants DEF Form!Init
<1>2. opened \in Form!Record
  BY <1>1, RecordOf DEF Form!Init
<1>3. edits \in 0..FormEdits
  BY FormConstants DEF Form!Init
<1>4. form \in Sheet /\ ~form.open /\ form = Form!ClosedForm
  BY ClosedIsASheet DEF Form!Init
<1> QED BY <1>1, <1>2, <1>3, <1>4 DEF FormInv, Form!TypeOK, LinesInv, Sheet, Form!Init

\* The sheet for a new product has no lines but those it is opened with.
LEMMA openCreateKeeps ==
  ASSUME Form!FormAssumption, FormInv, Form!openCreateProduct
  PROVE  FormInv'
<1> DEFINE colors == Form!SetToSeq(Plain)
           lines == [i \in DOMAIN colors |-> [name |-> colors[i], to |-> Form!Example]]
<1>1. IsFiniteSet(Plain) /\ Plain \subseteq Form!Color
  BY FormConstants, FS_Subset
<1>2. colors \in Seq(Plain)
  BY <1>1, SetAsSequence
<1>3. Form!Example \in Form!Supported
  BY FormConstants DEF Form!Example
<1> HIDE DEF colors
<1>4. colors \in Seq(Form!Color) /\ Len(colors) \in Nat /\ DOMAIN colors = 1..Len(colors)
  BY <1>1, <1>2
<1>5. \A i \in DOMAIN colors : [name |-> colors[i], to |-> Form!Example] \in Form!Line
  BY <1>3, <1>4 DEF Form!Line
<1>6. lines \in Seq(Form!Line)
  BY <1>4, <1>5
<1> HIDE DEF lines
<1>7. form' = [open |-> TRUE, edits |-> FALSE, colors |-> colors, json |-> FALSE, lines |-> lines,
               price |-> Form!Unreadable]
  BY DEF Form!openCreateProduct, Form!emptyProductForm, colors, lines
<1>8. form' \in Sheet /\ form'.lines = lines /\ form'.open /\ ~form'.edits
  BY <1>4, <1>6, <1>7 DEF Sheet, Form!Unreadable
<1>9. added' = {lines[i] : i \in DOMAIN lines} /\ removed' = {}
  BY <1>8 DEF Form!openCreateProduct, Form!Range
<1>10. added' \subseteq Form!Line /\ \A i \in DOMAIN lines : lines[i] \in added'
  BY <1>6, <1>9
<1>11. LinesInv'
  BY <1>8, <1>10 DEF LinesInv
<1>12. Form!TypeOK'
  BY <1>8, <1>9, <1>10 DEF FormInv, Form!TypeOK, Sheet, Form!openCreateProduct
<1> QED BY <1>11, <1>12 DEF FormInv

\* The sheet of a product has the line of each of its pictures.
LEMMA openEditKeeps ==
  ASSUME Form!FormAssumption, FormInv, Form!openEditProduct
  PROVE  FormInv'
<1>1. opened' \in Form!Record
  BY RecordOf DEF FormInv, Form!TypeOK, Form!openEditProduct
<1>2. opened'.images \in FormPictures /\ opened'.colors \in Seq(Form!Color) /\ opened'.price \in Int
  BY <1>1 DEF Form!Record, Form!Products, FormPictures
<1> DEFINE lines == Form!LinesOf(opened'.images)
<1>3. /\ lines \in Seq(Form!Line)
      /\ \A i \in DOMAIN lines :
           lines[i].name \in DOMAIN opened'.images /\ lines[i].to = opened'.images[lines[i].name]
      /\ \A k \in DOMAIN opened'.images : \E i \in DOMAIN lines : lines[i].name = k
  BY <1>2, LinesAre
<1> HIDE DEF lines
<1>4. form' = [open |-> TRUE, edits |-> TRUE, colors |-> opened'.colors, json |-> FALSE,
               lines |-> lines, price |-> opened'.price]
  BY DEF Form!openEditProduct, Form!productToForm, lines
<1>5. form' \in Sheet /\ form'.lines = lines /\ form'.open /\ form'.edits
  BY <1>2, <1>3, <1>4 DEF Sheet
<1>6. added' = {} /\ removed' = {} /\ UNCHANGED <<row, edits>>
  BY DEF Form!openEditProduct
<1>7. LinesInv'
  BY <1>3, <1>5 DEF LinesInv
<1>8. Form!TypeOK'
  BY <1>1, <1>5, <1>6 DEF FormInv, Form!TypeOK, Sheet
<1> QED BY <1>7, <1>8 DEF FormInv

\* Editing keeps the lines but for the one that is added or removed.
LEMMA FormEditKeeps ==
  ASSUME Form!FormAssumption, FormInv, Form!Edit, form' \in Sheet,
         form'.open, form'.edits = form.edits,
         added \subseteq added', added' \subseteq Form!Line,
         removed \subseteq removed', removed' \subseteq Form!Color \union {Form!NoName},
         \A i \in DOMAIN form'.lines :
           form'.lines[i] \in added' \/ \E j \in DOMAIN form.lines : form'.lines[i] = form.lines[j],
         \A j \in DOMAIN form.lines :
           \/ form.lines[j].name \in removed'
           \/ \E i \in DOMAIN form'.lines : form'.lines[i] = form.lines[j],
         UNCHANGED <<row, opened>>
  PROVE  FormInv'
<1>1. form.open
  BY DEF Form!Edit
<1>2. Form!touched \subseteq Form!touched'
  BY DEF Form!touched
<1>3. edits' \in 0..FormEdits
  BY FormConstants DEF FormInv, Form!TypeOK, Form!Edit
<1>4. LinesInv'
  <2>1. ASSUME NEW i \in DOMAIN form'.lines
        PROVE  \/ form'.lines[i] \in added'
               \/ /\ form'.edits /\ form'.lines[i].name \in DOMAIN opened'.images
                  /\ form'.lines[i].to = opened'.images[form'.lines[i].name]
    BY <1>1 DEF FormInv, LinesInv
  <2>2. ASSUME form'.edits, NEW k \in (DOMAIN opened'.images) \ Form!touched'
        PROVE  \E i \in DOMAIN form'.lines : form'.lines[i].name = k
    <3>1. PICK j \in DOMAIN form.lines : form.lines[j].name = k
      BY <1>1, <1>2, <2>2 DEF FormInv, LinesInv
    <3>2. k \notin removed'
      BY <2>2 DEF Form!touched
    <3> QED BY <3>1, <3>2
  <2> QED BY <2>1, <2>2 DEF LinesInv
<1> QED BY <1>3, <1>4 DEF FormInv, Form!TypeOK, Sheet

LEMMA BoundedIsSequence ==
  ASSUME NEW S, NEW n \in Nat, NEW seq \in Form!BoundedSeq(S, n)
  PROVE  seq \in Seq(S)
<1>1. PICK m \in 0..n : seq \in [1..m -> S]
  BY DEF Form!BoundedSeq, Form!SeqOf
<1> QED BY <1>1

\* What is left of a sequence without one of its elements.
LEMMA RemovedFrom ==
  ASSUME NEW S, NEW seq \in Seq(S), NEW n \in 1..Len(seq)
  PROVE  /\ Form!RemoveAt(seq, n) \in Seq(S) /\ Len(Form!RemoveAt(seq, n)) = Len(seq) - 1
         /\ \A i \in 1..(Len(seq) - 1) :
              Form!RemoveAt(seq, n)[i] = IF i < n THEN seq[i] ELSE seq[i + 1]
<1> DEFINE low == SubSeq(seq, 1, n - 1)
           high == SubSeq(seq, n + 1, Len(seq))
<1>1. Len(seq) \in Nat /\ n \in Nat /\ 1 <= n /\ n <= Len(seq)
  OBVIOUS
<1>2. low \in Seq(S) /\ Len(low) = n - 1 /\ \A i \in 1..(n - 1) : low[i] = seq[i]
  BY <1>1
<1>3. /\ high \in Seq(S) /\ Len(high) = Len(seq) - n
      /\ \A i \in 1..(Len(seq) - n) : high[i] = seq[n + i]
  BY <1>1
<1>4. Form!RemoveAt(seq, n) = low \o high
  BY DEF Form!RemoveAt
<1> HIDE DEF low, high
<1>5. low \o high \in Seq(S) /\ Len(low \o high) = Len(seq) - 1
  <2>1. low \o high \in Seq(S) /\ Len(low \o high) = Len(low) + Len(high)
    <3>1. low \in Seq(S) /\ high \in Seq(S)
      BY <1>2, <1>3
    <3> QED BY ONLY <3>1
  <2>2. Len(low) + Len(high) = Len(seq) - 1
    BY ONLY <1>1, <1>2, <1>3
  <2> QED BY <2>1, <2>2
<1>6. ASSUME NEW i \in 1..(Len(seq) - 1)
      PROVE  (low \o high)[i] = IF i < n THEN seq[i] ELSE seq[i + 1]
  <2>1. CASE i < n
    BY <1>1, <1>2, <1>3, <2>1
  <2>2. CASE ~(i < n)
    <3>1. (low \o high)[i] = high[i - (n - 1)]
      BY <1>1, <1>2, <1>3, <2>2
    <3>2. i - (n - 1) \in 1..(Len(seq) - n) /\ n + (i - (n - 1)) = i + 1
      BY <1>1, <2>2
    <3>3. high[i - (n - 1)] = seq[i + 1]
      BY <1>3, <3>2
    <3> QED BY <2>2, <3>1, <3>3
  <2> QED BY <2>1, <2>2
<1> QED BY <1>4, <1>5, <1>6

LEMMA EditsKeep ==
  ASSUME Form!FormAssumption, FormInv,
         \/ \E colors \in Form!Colors : Form!TypeColors(colors)
         \/ \E amount \in Form!Cents \union {Form!Unreadable} : Form!TypePrice(amount)
         \/ \E line \in Form!Line : Form!AddLine(line)
         \/ \E i \in DOMAIN form.lines : Form!RemoveLine(i)
         \/ Form!Rewrite
  PROVE  FormInv'
<1>1. /\ form \in Sheet /\ added \subseteq Form!Line
      /\ removed \subseteq Form!Color \union {Form!NoName}
  BY DEF FormInv, Form!TypeOK, Sheet
<1>2. /\ form.lines \in Seq(Form!Line) /\ Len(form.lines) \in Nat
      /\ DOMAIN form.lines = 1..Len(form.lines)
  BY <1>1 DEF Sheet
<1>3. ASSUME NEW colors \in Form!Colors, Form!TypeColors(colors)
      PROVE  FormInv'
  <2>1. colors \in Seq(Form!Color)
    BY BoundedIsSequence DEF Form!Colors
  <2>2. form' \in Sheet /\ form'.open /\ form'.edits = form.edits /\ form'.lines = form.lines
    BY <1>1, <1>3, <2>1 DEF Form!TypeColors, Form!Edit, Sheet
  <2> QED BY <1>1, <1>3, <2>2, FormEditKeeps DEF Form!TypeColors
<1>4. ASSUME NEW amount \in Form!Cents \union {Form!Unreadable}, Form!TypePrice(amount)
      PROVE  FormInv'
  <2>1. amount \in Int
    BY FormConstants DEF Form!Cents, Form!Unreadable
  <2>2. form' \in Sheet /\ form'.open /\ form'.edits = form.edits /\ form'.lines = form.lines
    BY <1>1, <1>4, <2>1 DEF Form!TypePrice, Form!Edit, Sheet
  <2> QED BY <1>1, <1>4, <2>2, FormEditKeeps DEF Form!TypePrice
<1>5. ASSUME NEW line \in Form!Line, Form!AddLine(line)
      PROVE  FormInv'
  <2>1. Append(form.lines, line) \in Seq(Form!Line)
    BY <1>2
  <2>2. /\ form' \in Sheet /\ form'.open /\ form'.edits = form.edits
        /\ form'.lines = Append(form.lines, line)
    BY <1>1, <1>5, <2>1 DEF Form!AddLine, Form!Edit, Sheet
  <2>3. /\ DOMAIN form'.lines = 1..(Len(form.lines) + 1)
        /\ \A i \in 1..Len(form.lines) : form'.lines[i] = form.lines[i]
        /\ form'.lines[Len(form.lines) + 1] = line
    BY <1>2, <2>2
  <2>4. added' = added \union {line} /\ removed' = removed /\ UNCHANGED <<row, opened>> /\ Form!Edit
    BY <1>5 DEF Form!AddLine
  <2>5. \A i \in DOMAIN form'.lines : i \in 1..Len(form.lines) \/ i = Len(form.lines) + 1
    BY <1>2, <2>3
  <2>6. \A i \in DOMAIN form'.lines :
          form'.lines[i] \in added' \/ \E j \in DOMAIN form.lines : form'.lines[i] = form.lines[j]
    BY <1>2, <2>3, <2>4, <2>5
  <2>7. \A j \in DOMAIN form.lines : \E i \in DOMAIN form'.lines : form'.lines[i] = form.lines[j]
    BY <1>2, <2>3
  <2> QED BY <1>1, <2>2, <2>4, <2>6, <2>7, FormEditKeeps
<1>6. ASSUME NEW n \in DOMAIN form.lines, Form!RemoveLine(n)
      PROVE  FormInv'
  <2> DEFINE rest == Form!RemoveAt(form.lines, n)
  <2>1. /\ rest \in Seq(Form!Line) /\ Len(rest) = Len(form.lines) - 1
        /\ \A i \in 1..Len(rest) : rest[i] = IF i < n THEN form.lines[i] ELSE form.lines[i + 1]
    <3>1. n \in 1..Len(form.lines) /\ form.lines \in Seq(Form!Line)
      BY <1>2
    <3>2. rest \in Seq(Form!Line) /\ Len(rest) = Len(form.lines) - 1
      BY ONLY <3>1, RemovedFrom DEF rest
    <3>3. \A i \in 1..(Len(form.lines) - 1) :
            rest[i] = IF i < n THEN form.lines[i] ELSE form.lines[i + 1]
      BY ONLY <3>1, RemovedFrom DEF rest
    <3> QED BY ONLY <3>2, <3>3
  <2> HIDE DEF rest
  <2>2. form' \in Sheet /\ form'.open /\ form'.edits = form.edits /\ form'.lines = rest
    BY <1>1, <1>6, <2>1 DEF Form!RemoveLine, Form!Edit, Sheet, rest
  <2>3. /\ removed' = removed \union {form.lines[n].name} /\ added' = added
        /\ UNCHANGED <<row, opened>> /\ Form!Edit
    BY <1>6 DEF Form!RemoveLine
  <2>4. form.lines[n].name \in Form!Color \union {Form!NoName}
    <3>1. form.lines[n] \in Form!Line
      BY <1>2
    <3> QED BY ONLY <3>1 DEF Form!Line
  <2>5. ASSUME NEW i \in DOMAIN rest
        PROVE  \E j \in DOMAIN form.lines : rest[i] = form.lines[j]
    <3>1. i \in 1..Len(rest) /\ i \in Nat /\ i + 1 \in 1..Len(form.lines)
      BY <1>2, <2>1
    <3> QED BY <1>2, <2>1, <3>1
  <2>6. ASSUME NEW j \in DOMAIN form.lines, j # n
        PROVE  \E i \in DOMAIN rest : rest[i] = form.lines[j]
    <3>1. CASE j < n
      <4>1. j \in 1..Len(rest)
        BY <1>2, <2>1, <3>1
      <4> QED BY <2>1, <3>1, <4>1
    <3>2. CASE j > n
      <4>1. j - 1 \in 1..Len(rest) /\ ~(j - 1 < n) /\ j - 1 + 1 = j
        BY <1>2, <2>1, <3>2
      <4> QED BY <2>1, <4>1
    <3> QED BY <1>2, <2>6, <3>1, <3>2
  <2>7. \A j \in DOMAIN form.lines :
          form.lines[j].name \in removed' \/ \E i \in DOMAIN form'.lines : form'.lines[i] = form.lines[j]
    BY <2>2, <2>3, <2>6
  <2> QED BY <1>1, <2>2, <2>3, <2>4, <2>5, <2>7, FormEditKeeps
<1>7. CASE Form!Rewrite
  <2>1. form' \in Sheet /\ form'.open /\ form'.edits = form.edits /\ form'.lines = form.lines
    BY <1>1, <1>7 DEF Form!Rewrite, Form!Edit, Sheet
  <2> QED BY <1>1, <1>7, <2>1, FormEditKeeps DEF Form!Rewrite
<1> QED BY <1>3, <1>4, <1>5, <1>6, <1>7

\* What is saved is a product.
LEMMA SubmitKeeps ==
  ASSUME Form!FormAssumption, FormInv, Form!handleProductSubmit
  PROVE  FormInv'
<1> DEFINE images == Form!parseProductImageInput(form)
<1>1. form \in Sheet
  BY DEF FormInv, Form!TypeOK, Sheet
<1>2. /\ images = [k \in DOMAIN images |-> images[k]]
      /\ \A k \in DOMAIN images : k \in Form!Color /\ images[k] \in Form!Supported
  BY <1>1, SavedIs DEF Form!handleProductSubmit
<1>3. images \in UNION {[names -> Form!Supported \union {Broken, NotText}] : names \in SUBSET Form!Color}
  <2> HIDE DEF images
  <2> QED BY <1>2, PictureMap
<1>4. row' = [colors |-> form.colors, images |-> images, price |-> form.price]
  BY DEF Form!handleProductSubmit, Form!buildProductPayload
<1> HIDE DEF images
<1>5. form.colors \in Seq(Form!Color \union {Null}) /\ form.price \in Int
  BY <1>1 DEF Sheet
<1>6. row' \in Form!Stored
  BY <1>3, <1>4, <1>5 DEF Form!Stored, Form!Products
<1>7. form' \in Sheet /\ ~form'.open /\ form' = Form!ClosedForm
  BY ClosedIsASheet DEF Form!handleProductSubmit
<1> QED BY <1>6, <1>7 DEF FormInv, Form!TypeOK, LinesInv, Sheet, Form!handleProductSubmit

LEMMA FormUpdateKeeps ==
  ASSUME Form!FormAssumption, FormInv, NEW changed \in Form!Changes, Form!updateProduct(changed)
  PROVE  FormInv'
<1>1. /\ row.price \in Int /\ row.colors \in Seq(Form!Color \union {Null})
      /\ row.images \in UNION {[names -> Form!Supported \union {Broken, NotText}] : names \in SUBSET Form!Color}
      /\ row = [price |-> row.price, colors |-> row.colors, images |-> row.images]
  BY DEF FormInv, Form!TypeOK, Form!Stored, Form!Products
<1>2. changed.colors \in Seq(Form!Color \union {Null})
  <2>1. changed.colors \in Form!BoundedSeq(Form!Color, 2)
    BY DEF Form!Changes, Form!Colors
  <2>2. changed.colors \in Seq(Form!Color)
    BY <2>1, BoundedIsSequence
  <2> QED BY <2>2
<1>3. changed.images \in UNION {[names -> Form!Supported \union {Broken, NotText}] : names \in SUBSET Form!Color}
  <2>1. changed.images \in UNION {[names -> {Odd}] : names \in SUBSET Plain}
    BY DEF Form!Changes
  <2>2. PICK names \in SUBSET Plain : changed.images \in [names -> {Odd}]
    BY <2>1
  <2>3. changed.images \in [names -> Form!Supported \union {Broken, NotText}] /\ names \in SUBSET Form!Color
    BY <2>2, FormConstants
  <2> QED BY <2>3
<1>4. row' \in Form!Stored
  BY <1>1, <1>2, <1>3 DEF Form!updateProduct, Form!Stored, Form!Products
<1>5. edits' \in 0..FormEdits
  BY FormConstants DEF FormInv, Form!TypeOK, Form!updateProduct
<1>6. UNCHANGED <<form, opened, added, removed>>
  BY DEF Form!updateProduct
<1> QED BY <1>4, <1>5, <1>6 DEF FormInv, Form!TypeOK, LinesInv, Form!touched

LEMMA FormInvKept ==
  ASSUME Form!FormAssumption, FormInv, [Form!Next]_(Form!vars)
  PROVE  FormInv'
<1>1. CASE Form!CloseSheet
  BY <1>1, ClosedIsASheet DEF Form!CloseSheet, FormInv, Form!TypeOK, LinesInv, Sheet
<1>2. CASE UNCHANGED Form!vars
  BY <1>2 DEF Form!vars, FormInv, Form!TypeOK, LinesInv, Form!touched
<1> QED BY <1>1, <1>2, openCreateKeeps, openEditKeeps, EditsKeep, SubmitKeeps, FormUpdateKeeps DEF Form!Next

\* What is saved of an edited product.
LEMMA PicturesKept ==
  ASSUME Form!FormAssumption, FormInv
  PROVE  Form!PicturesStay /\ Form!PicturesKeepTheirColor
<1> SUFFICES ASSUME Form!handleProductSubmit
             PROVE  Form!PicturesStay /\ Form!PicturesKeepTheirColor
  BY DEF Form!PicturesStay, Form!PicturesKeepTheirColor
<1> DEFINE images == Form!parseProductImageInput(form)
<1>1. form \in Sheet /\ form.open
  BY DEF FormInv, Form!TypeOK, Sheet, Form!handleProductSubmit
<1>2. /\ \A k \in DOMAIN images : k \in Form!Color
      /\ \A k \in DOMAIN images :
           \/ \E i \in DOMAIN form.lines :
                form.lines[i].name = k /\ form.lines[i].to = images[k]
           \/ \E i \in DOMAIN form.lines :
                form.lines[i].name = Form!NoName /\ form.lines[i].to = images[k]
           \/ images[k] = Odd
      /\ form.json \/ Form!References(form.lines) = <<>> =>
           /\ \A i \in DOMAIN form.lines : form.lines[i].name \in DOMAIN images
           /\ \A k \in DOMAIN images : \E i \in DOMAIN form.lines :
                form.lines[i].name = k /\ form.lines[i].to = images[k]
  BY <1>1, SavedIs DEF Form!handleProductSubmit
<1>3. row'.images = images
  BY DEF Form!handleProductSubmit, Form!buildProductPayload
<1> HIDE DEF images
<1>4. \A i \in DOMAIN form.lines :
        \/ form.lines[i] \in added
        \/ /\ form.edits /\ form.lines[i].name \in DOMAIN opened.images
           /\ form.lines[i].to = opened.images[form.lines[i].name]
  BY <1>1 DEF FormInv, LinesInv
<1>5. DOMAIN opened.images \subseteq Form!Color
  <2>1. opened.images \in FormPictures
    BY DEF FormInv, Form!TypeOK, Form!Record, Form!Products, FormPictures
  <2> QED BY <2>1, PicturesOf DEF FormPictures
<1>6. Form!PicturesStay
  <2>1. ASSUME form.edits, form.json \/ Form!References(form.lines) = <<>>,
               NEW k \in (DOMAIN opened.images) \ Form!touched
        PROVE  k \in DOMAIN images /\ images[k] = opened.images[k]
    <3>1. PICK i \in DOMAIN form.lines : form.lines[i].name = k
      BY <1>1, <2>1 DEF FormInv, LinesInv
    <3>2. k \in DOMAIN images
      BY <1>2, <2>1, <3>1
    <3>3. PICK j \in DOMAIN form.lines : form.lines[j].name = k /\ form.lines[j].to = images[k]
      BY <1>2, <2>1, <3>2
    <3>4. form.lines[j] \notin added
      BY <3>3 DEF Form!touched
    <3> QED BY <1>4, <3>2, <3>3, <3>4
  <2> QED BY <1>3, <2>1 DEF Form!PicturesStay
<1>7. Form!PicturesKeepTheirColor
  <2>1. ASSUME NEW k \in DOMAIN images
        PROVE  \/ form.edits /\ k \in DOMAIN opened.images /\ opened.images[k] = images[k]
               \/ \E l \in added : l.name \in {k, Form!NoName} /\ l.to = images[k]
               \/ images[k] = Odd
    <3>1. CASE \E i \in DOMAIN form.lines : form.lines[i].name = k /\ form.lines[i].to = images[k]
      BY <1>4, <3>1
    <3>2. ASSUME NEW i \in DOMAIN form.lines,
                 form.lines[i].name = Form!NoName, form.lines[i].to = images[k]
          PROVE  form.lines[i] \in added
      BY <1>4, <1>5, <3>2, FormConstants
    <3> QED BY <1>2, <3>1, <3>2
  <2> QED BY <1>3, <2>1 DEF Form!PicturesKeepTheirColor
<1> QED BY <1>6, <1>7

LEMMA FormInvariance ==
  ASSUME Form!FormAssumption
  PROVE  Form!Spec => []FormInv
<1>1. Form!Init => FormInv
  BY InitFormInv
<1>2. FormInv /\ [Form!Next]_(Form!vars) => FormInv'
  BY FormInvKept
<1> QED BY <1>1, <1>2, PTL DEF Form!Spec

\* Saving an edited product leaves a color whose own line was not edited its
\* picture, whatever else was edited (CatalogManager.tsx, product-form.ts).
THEOREM UntouchedPicturesStay ==
  ASSUME Form!FormAssumption
  PROVE  Form!Spec => [][Form!PicturesStay]_(Form!vars)
<1>1. FormInv => Form!PicturesStay
  BY PicturesKept
<1> QED BY <1>1, FormInvariance, PTL

\* No picture moves from one color to another, but the address that the line of a
\* color like a path is read as.
THEOREM PicturesDoNotMove ==
  ASSUME Form!FormAssumption
  PROVE  Form!Spec => [][Form!PicturesKeepTheirColor]_(Form!vars)
<1>1. FormInv => Form!PicturesKeepTheirColor
  BY PicturesKept
<1> QED BY <1>1, FormInvariance, PTL

-----------------------------------------------------------------------------
(* AdminReports *)

ActivityRow == [of : Purchases, status : {"paid", "pending"}]

\* Checkouts with a session that are newer than the n-th.
NewerThan(n) == {i \in DOMAIN made : made[i] \in opened /\ i > n}

\* A page tells of no payment that is not stored, and the directory has the row of
\* each that was stored before, but for those a window of newer ones pushed out.
ShownInv ==
  /\ \A i \in DOMAIN orderList : orderList[i] \in paid
  /\ \A i \in DOMAIN activities : activities[i].status = "paid" => activities[i].of \in paid
  /\ page = "users" /\ got["activities"] = "read" =>
       \A n \in DOMAIN made :
         made[n] \in known /\ Cardinality(NewerThan(n)) < ActivityWindow =>
           \E i \in DOMAIN activities :
             activities[i].of = made[n] /\ activities[i].status = "paid"

ReportsInv ==
  /\ Reports!TypeOK
  /\ \A i \in DOMAIN made, j \in DOMAIN made : made[i] = made[j] => i = j
  /\ ShownInv

LEMMA ReportsCardinality ==
  \A S : Reports!Cardinality(S) = Cardinality(S)
BY DEF Reports!Cardinality, Cardinality

LEMMA ReportsConstants ==
  ASSUME Reports!ReportsAssumption
  PROVE  /\ UserOf \in [Purchases -> Users]
         /\ ActivityWindow \in Nat \ {0} /\ OrderWindow \in Nat \ {0}
         /\ FeedEvents \in Nat \ {0} /\ ListLimit \in Nat \ {0}
BY DEF Reports!ReportsAssumption

\* The beginning of a sequence.
LEMMA FirstOf ==
  ASSUME NEW T, NEW seq \in Seq(T), NEW n \in Nat
  PROVE  /\ Reports!First(seq, n) \in Seq(T)
         /\ Len(Reports!First(seq, n)) <= n
         /\ Len(Reports!First(seq, n)) = IF Len(seq) < n THEN Len(seq) ELSE n
         /\ \A i \in 1..Len(Reports!First(seq, n)) : Reports!First(seq, n)[i] = seq[i]
<1> DEFINE m == IF Len(seq) < n THEN Len(seq) ELSE n
<1>1. m \in Nat /\ m <= Len(seq) /\ m <= n /\ Len(seq) \in Nat
  OBVIOUS
<1>2. Reports!First(seq, n) = SubSeq(seq, 1, m)
  BY DEF Reports!First
<1> HIDE DEF m
<1>3. SubSeq(seq, 1, m) \in Seq(T) /\ Len(SubSeq(seq, 1, m)) = m
  BY <1>1
<1>4. \A i \in 1..m : SubSeq(seq, 1, m)[i] = seq[i]
  BY <1>1
<1> QED BY <1>1, <1>2, <1>3, <1>4 DEF m

LEMMA AppendedIs ==
  ASSUME NEW T, NEW seq \in Seq(T), NEW x \in T
  PROVE  /\ Append(seq, x) \in Seq(T) /\ Len(seq) \in Nat
         /\ DOMAIN Append(seq, x) = 1..(Len(seq) + 1) /\ DOMAIN seq = 1..Len(seq)
         /\ \A i \in DOMAIN seq : i \in DOMAIN Append(seq, x) /\ Append(seq, x)[i] = seq[i]
         /\ Append(seq, x)[Len(seq) + 1] = x
         /\ \A i \in DOMAIN Append(seq, x) : i \in DOMAIN seq \/ i = Len(seq) + 1
<1>1. Append(seq, x) \in Seq(T) /\ Len(seq) \in Nat /\ Len(Append(seq, x)) = Len(seq) + 1
  OBVIOUS
<1>2. DOMAIN Append(seq, x) = 1..(Len(seq) + 1) /\ DOMAIN seq = 1..Len(seq)
  BY <1>1
<1>3. \A i \in 1..Len(seq) : i \in 1..(Len(seq) + 1) /\ Append(seq, x)[i] = seq[i]
  BY <1>1
<1>4. Append(seq, x)[Len(seq) + 1] = x
  BY <1>1
<1>5. \A i \in 1..(Len(seq) + 1) : i \in 1..Len(seq) \/ i = Len(seq) + 1
  BY <1>1
<1> QED BY <1>1, <1>2, <1>3, <1>4, <1>5

LEMMA ReversedIs ==
  ASSUME NEW T, NEW seq \in Seq(T)
  PROVE  /\ Reports!Reverse(seq) \in Seq(T) /\ Len(Reports!Reverse(seq)) = Len(seq)
         /\ \A i \in 1..Len(seq) : Reports!Reverse(seq)[i] = seq[Len(seq) - i + 1]
<1>1. Len(seq) \in Nat /\ \A i \in 1..Len(seq) : Len(seq) - i + 1 \in 1..Len(seq)
  OBVIOUS
<1>2. Reports!Reverse(seq) = [i \in 1..Len(seq) |-> seq[Len(seq) - i + 1]]
  BY DEF Reports!Reverse
<1> QED BY <1>1, <1>2

\* What is recorded keeps to the capacity of the feed.
LEMMA RecordsKeep ==
  ASSUME Reports!ReportsAssumption, feed \in Seq(Reports!Events),
         NEW types \in Seq(Reports!Types), Reports!Record(types)
  PROVE  feed' \in Seq(Reports!Events) /\ Len(feed') <= FeedEvents
<1> DEFINE told == [i \in DOMAIN types |-> Reports!Event(types[i])]
<1>1. FeedEvents \in Nat
  BY ReportsConstants
<1>2. told \in Seq(Reports!Events)
  <2>1. \A t \in Reports!Types : Reports!Event(t) \in Reports!Events
    BY DEF Reports!Event, Reports!Events
  <2>2. \A i \in DOMAIN types : types[i] \in Reports!Types
    OBVIOUS
  <2>3. \A i \in DOMAIN types : Reports!Event(types[i]) \in Reports!Events
    BY <2>1, <2>2
  <2>4. Len(types) \in Nat /\ DOMAIN types = 1..Len(types)
    OBVIOUS
  <2> QED BY <2>3, <2>4
<1> HIDE DEF told
<1>3. told \o feed \in Seq(Reports!Events)
  BY <1>2
<1>4. feed' = Reports!First(told \o feed, FeedEvents)
  BY DEF Reports!Record, told
<1> QED BY ONLY <1>1, <1>3, <1>4, FirstOf

LEMMA InitReportsInv ==
  ASSUME Reports!ReportsAssumption, Reports!Init
  PROVE  ReportsInv
<1> USE DEF Reports!Init
<1>1. ActivityWindow \in Nat /\ OrderWindow \in Nat /\ FeedEvents \in Nat /\ ListLimit \in Nat
  BY ReportsConstants
<1>2. /\ made \in Seq(Purchases) /\ orders \in Seq(published) /\ feed \in Seq(Reports!Events)
      /\ activities \in Seq(ActivityRow) /\ orderList \in Seq(Purchases)
      /\ recentEvents \in Seq(Reports!Events)
      /\ Len(feed) = 0 /\ Len(activities) = 0 /\ Len(orderList) = 0 /\ Len(recentEvents) = 0
      /\ DOMAIN activities = {} /\ DOMAIN orderList = {} /\ DOMAIN made = {} /\ DOMAIN orders = {}
  OBVIOUS
<1>3. got \in [Reports!Lists -> {"unread", "read", "failed"}]
  BY DEF Reports!Nothing
<1>4. Reports!IsInjective(orders)
  BY <1>2 DEF Reports!IsInjective
<1>5. Reports!TypeOK
  <2>1. Reports!ToSet(made) = {}
    BY <1>2 DEF Reports!ToSet
  <2>2. page \in Pages \cup {"none"} /\ arrived \in BOOLEAN /\ known = {} /\ published = {}
    OBVIOUS
  <2> QED BY <1>1, <1>2, <1>3, <1>4, <2>1, <2>2 DEF Reports!TypeOK, ActivityRow
<1>6. ShownInv
  BY <1>2 DEF ShownInv
<1> QED BY <1>2, <1>5, <1>6 DEF ReportsInv

\* The order and payment services' steps show nothing, and what they add to the
\* stored checkouts is newer.
LEMMA ServicesShowNothing ==
  ASSUME Reports!ReportsAssumption, ReportsInv, Reports!TypeOK',
         UNCHANGED <<page, got, activities, orderList, recentEvents, known>>,
         paid \subseteq paid', opened \subseteq opened',
         \/ UNCHANGED made
         \/ \E p \in Purchases \ Reports!ToSet(made) : made' = Append(made, p)
  PROVE  ReportsInv'
<1>1. /\ made \in Seq(Purchases) /\ made' \in Seq(Purchases) /\ Len(made) \in Nat
      /\ DOMAIN made = 1..Len(made) /\ known \subseteq Reports!ToSet(made)
      /\ DOMAIN made' = 1..Len(made') /\ Len(made') \in Nat
  BY DEF ReportsInv, Reports!TypeOK
<1>2. /\ \A i \in DOMAIN made : i \in DOMAIN made' /\ made'[i] = made[i]
      /\ \A i \in DOMAIN made' : i \in DOMAIN made \/ made'[i] \notin Reports!ToSet(made)
      /\ \A i \in DOMAIN made', j \in DOMAIN made' : made'[i] = made'[j] => i = j
  <2>1. CASE UNCHANGED made
    BY <2>1 DEF ReportsInv
  <2>2. ASSUME NEW p \in Purchases \ Reports!ToSet(made), made' = Append(made, p)
        PROVE  /\ \A i \in DOMAIN made : i \in DOMAIN made' /\ made'[i] = made[i]
               /\ \A i \in DOMAIN made' : i \in DOMAIN made \/ made'[i] \notin Reports!ToSet(made)
               /\ \A i \in DOMAIN made', j \in DOMAIN made' : made'[i] = made'[j] => i = j
    <3>1. /\ \A i \in DOMAIN made : i \in DOMAIN made' /\ made'[i] = made[i]
          /\ made'[Len(made) + 1] = p
          /\ \A i \in DOMAIN made' : i \in DOMAIN made \/ i = Len(made) + 1
      <4>1. made \in Seq(Purchases) /\ p \in Purchases
        BY <1>1
      <4> QED BY ONLY <2>2, <4>1, AppendedIs
    <3>2. \A i \in DOMAIN made : made[i] # p
      BY DEF Reports!ToSet
    <3>3. \A i \in DOMAIN made, j \in DOMAIN made : made[i] = made[j] => i = j
      BY DEF ReportsInv
    <3> QED BY <3>1, <3>2, <3>3
  <2> QED BY <2>1, <2>2
<1>4. ASSUME NEW n \in DOMAIN made', made'[n] \in known, Cardinality(NewerThan(n)') < ActivityWindow
      PROVE  n \in DOMAIN made /\ made'[n] = made[n] /\ Cardinality(NewerThan(n)) < ActivityWindow
  <2>1. n \in DOMAIN made /\ made'[n] = made[n]
    BY <1>1, <1>2, <1>4
  <2>2. NewerThan(n) \in SUBSET (NewerThan(n)')
    BY <1>2 DEF NewerThan
  <2>3. NewerThan(n)' \in SUBSET (1..Len(made')) /\ Len(made') \in Nat
    BY <1>1 DEF NewerThan
  <2>4. PICK more : more = NewerThan(n)'
    OBVIOUS
  <2>5. PICK before : before = NewerThan(n)
    OBVIOUS
  <2>6. IsFiniteSet(more) /\ Cardinality(more) \in Nat
    BY <2>3, <2>4, IndicesFinite
  <2>7. Cardinality(before) <= Cardinality(more) /\ IsFiniteSet(before)
    BY <2>2, <2>4, <2>5, <2>6, FS_Subset
  <2>8. Cardinality(before) \in Nat /\ ActivityWindow \in Nat
    BY <2>7, FS_CardinalityType, ReportsConstants
  <2> QED BY <1>4, <2>1, <2>4, <2>5, <2>6, <2>7, <2>8
<1>5. ShownInv'
  <2>1. /\ \A i \in DOMAIN orderList' : orderList'[i] \in paid'
        /\ \A i \in DOMAIN activities' : activities'[i].status = "paid" => activities'[i].of \in paid'
    BY DEF ReportsInv, ShownInv
  <2>2. ASSUME page' = "users", got'["activities"] = "read", NEW n \in DOMAIN made',
               made'[n] \in known', Cardinality(NewerThan(n)') < ActivityWindow
        PROVE  \E i \in DOMAIN activities' :
                 activities'[i].of = made'[n] /\ activities'[i].status = "paid"
    BY <1>4, <2>2 DEF ReportsInv, ShownInv
  <2> QED BY <2>1, <2>2 DEF ShownInv
<1> QED BY <1>2, <1>5 DEF ReportsInv

LEMMA CheckoutsKeep ==
  ASSUME Reports!ReportsAssumption, ReportsInv, NEW p \in Purchases,
         \/ Reports!Claim(p) \/ Reports!StorePayment(p) \/ Reports!PublishPayment(p)
         \/ Reports!ProjectOrder(p)
  PROVE  ReportsInv'
<1>1. Reports!TypeOK
  BY DEF ReportsInv
<1>2. CASE Reports!Claim(p)
  <2>0. /\ UNCHANGED <<opened, enqueued, paid, published, orders, feed, arrived, page, got,
                       activities, orderList, recentEvents, known>>
        /\ p \in Purchases \ Reports!ToSet(made) /\ made' = Append(made, p)
    BY <1>2 DEF Reports!Claim, Reports!reads
  <2>1. /\ made' \in Seq(Purchases)
        /\ \A i \in DOMAIN made : i \in DOMAIN made' /\ made'[i] = made[i]
    <3>1. made \in Seq(Purchases) /\ made' = Append(made, p)
      BY <1>1, <2>0 DEF Reports!TypeOK
    <3> QED BY ONLY <3>1, p \in Purchases, AppendedIs
  <2>2. Reports!ToSet(made) \subseteq Reports!ToSet(made')
    BY <2>1 DEF Reports!ToSet
  <2>3. Reports!TypeOK'
    BY <1>1, <2>0, <2>1, <2>2 DEF Reports!TypeOK, Reports!IsInjective
  <2> QED BY <2>0, <2>3, ServicesShowNothing
<1>3. CASE Reports!StorePayment(p)
  <2>1. /\ UNCHANGED <<made, opened, enqueued, published, orders, feed, arrived, page, got,
                       activities, orderList, recentEvents, known>>
        /\ p \in enqueued /\ paid' = paid \cup {p}
    BY <1>3 DEF Reports!StorePayment, Reports!reads
  <2>2. Reports!TypeOK'
    BY <1>1, <2>1 DEF Reports!TypeOK, Reports!IsInjective
  <2> QED BY <2>1, <2>2, ServicesShowNothing
<1>4. CASE Reports!PublishPayment(p)
  <2>0. /\ UNCHANGED <<made, opened, enqueued, paid, orders, feed, page, got,
                       activities, orderList, recentEvents, known>>
        /\ p \in paid /\ published' = published \cup {p} /\ arrived' = TRUE
    BY <1>4 DEF Reports!PublishPayment, Reports!reads
  <2>1. orders \in Seq(published') /\ published' \subseteq paid
    <3>1. published \subseteq published' /\ orders \in Seq(published) /\ published' \subseteq paid
      BY <1>1, <2>0 DEF Reports!TypeOK
    <3> QED BY ONLY <3>1
  <2>2. Reports!TypeOK'
    BY <1>1, <2>0, <2>1 DEF Reports!TypeOK, Reports!IsInjective
  <2> QED BY <2>0, <2>2, ServicesShowNothing
<1>5. CASE Reports!ProjectOrder(p)
  <2>0. /\ UNCHANGED <<made, opened, enqueued, paid, published, feed, arrived, page, got,
                       activities, orderList, recentEvents, known>>
        /\ p \in published \ Reports!ToSet(orders) /\ orders' = Append(orders, p)
    BY <1>5 DEF Reports!ProjectOrder, Reports!reads
  <2>1. /\ orders' \in Seq(published)
        /\ \A i \in DOMAIN orders : orders'[i] = orders[i] /\ orders[i] # p
        /\ orders'[Len(orders) + 1] = p
        /\ \A i \in DOMAIN orders' : i \in DOMAIN orders \/ i = Len(orders) + 1
    <3>1. orders \in Seq(published) /\ p \in published /\ orders' = Append(orders, p)
      BY <1>1, <2>0 DEF Reports!TypeOK
    <3>2. \A i \in DOMAIN orders : orders[i] # p
      BY <2>0 DEF Reports!ToSet
    <3> QED BY ONLY <3>1, <3>2, AppendedIs
  <2>2. \A i \in DOMAIN orders, j \in DOMAIN orders : orders[i] = orders[j] => i = j
    BY <1>1 DEF Reports!TypeOK, Reports!IsInjective
  <2>3. \A i \in DOMAIN orders', j \in DOMAIN orders' : orders'[i] = orders'[j] => i = j
    BY ONLY <2>1, <2>2
  <2>4. Reports!TypeOK'
    BY <1>1, <2>0, <2>1, <2>3 DEF Reports!TypeOK, Reports!IsInjective
  <2> QED BY <2>0, <2>4, ServicesShowNothing
<1> QED BY <1>2, <1>3, <1>4, <1>5

\* Steps that are recorded in the feed, and the restart that empties it.
LEMMA SessionsKeep ==
  ASSUME Reports!ReportsAssumption, ReportsInv,
         \/ \E p \in Purchases :
              Reports!SessionCreated(p) \/ Reports!WebhookVerified(p) \/ Reports!StatusLoaded(p)
         \/ Reports!Restart
  PROVE  ReportsInv'
<1>1. Reports!TypeOK /\ feed \in Seq(Reports!Events)
  BY DEF ReportsInv, Reports!TypeOK
<1>2. ASSUME UNCHANGED <<made, paid, published, orders, page, got,
                         activities, orderList, recentEvents, known>>,
             opened \subseteq opened', opened' \subseteq Reports!ToSet(made),
             enqueued \subseteq enqueued', enqueued' \subseteq opened', arrived' \in BOOLEAN,
             feed' \in Seq(Reports!Events), Len(feed') <= FeedEvents
      PROVE  ReportsInv'
  <2>1. Reports!TypeOK'
    BY <1>1, <1>2 DEF Reports!TypeOK, Reports!IsInjective
  <2> QED BY <1>2, <2>1, ServicesShowNothing
<1>3. ASSUME NEW p \in Purchases, Reports!SessionCreated(p)
      PROVE  ReportsInv'
  <2>1. /\ UNCHANGED <<made, enqueued, paid, published, orders, arrived, page, got,
                       activities, orderList, recentEvents, known>>
        /\ p \in Reports!ToSet(made) /\ opened' = opened \cup {p}
        /\ Reports!Record(<<"checkout.session.created">>)
    BY <1>3 DEF Reports!SessionCreated, Reports!reads
  <2>2. <<"checkout.session.created">> \in Seq(Reports!Types)
    BY DEF Reports!Types
  <2>3. feed' \in Seq(Reports!Events) /\ Len(feed') <= FeedEvents
    BY ONLY <1>1, <2>1, <2>2, RecordsKeep, Reports!ReportsAssumption
  <2>4. opened' \subseteq Reports!ToSet(made) /\ enqueued' \subseteq opened' /\ arrived' \in BOOLEAN
    BY <1>1, <2>1 DEF Reports!TypeOK
  <2> QED BY <1>2, <2>1, <2>3, <2>4
<1>4. ASSUME NEW p \in Purchases, Reports!WebhookVerified(p)
      PROVE  ReportsInv'
  <2>1. /\ UNCHANGED <<made, opened, paid, published, orders, arrived, page, got,
                       activities, orderList, recentEvents, known>>
        /\ p \in opened /\ enqueued' = enqueued \cup {p}
        /\ Reports!Record(<<"stripe.webhook.verified">>)
    BY <1>4 DEF Reports!WebhookVerified, Reports!reads
  <2>2. <<"stripe.webhook.verified">> \in Seq(Reports!Types)
    BY DEF Reports!Types
  <2>3. feed' \in Seq(Reports!Events) /\ Len(feed') <= FeedEvents
    BY ONLY <1>1, <2>1, <2>2, RecordsKeep, Reports!ReportsAssumption
  <2>4. opened' \subseteq Reports!ToSet(made) /\ enqueued' \subseteq opened' /\ arrived' \in BOOLEAN
    BY <1>1, <2>1 DEF Reports!TypeOK
  <2> QED BY <1>2, <2>1, <2>3, <2>4
<1>5. ASSUME NEW p \in Purchases, Reports!StatusLoaded(p)
      PROVE  ReportsInv'
  <2>1. /\ UNCHANGED <<made, opened, paid, published, orders, arrived, page, got,
                       activities, orderList, recentEvents, known>>
        /\ p \in opened /\ enqueued' \in {enqueued, enqueued \cup {p}}
        /\ \/ Reports!Record(<<"checkout.session.status.loaded">>)
           \/ Reports!Record(<<"stripe.checkout.completed.fallback_failed",
                               "checkout.session.status.loaded">>)
    BY <1>5 DEF Reports!StatusLoaded, Reports!reads
  <2>2. /\ <<"checkout.session.status.loaded">> \in Seq(Reports!Types)
        /\ <<"stripe.checkout.completed.fallback_failed", "checkout.session.status.loaded">>
             \in Seq(Reports!Types)
    BY DEF Reports!Types
  <2>3. feed' \in Seq(Reports!Events) /\ Len(feed') <= FeedEvents
    BY ONLY <1>1, <2>1, <2>2, RecordsKeep, Reports!ReportsAssumption
  <2>4. opened' \subseteq Reports!ToSet(made) /\ enqueued' \subseteq opened' /\ arrived' \in BOOLEAN
    BY <1>1, <2>1 DEF Reports!TypeOK
  <2> QED BY <1>2, <2>1, <2>3, <2>4
<1>6. CASE Reports!Restart
  <2>1. /\ UNCHANGED <<made, opened, enqueued, paid, published, orders, page, got,
                       activities, orderList, recentEvents, known>>
        /\ feed' = <<>> /\ arrived' = FALSE
    BY <1>6 DEF Reports!Restart, Reports!money, Reports!reads
  <2>2. feed' \in Seq(Reports!Events) /\ Len(feed') <= FeedEvents
    <3>1. FeedEvents \in Nat
      BY ReportsConstants
    <3> QED BY <2>1, <3>1
  <2>3. opened' \subseteq Reports!ToSet(made) /\ enqueued' \subseteq opened' /\ arrived' \in BOOLEAN
    BY <1>1, <2>1 DEF Reports!TypeOK
  <2> QED BY <1>2, <2>1, <2>2, <2>3
<1> QED BY <1>3, <1>4, <1>5, <1>6

\* The newest checkouts with a session, with fewer newer ones than an answer holds.
LEMMA LatestHas ==
  ASSUME Reports!ReportsAssumption, ReportsInv
  PROVE  /\ Reports!Latest \in Seq(Purchases) /\ Len(Reports!Latest) <= ActivityWindow
         /\ \A n \in DOMAIN made :
              made[n] \in opened /\ Cardinality(NewerThan(n)) < ActivityWindow =>
                \E i \in DOMAIN Reports!Latest : Reports!Latest[i] = made[n]
<1> DEFINE I == {i \in DOMAIN made : made[i] \in opened}
           picked == Reports!Picked(made, I)
           many == Cardinality(I)
<1>1. /\ made \in Seq(Purchases) /\ Len(made) \in Nat /\ DOMAIN made = 1..Len(made)
      /\ ActivityWindow \in Nat
  BY ReportsConstants DEF ReportsInv, Reports!TypeOK
<1>2. I \in SUBSET (1..Len(made))
  BY <1>1
<1>3. I \in SUBSET Nat /\ IsFiniteSet(I) /\ many \in Nat
  BY <1>1, <1>2, IndicesFinite
<1>4. picked = [n \in 1..many |-> made[NthOf(I, n)]]
  BY Zenon DEF Reports!Picked, NthOf, RankIn, Reports!Cardinality, Cardinality
<1>5. \A i \in I : i \in DOMAIN made /\ made[i] \in Purchases
  BY <1>1
<1> HIDE DEF I, picked, many
<1>6. \A n \in 1..many : NthOf(I, n) \in I
  BY <1>3, RankOnto DEF many
<1>7. picked \in Seq(Purchases) /\ Len(picked) = many
  <2>1. picked \in [1..many -> Purchases]
    BY <1>4, <1>5, <1>6
  <2> QED BY <1>3, <2>1
<1> DEFINE back == Reports!Reverse(picked)
<1>8. /\ back \in Seq(Purchases) /\ Len(back) = many
      /\ \A i \in 1..many : back[i] = picked[many - i + 1]
  <2>1. /\ Reports!Reverse(picked) \in Seq(Purchases) /\ Len(Reports!Reverse(picked)) = Len(picked)
        /\ \A i \in 1..Len(picked) : Reports!Reverse(picked)[i] = picked[Len(picked) - i + 1]
    BY ONLY <1>7, ReversedIs
  <2> QED BY ONLY <2>1, <1>7 DEF back
<1>9. Reports!Latest = Reports!First(back, ActivityWindow)
  BY DEF Reports!Latest, back, picked, I
<1> HIDE DEF back
<1>10. /\ Reports!Latest \in Seq(Purchases)
       /\ Len(Reports!Latest) = IF many < ActivityWindow THEN many ELSE ActivityWindow
       /\ \A i \in 1..Len(Reports!Latest) : Reports!Latest[i] = back[i]
  <2>1. /\ Reports!First(back, ActivityWindow) \in Seq(Purchases)
        /\ Len(Reports!First(back, ActivityWindow)) =
             IF Len(back) < ActivityWindow THEN Len(back) ELSE ActivityWindow
        /\ \A i \in 1..Len(Reports!First(back, ActivityWindow)) :
             Reports!First(back, ActivityWindow)[i] = back[i]
    BY ONLY <1>1, <1>8, FirstOf
  <2> QED BY ONLY <2>1, <1>8, <1>9
<1>11. ASSUME NEW n \in DOMAIN made, made[n] \in opened, Cardinality(NewerThan(n)) < ActivityWindow
       PROVE  \E i \in DOMAIN Reports!Latest : Reports!Latest[i] = made[n]
  <2>1. n \in I /\ n \in Nat
    BY <1>1, <1>11 DEF I
  <2> DEFINE rank == RankIn(I, n)
             low == {j \in I : j <= n}
  <2>2. rank \in 1..many /\ rank = Cardinality(low) /\ IsFiniteSet(low)
    BY <1>3, <2>1, RankType DEF RankIn, many
  <2>3. NewerThan(n) = I \ low
    BY <1>1, <2>1 DEF NewerThan, I
  <2>4. I \cap low = low
    OBVIOUS
  <2>5. Cardinality(I \ low) = Cardinality(I) - Cardinality(I \cap low)
    BY <1>3, FS_Difference
  <2>6. NthOf(I, rank) = n
    BY <1>3, <2>1, NthOfRank
  <2> HIDE DEF rank, low
  <2>7. Cardinality(NewerThan(n)) = many - rank
    BY <2>2, <2>3, <2>4, <2>5 DEF many
  <2> DEFINE i == many - rank + 1
  <2>8. i \in Nat /\ 1 <= i /\ i <= many /\ i <= ActivityWindow /\ many - i + 1 = rank
    BY ONLY <1>1, <1>3, <1>11, <2>2, <2>7
  <2>9. i \in 1..Len(Reports!Latest)
    BY ONLY <1>1, <1>3, <1>10, <2>8
  <2>10. back[i] = picked[rank]
    BY <1>8, <2>8
  <2>11. picked[rank] = made[n]
    BY <1>4, <2>2, <2>6
  <2> HIDE DEF i
  <2> QED BY <1>10, <2>9, <2>10, <2>11
<1>12. Len(Reports!Latest) <= ActivityWindow
  BY ONLY <1>1, <1>3, <1>10
<1> QED BY <1>10, <1>11, <1>12

\* The rows of an answer: every payment stored so far, but for those that a window
\* of newer checkouts has pushed out.
LEMMA ActivitiesKeep ==
  ASSUME Reports!ReportsAssumption, ReportsInv, Reports!ReadActivities
  PROVE  ReportsInv'
<1> DEFINE latest == Reports!Latest
<1>1. /\ latest \in Seq(Purchases) /\ Len(latest) <= ActivityWindow
      /\ \A n \in DOMAIN made :
           made[n] \in opened /\ Cardinality(NewerThan(n)) < ActivityWindow =>
             \E i \in DOMAIN latest : latest[i] = made[n]
  BY LatestHas
<1>2. activities' = [i \in DOMAIN latest |->
        [of |-> latest[i], status |-> IF latest[i] \in paid THEN "paid" ELSE "pending"]]
  BY DEF Reports!ReadActivities
<1> HIDE DEF latest
<1>3. /\ \A i \in DOMAIN activities' :
           activities'[i].of = latest[i] /\ (activities'[i].status = "paid" <=> latest[i] \in paid)
      /\ DOMAIN activities' = DOMAIN latest
  BY <1>2
<1>4. activities' \in Seq(ActivityRow) /\ Len(activities') = Len(latest)
  <2>1. \A i \in DOMAIN latest :
          [of |-> latest[i], status |-> IF latest[i] \in paid THEN "paid" ELSE "pending"] \in ActivityRow
    BY <1>1 DEF ActivityRow
  <2>2. Len(latest) \in Nat /\ DOMAIN latest = 1..Len(latest)
    BY <1>1
  <2>3. activities' \in [1..Len(latest) -> ActivityRow]
    BY <1>2, <2>1, <2>2
  <2> QED BY <2>2, <2>3
<1>5. /\ UNCHANGED <<made, opened, enqueued, paid, published, orders, feed, arrived, page,
                     orderList, recentEvents, known>>
      /\ got' = [got EXCEPT !["activities"] = "read"]
  BY DEF Reports!ReadActivities, Reports!Answered, Reports!money
<1>6. got' \in [Reports!Lists -> {"unread", "read", "failed"}]
  BY <1>5 DEF ReportsInv, Reports!TypeOK
<1>7. Reports!TypeOK'
  BY <1>1, <1>4, <1>5, <1>6 DEF ReportsInv, Reports!TypeOK, ActivityRow
<1>8. ShownInv'
  <2>1. /\ \A i \in DOMAIN orderList' : orderList'[i] \in paid'
        /\ \A i \in DOMAIN activities' : activities'[i].status = "paid" => activities'[i].of \in paid'
    BY <1>3, <1>5 DEF ReportsInv, ShownInv
  <2>2. ASSUME NEW n \in DOMAIN made, made[n] \in known, Cardinality(NewerThan(n)) < ActivityWindow
        PROVE  \E i \in DOMAIN activities' :
                 activities'[i].of = made[n] /\ activities'[i].status = "paid"
    <3>1. made[n] \in paid /\ made[n] \in opened
      BY <2>2 DEF ReportsInv, Reports!TypeOK
    <3> QED BY <1>1, <1>3, <2>2, <3>1
  <2>3. \A n : NewerThan(n)' = NewerThan(n)
    BY <1>5 DEF NewerThan
  <2> QED BY <1>5, <2>1, <2>2, <2>3 DEF ShownInv
<1> QED BY <1>5, <1>7, <1>8 DEF ReportsInv

\* The other reads, and a new visit.
LEMMA ReadsKeep ==
  ASSUME Reports!ReportsAssumption, ReportsInv,
         \/ \E g \in Pages : Reports!Visit(g)
         \/ Reports!ReadOrders \/ Reports!ReadEvents
         \/ \E l \in Reports!Lists : Reports!ReadFails(l)
  PROVE  ReportsInv'
<1>1. Reports!TypeOK /\ ShownInv
  BY DEF ReportsInv
<1>2. got \in [Reports!Lists -> {"unread", "read", "failed"}]
  BY <1>1 DEF Reports!TypeOK
<1>3. ASSUME NEW g \in Pages, Reports!Visit(g)
      PROVE  ReportsInv'
  <2>1. /\ page' = g /\ got' = Reports!Nothing /\ known' = paid
        /\ activities' = <<>> /\ orderList' = <<>> /\ recentEvents' = <<>>
        /\ UNCHANGED <<made, opened, enqueued, paid, published, orders, feed, arrived>>
    BY <1>3 DEF Reports!Visit, Reports!money
  <2>2. /\ got' \in [Reports!Lists -> {"unread", "read", "failed"}]
        /\ got'["activities"] # "read"
    BY <2>1 DEF Reports!Nothing, Reports!Lists
  <2>3. /\ activities' \in Seq(ActivityRow) /\ orderList' \in Seq(Purchases)
        /\ recentEvents' \in Seq(Reports!Events)
        /\ Len(activities') <= ActivityWindow /\ Len(orderList') <= OrderWindow
        /\ Len(recentEvents') <= ListLimit
        /\ DOMAIN orderList' = {} /\ DOMAIN activities' = {}
    <3>1. ActivityWindow \in Nat /\ OrderWindow \in Nat /\ ListLimit \in Nat
      BY ReportsConstants
    <3> QED BY ONLY <2>1, <3>1
  <2>4. Reports!TypeOK'
    BY <1>1, <2>1, <2>2, <2>3 DEF Reports!TypeOK, ActivityRow
  <2>5. ShownInv'
    BY <2>2, <2>3 DEF ShownInv
  <2> QED BY <2>1, <2>4, <2>5 DEF ReportsInv
<1>4. CASE Reports!ReadOrders
  <2>1. /\ UNCHANGED <<made, opened, enqueued, paid, published, orders, feed, arrived, page,
                       activities, recentEvents, known>>
        /\ got' = [got EXCEPT !["orders"] = "read"]
        /\ orderList' = Reports!First(Reports!Reverse(orders), OrderWindow)
    BY <1>4 DEF Reports!ReadOrders, Reports!Answered, Reports!money
  <2>2. orders \in Seq(published) /\ OrderWindow \in Nat /\ published \subseteq paid
    BY <1>1, ReportsConstants DEF Reports!TypeOK
  <2>3. Reports!Reverse(orders) \in Seq(published)
    BY ONLY <2>2, ReversedIs
  <2>4. orderList' \in Seq(published) /\ Len(orderList') <= OrderWindow
    BY ONLY <2>1, <2>2, <2>3, FirstOf
  <2>5. paid \subseteq Purchases
    <3>1. paid \subseteq Reports!ToSet(made) /\ made \in Seq(Purchases)
      BY <1>1 DEF Reports!TypeOK
    <3> QED BY <3>1 DEF Reports!ToSet
  <2>6. orderList' \in Seq(Purchases) /\ \A i \in DOMAIN orderList' : orderList'[i] \in paid
    BY ONLY <2>2, <2>4, <2>5
  <2>7. /\ got' \in [Reports!Lists -> {"unread", "read", "failed"}]
        /\ got'["activities"] = got["activities"]
    BY <1>2, <2>1 DEF Reports!Lists
  <2>8. Reports!TypeOK'
    BY <1>1, <2>1, <2>4, <2>6, <2>7 DEF Reports!TypeOK
  <2>9. \A n : NewerThan(n)' = NewerThan(n)
    BY <2>1 DEF NewerThan
  <2>10. ShownInv'
    BY <1>1, <2>1, <2>6, <2>7, <2>9 DEF ShownInv
  <2> QED BY <2>1, <2>8, <2>10 DEF ReportsInv
<1>5. CASE Reports!ReadEvents
  <2>1. /\ UNCHANGED <<made, opened, enqueued, paid, published, orders, feed, arrived, page,
                       activities, orderList>>
        /\ got' = [got EXCEPT !["events"] = "read"]
        /\ recentEvents' = Reports!First(feed, ListLimit)
        /\ known' = IF page # "overview" THEN known ELSE IF arrived THEN published ELSE {}
    BY <1>5 DEF Reports!ReadEvents, Reports!Answered, Reports!money
  <2>2. recentEvents' \in Seq(Reports!Events) /\ Len(recentEvents') <= ListLimit
    <3>1. feed \in Seq(Reports!Events) /\ ListLimit \in Nat
      BY <1>1, ReportsConstants DEF Reports!TypeOK
    <3> QED BY ONLY <2>1, <3>1, FirstOf
  <2>3. known' \subseteq paid /\ (page = "users" => known' = known)
    BY <1>1, <2>1 DEF Reports!TypeOK
  <2>4. /\ got' \in [Reports!Lists -> {"unread", "read", "failed"}]
        /\ got'["activities"] = got["activities"]
    BY <1>2, <2>1 DEF Reports!Lists
  <2>5. Reports!TypeOK'
    BY <1>1, <2>1, <2>2, <2>3, <2>4 DEF Reports!TypeOK
  <2>6. \A n : NewerThan(n)' = NewerThan(n)
    BY <2>1 DEF NewerThan
  <2>7. ShownInv'
    BY <1>1, <2>1, <2>3, <2>4, <2>6 DEF ShownInv
  <2> QED BY <2>1, <2>5, <2>7 DEF ReportsInv
<1>6. ASSUME NEW l \in Reports!Lists, Reports!ReadFails(l)
      PROVE  ReportsInv'
  <2>1. /\ UNCHANGED <<made, opened, enqueued, paid, published, orders, feed, arrived, page,
                       activities, orderList, recentEvents, known>>
        /\ got' = [got EXCEPT ![l] = "failed"]
    BY <1>6 DEF Reports!ReadFails, Reports!Answered, Reports!money
  <2>2. /\ got' \in [Reports!Lists -> {"unread", "read", "failed"}]
        /\ got'["activities"] = "read" => got["activities"] = "read"
    BY <1>2, <2>1 DEF Reports!Lists
  <2>3. Reports!TypeOK'
    BY <1>1, <2>1, <2>2 DEF Reports!TypeOK
  <2>4. \A n : NewerThan(n)' = NewerThan(n)
    BY <2>1 DEF NewerThan
  <2>5. ShownInv'
    BY <1>1, <2>1, <2>2, <2>4 DEF ShownInv
  <2> QED BY <2>1, <2>3, <2>5 DEF ReportsInv
<1> QED BY <1>3, <1>4, <1>5, <1>6

LEMMA ReportsInvKept ==
  ASSUME Reports!ReportsAssumption, ReportsInv, [Reports!Next]_(Reports!vars)
  PROVE  ReportsInv'
<1>1. CASE UNCHANGED Reports!vars
  <2>1. UNCHANGED <<made, opened, enqueued, paid, published, orders, feed, arrived, page, got,
                    activities, orderList, recentEvents, known>>
    BY <1>1 DEF Reports!vars, Reports!money, Reports!reads
  <2>2. Reports!TypeOK'
    BY <2>1 DEF ReportsInv, Reports!TypeOK, Reports!IsInjective
  <2> QED BY <2>1, <2>2, ServicesShowNothing
<1> QED BY <1>1, CheckoutsKeep, SessionsKeep, ActivitiesKeep, ReadsKeep DEF Reports!Next

LEMMA ReportsInvariance ==
  ASSUME Reports!ReportsAssumption
  PROVE  Reports!Spec => []ReportsInv
<1>1. Reports!Init => ReportsInv
  BY InitReportsInv
<1>2. ReportsInv /\ [Reports!Next]_(Reports!vars) => ReportsInv'
  BY ReportsInvKept
<1> QED BY <1>1, <1>2, PTL DEF Reports!Spec

-----------------------------------------------------------------------------
(* The customers' payments *)

LEMMA SameCardinality ==
  ASSUME NEW S, IsFiniteSet(S), NEW T, NEW f \in [S -> T],
         \A m \in S, n \in S : f[m] = f[n] => m = n,
         \A t \in T : \E n \in S : f[n] = t
  PROVE  Cardinality(T) = Cardinality(S)
<1>1. f \in Injection(S, T)
  BY DEF Injection, IsInjective
<1>2. f \in Surjection(S, T)
  BY DEF Surjection
<1>3. f \in Bijection(S, T)
  BY <1>1, <1>2 DEF Bijection
<1>4. ExistsBijection(S, T)
  BY <1>3 DEF ExistsBijection
<1> QED BY <1>4, FS_Bijection

\* A record of a payment claims the session of its purchase, and no key of another.
LEMMA KeysNameThePurchase ==
  ASSUME NEW n
  PROVE  /\ <<"session", Reports!Entry(n).of>> \in Reports!Entry(n).keys
         /\ \A key \in Reports!Entry(n).keys : key[2] = Reports!Entry(n).of
<1>1. CASE n <= Len(orderList)
  <2>1. /\ Reports!Entry(n).of = orderList[n]
        /\ Reports!Entry(n).keys = Reports!OrderKeys(orderList[n])
    BY <1>1 DEF Reports!Entry
  <2> QED BY <2>1 DEF Reports!OrderKeys
<1>2. CASE ~(n <= Len(orderList))
  <2> DEFINE entry == activities[n - Len(orderList)]
  <2>1. Reports!Entry(n).of = entry.of /\ Reports!Entry(n).keys = Reports!ActivityKeys(entry)
    BY <1>2 DEF Reports!Entry
  <2> HIDE DEF entry
  <2>2. /\ <<"session", entry.of>> \in Reports!ActivityKeys(entry)
        /\ \A key \in Reports!ActivityKeys(entry) : key[2] = entry.of
    BY DEF Reports!ActivityKeys
  <2> QED BY <2>1, <2>2
<1> QED BY <1>1, <1>2

\* So a record counts when none before it tells of the same purchase.
LEMMA CountsTheFirst ==
  ASSUME NEW u, NEW n
  PROVE  Reports!claimPayment(u, n) <=>
           \A m \in Reports!Payments(u) : m < n => Reports!Entry(m).of # Reports!Entry(n).of
<1> DEFINE keys(m) == Reports!Entry(m).keys
           of(m) == Reports!Entry(m).of
<1>1. \A m : <<"session", of(m)>> \in keys(m) /\ \A key \in keys(m) : key[2] = of(m)
  BY KeysNameThePurchase
<1>2. Reports!claimPayment(u, n) <=>
        \A m \in Reports!Payments(u) : m < n => keys(m) \cap keys(n) = {}
  BY DEF Reports!claimPayment, Reports!paymentKeys
<1> HIDE DEF keys, of
<1>3. \A m : keys(m) \cap keys(n) = {} <=> of(m) # of(n)
  BY <1>1
<1>4. Reports!claimPayment(u, n) <=>
        \A m \in Reports!Payments(u) : m < n => of(m) # of(n)
  BY <1>2, <1>3
<1> QED BY <1>4 DEF of

\* Every purchase that some record counts for has one first record of it.
LEMMA FirstRecord ==
  ASSUME ReportsInv, NEW u, NEW n \in Reports!Payments(u)
  PROVE  \E m \in Reports!Summary(u) : Reports!Entry(m).of = Reports!Entry(n).of
<1> DEFINE of(m) == Reports!Entry(m).of
           same == {m \in Reports!Payments(u) : of(m) = of(n)}
<1>1. Len(orderList) + Len(activities) \in Nat
  BY DEF ReportsInv, Reports!TypeOK
<1>2. Reports!Payments(u) \in SUBSET Nat
  BY <1>1 DEF Reports!Payments
<1>3. same \in SUBSET Nat /\ n \in same
  BY <1>2
<1> HIDE DEF of
<1>4. PICK m \in same : \A k \in same : m <= k
  BY <1>3, LeastOf
<1>5. \A k \in Reports!Payments(u) : k < m => of(k) # of(m)
  <2>1. ASSUME NEW k \in Reports!Payments(u), k < m, of(k) = of(m)
        PROVE  FALSE
    <3>1. k \in same /\ k \in Nat /\ m \in Nat
      BY <1>2, <1>3, <2>1
    <3>2. m <= k
      BY <1>4, <3>1
    <3> QED BY ONLY <2>1, <3>1, <3>2
  <2> QED BY <2>1
<1>6. Reports!claimPayment(u, m)
  BY <1>5, CountsTheFirst DEF of
<1> QED BY <1>4, <1>6 DEF Reports!Summary, of

\* The records, and the rows they come from.
LEMMA RecordsAre ==
  ASSUME ReportsInv
  PROVE  /\ \A i \in DOMAIN orderList :
              /\ i \in 1..(Len(orderList) + Len(activities))
              /\ Reports!Entry(i).of = orderList[i] /\ Reports!Entry(i).pays
         /\ \A i \in DOMAIN activities :
              /\ Len(orderList) + i \in 1..(Len(orderList) + Len(activities))
              /\ Reports!Entry(Len(orderList) + i).of = activities[i].of
              /\ Reports!Entry(Len(orderList) + i).pays <=> activities[i].status = "paid"
         /\ \A n \in 1..(Len(orderList) + Len(activities)) :
              \/ n \in DOMAIN orderList
              \/ \E i \in DOMAIN activities : n = Len(orderList) + i
<1>1. /\ Len(orderList) \in Nat /\ Len(activities) \in Nat
      /\ DOMAIN orderList = 1..Len(orderList) /\ DOMAIN activities = 1..Len(activities)
  BY DEF ReportsInv, Reports!TypeOK
<1>2. ASSUME NEW i \in DOMAIN orderList
      PROVE  /\ i \in 1..(Len(orderList) + Len(activities))
             /\ Reports!Entry(i).of = orderList[i] /\ Reports!Entry(i).pays
  <2>1. i <= Len(orderList) /\ i \in 1..(Len(orderList) + Len(activities))
    BY <1>1
  <2> QED BY <2>1 DEF Reports!Entry
<1>3. ASSUME NEW i \in DOMAIN activities
      PROVE  /\ Len(orderList) + i \in 1..(Len(orderList) + Len(activities))
             /\ Reports!Entry(Len(orderList) + i).of = activities[i].of
             /\ Reports!Entry(Len(orderList) + i).pays <=> activities[i].status = "paid"
  <2>1. /\ ~(Len(orderList) + i <= Len(orderList)) /\ (Len(orderList) + i) - Len(orderList) = i
        /\ Len(orderList) + i \in 1..(Len(orderList) + Len(activities))
    BY <1>1
  <2> QED BY <2>1 DEF Reports!Entry
<1>4. ASSUME NEW n \in 1..(Len(orderList) + Len(activities)), n \notin DOMAIN orderList
      PROVE  \E i \in DOMAIN activities : n = Len(orderList) + i
  <2>1. n - Len(orderList) \in 1..Len(activities) /\ n = Len(orderList) + (n - Len(orderList))
    BY <1>1, <1>4
  <2> QED BY <1>1, <2>1
<1> QED BY <1>2, <1>3, <1>4

\* The payments the directory is told of, and how often it counts them.
LEMMA CountsEachOnce ==
  ASSUME ReportsInv
  PROVE  Reports!CountedOnce
<1> SUFFICES ASSUME NEW u \in Users
             PROVE  LET told == {p \in Reports!ToSet(orderList) \cup
                           {fact.of : fact \in {r \in Reports!ToSet(activities) : r.status = "paid"}} :
                                   UserOf[p] = u}
                    IN  told \subseteq paid /\ Reports!paymentCount(u) = Reports!Cardinality(told)
  BY DEF Reports!CountedOnce
<1> DEFINE told == {p \in Reports!ToSet(orderList) \cup
                      {fact.of : fact \in {r \in Reports!ToSet(activities) : r.status = "paid"}} :
                    UserOf[p] = u}
           of(n) == Reports!Entry(n).of
           S == Reports!Summary(u)
           f == [n \in S |-> of(n)]
<1>1. \A p : p \in told <=>
        /\ UserOf[p] = u
        /\ \/ \E i \in DOMAIN orderList : p = orderList[i]
           \/ \E i \in DOMAIN activities : p = activities[i].of /\ activities[i].status = "paid"
  BY DEF Reports!ToSet
<1> HIDE DEF told
<1>2. told \subseteq paid
  BY <1>1 DEF ReportsInv, ShownInv
<1>3. \A n \in Reports!Payments(u) : of(n) \in told
  <2>1. ASSUME NEW n \in 1..(Len(orderList) + Len(activities)), Reports!Entry(n).pays,
               UserOf[of(n)] = u
        PROVE  of(n) \in told
    BY <1>1, <2>1, RecordsAre
  <2> QED BY <2>1 DEF Reports!Payments
<1>4. \A p \in told : \E n \in Reports!Payments(u) : of(n) = p
  <2>1. ASSUME NEW p \in told
        PROVE  \E n \in 1..(Len(orderList) + Len(activities)) :
                 of(n) = p /\ Reports!Entry(n).pays
    BY <1>1, RecordsAre
  <2>2. \A p \in told : UserOf[p] = u
    BY <1>1
  <2> QED BY <2>1, <2>2 DEF Reports!Payments
<1>5. S \in SUBSET Reports!Payments(u) /\ \A n \in S : Reports!claimPayment(u, n)
  BY DEF Reports!Summary
<1>6. Len(orderList) + Len(activities) \in Nat
  BY DEF ReportsInv, Reports!TypeOK
<1>7. Reports!Payments(u) \in SUBSET (1..(Len(orderList) + Len(activities)))
  BY DEF Reports!Payments
<1> HIDE DEF S
<1>8. S \in SUBSET (1..(Len(orderList) + Len(activities)))
  BY <1>5, <1>7
<1>9. S \in SUBSET Nat /\ IsFiniteSet(S)
  BY <1>6, <1>8, IndicesFinite
<1>10. \A p \in told : \E n \in S : of(n) = p
  <2>1. ASSUME NEW n \in Reports!Payments(u)
        PROVE  \E m \in S : of(m) = of(n)
    BY FirstRecord DEF S
  <2> QED BY <1>4, <2>1
<1>11. \A m \in S, n \in S : of(m) = of(n) => m = n
  <2>1. \A m \in S, n \in S : m < n => of(m) # of(n)
    BY <1>5, CountsTheFirst
  <2>2. \A m \in S, n \in S : m < n \/ n < m \/ m = n
    BY <1>9
  <2> QED BY <2>1, <2>2
<1> HIDE DEF of
<1>12. f \in [S -> told]
  BY <1>3, <1>5
<1>13. \A m \in S, n \in S : f[m] = f[n] => m = n
  BY <1>11
<1>14. \A p \in told : \E n \in S : f[n] = p
  BY <1>10
<1> HIDE DEF f
<1>15. Cardinality(told) = Cardinality(S)
  BY ONLY <1>9, <1>12, <1>13, <1>14, SameCardinality
<1>16. Reports!paymentCount(u) = Reports!Cardinality(told)
  BY <1>15, ReportsCardinality DEF Reports!paymentCount, S
<1> QED BY <1>2, <1>16 DEF told

LEMMA CountsTheKnown ==
  ASSUME ReportsInv
  PROVE  Reports!KnownPaymentsAreCounted
<1> SUFFICES ASSUME page = "users", got["activities"] = "read",
                    NEW n \in DOMAIN made, made[n] \in known,
                    Reports!Cardinality(NewerThan(n)) < ActivityWindow
             PROVE  /\ UserOf[made[n]] \in Reports!Customers
                    /\ \E m \in Reports!Summary(UserOf[made[n]]) : Reports!Entry(m).of = made[n]
  BY DEF Reports!KnownPaymentsAreCounted, Reports!UsersShown, NewerThan
<1>1. Cardinality(NewerThan(n)) < ActivityWindow
  BY ReportsCardinality
<1>2. PICK i \in DOMAIN activities : activities[i].of = made[n] /\ activities[i].status = "paid"
  BY <1>1 DEF ReportsInv, ShownInv
<1> DEFINE k == Len(orderList) + i
<1>3. /\ k \in 1..(Len(orderList) + Len(activities))
      /\ Reports!Entry(k).of = made[n] /\ Reports!Entry(k).pays
  BY <1>2, RecordsAre
<1> HIDE DEF k
<1>4. k \in Reports!Payments(UserOf[made[n]])
  BY <1>3 DEF Reports!Payments
<1>5. \E m \in Reports!Summary(UserOf[made[n]]) : Reports!Entry(m).of = made[n]
  BY <1>3, <1>4, FirstRecord
<1>6. UserOf[made[n]] \in Reports!Customers
  <2>1. activities[i] \in Reports!ToSet(activities)
    BY DEF Reports!ToSet
  <2> QED BY <1>2, <2>1 DEF Reports!Customers
<1> QED BY <1>5, <1>6

\* Whatever the lists were read in between of, the directory counts a purchase once
\* (customer-summaries.ts) and only stored payments.
THEOREM EachPaymentCountsOnce ==
  ASSUME Reports!ReportsAssumption
  PROVE  Reports!Spec => []Reports!CountedOnce
<1>1. ReportsInv => Reports!CountedOnce
  BY CountsEachOnce
<1> QED BY <1>1, ReportsInvariance, PTL

\* A payment stored before the directory was opened is counted there, whether its
\* order is known or not.
THEOREM KnownPaymentsCount ==
  ASSUME Reports!ReportsAssumption
  PROVE  Reports!Spec => []Reports!KnownPaymentsAreCounted
<1>1. ReportsInv => Reports!KnownPaymentsAreCounted
  BY CountsTheKnown
<1> QED BY <1>1, ReportsInvariance, PTL

LEMMA ReportsPromises ==
  ASSUME ReportsInv
  PROVE  Reports!TypeOK /\ Reports!CountedOnce /\ Reports!KnownPaymentsAreCounted
BY CountsEachOnce, CountsTheKnown DEF ReportsInv

-----------------------------------------------------------------------------
(* The specification of MCCatalogue *)

\* The component that runs keeps its invariant.
CatalogueInv ==
  /\ part = "console" => ConsoleInv
  /\ part = "form" => FormInv
  /\ part = "stock" => StockInv
  /\ part = "reports" => ReportsInv
  /\ part = "theme" => ThemeInv
  /\ part = "outbox" => OutboxInv
  /\ part = "stripe" => StripeInv
  /\ part = "seed" => SeedInv

\* Every behaviour begins in one of them.
LEMMA InitCatalogueInv == Init => CatalogueInv
<1>1. CASE Begin("console") /\ Console!Init
  BY <1>1, CatalogueAssumption, InitConsoleInv DEF Begin, CatalogueInv
<1>2. CASE Begin("form") /\ Form!Init
  BY <1>2, CatalogueAssumption, InitFormInv DEF Begin, CatalogueInv
<1>3. CASE Begin("stock") /\ Stock!Init
  BY <1>3, CatalogueAssumption, InitStockInv DEF Begin, CatalogueInv
<1>4. CASE Begin("reports") /\ Reports!Init
  BY <1>4, CatalogueAssumption, InitReportsInv DEF Begin, CatalogueInv
<1>5. CASE Begin("theme") /\ Theme!Init
  BY <1>5, CatalogueAssumption, InitThemeInv DEF Begin, CatalogueInv
<1>6. CASE Begin("outbox") /\ Outbox!Init
  BY <1>6, CatalogueAssumption, InitOutboxInv DEF Begin, CatalogueInv
<1>7. CASE Begin("stripe") /\ Stripe!Init
  BY <1>7, CatalogueAssumption, InitStripeInv DEF Begin, CatalogueInv
<1>8. CASE Begin("seed") /\ Seed!Init
  BY <1>8, CatalogueAssumption, InitSeedInv DEF Begin, CatalogueInv
<1> QED BY <1>1, <1>2, <1>3, <1>4, <1>5, <1>6, <1>7, <1>8 DEF Init

\* And stays in it, every step being one of that component's.
LEMMA CatalogueInvKept ==
  ASSUME CatalogueInv, [Next]_all
  PROVE  CatalogueInv'
<1>1. CASE ConsoleStep
  <2>1. part = "console" /\ part' = "console" /\ Console!Next
    BY <1>1 DEF ConsoleStep, In
  <2>2. ConsoleInv'
    BY <2>1, CatalogueAssumption, ConsoleInvKept DEF CatalogueInv
  <2> QED BY <2>1, <2>2 DEF CatalogueInv
<1>2. CASE FormStep
  <2>1. part = "form" /\ part' = "form" /\ Form!Next
    BY <1>2 DEF FormStep, In
  <2>2. FormInv'
    BY <2>1, CatalogueAssumption, FormInvKept DEF CatalogueInv
  <2> QED BY <2>1, <2>2 DEF CatalogueInv
<1>3. CASE StockStep
  <2>1. part = "stock" /\ part' = "stock" /\ Stock!Next
    BY <1>3 DEF StockStep, In
  <2>2. StockInv'
    BY <2>1, CatalogueAssumption, StockInvKept DEF CatalogueInv
  <2> QED BY <2>1, <2>2 DEF CatalogueInv
<1>4. CASE ReportsStep
  <2>1. part = "reports" /\ part' = "reports" /\ Reports!Next
    BY <1>4 DEF ReportsStep, In
  <2>2. ReportsInv'
    BY <2>1, CatalogueAssumption, ReportsInvKept DEF CatalogueInv
  <2> QED BY <2>1, <2>2 DEF CatalogueInv
<1>5. CASE ThemeStep
  <2>1. part = "theme" /\ part' = "theme" /\ Theme!Next
    BY <1>5 DEF ThemeStep, In
  <2>2. ThemeInv'
    BY <2>1, CatalogueAssumption, ThemeInvKept DEF CatalogueInv
  <2> QED BY <2>1, <2>2 DEF CatalogueInv
<1>6. CASE OutboxStep
  <2>1. part = "outbox" /\ part' = "outbox" /\ Outbox!Next
    BY <1>6 DEF OutboxStep, In
  <2>2. OutboxInv'
    BY <2>1, CatalogueAssumption, OutboxInvKept DEF CatalogueInv
  <2> QED BY <2>1, <2>2 DEF CatalogueInv
<1>7. CASE StripeStep
  <2>1. part = "stripe" /\ part' = "stripe" /\ Stripe!Next
    BY <1>7 DEF StripeStep, In
  <2>2. StripeInv'
    BY <2>1, CatalogueAssumption, StripeInvKept DEF CatalogueInv
  <2> QED BY <2>1, <2>2 DEF CatalogueInv
<1>8. CASE SeedStep
  <2>1. part = "seed" /\ part' = "seed" /\ Seed!Next
    BY <1>8 DEF SeedStep, In
  <2>2. SeedInv'
    BY <2>1, CatalogueAssumption, SeedInvKept DEF CatalogueInv
  <2> QED BY <2>1, <2>2 DEF CatalogueInv
<1>9. CASE UNCHANGED all
  <2>0. part' = part
    BY <1>9 DEF all
  <2>1. part = "console" => ConsoleInv'
    <3>1. UNCHANGED Console!vars
      <4>1. UNCHANGED <<catalog, shown, form, sheet, call, refreshes, confirmed, writes>>
        BY <1>9 DEF all
      <4> QED BY <4>1 DEF Console!vars
    <3> QED BY <3>1, CatalogueAssumption, ConsoleInvKept DEF CatalogueInv
  <2>2. part = "form" => FormInv'
    <3>1. UNCHANGED Form!vars
      <4>1. UNCHANGED <<row, form, opened, added, removed, edits>>
        BY <1>9 DEF all
      <4> QED BY <4>1 DEF Form!vars
    <3> QED BY <3>1, CatalogueAssumption, FormInvKept DEF CatalogueInv
  <2>3. part = "stock" => StockInv'
    <3>1. UNCHANGED Stock!vars
      <4>1. UNCHANGED <<stock, offers, size, draft, rows, open>>
        BY <1>9 DEF all
      <4>2. UNCHANGED <<step, request, reading, typed, behind, changes>>
        BY <1>9 DEF all
      <4> QED BY <4>1, <4>2 DEF Stock!vars
    <3> QED BY <3>1, CatalogueAssumption, StockInvKept DEF CatalogueInv
  <2>4. part = "reports" => ReportsInv'
    <3>1. UNCHANGED Reports!vars
      <4>1. UNCHANGED <<made, opened, enqueued, paid, published, orders, feed>>
        BY <1>9 DEF all
      <4>2. UNCHANGED <<arrived, page, got, activities, orderList, recentEvents, known>>
        BY <1>9 DEF all
      <4> QED BY <4>1, <4>2 DEF Reports!vars, Reports!money, Reports!reads
    <3> QED BY <3>1, CatalogueAssumption, ReportsInvKept DEF CatalogueInv
  <2>5. part = "theme" => ThemeInv'
    <3>1. UNCHANGED Theme!vars
      <4>1. UNCHANGED <<denied, prefers, turns, stored, author, unsaved, writes>>
        BY <1>9 DEF all
      <4>2. UNCHANGED <<mounted, theme, applied, shown, news, turned>>
        BY <1>9 DEF all
      <4> QED BY <4>1, <4>2 DEF Theme!vars, Theme!system, Theme!storage, Theme!pages
    <3> QED BY <3>1, CatalogueAssumption, ThemeInvKept DEF CatalogueInv
  <2>6. part = "outbox" => OutboxInv'
    <3>1. UNCHANGED Outbox!vars
      <4>1. UNCHANGED <<product, stock, outbox, sent, request, relay, edits, faults>>
        BY <1>9 DEF all
      <4> QED BY <4>1 DEF Outbox!vars
    <3> QED BY <3>1, CatalogueAssumption, OutboxInvKept DEF CatalogueInv
  <2>7. part = "stripe" => StripeInv'
    <3>1. UNCHANGED Stripe!vars
      <4>1. UNCHANGED <<source, hints, budget, stripe, price, run, lock>>
        BY <1>9 DEF all
      <4> QED BY <4>1 DEF Stripe!vars
    <3> QED BY <3>1, CatalogueAssumption, StripeInvKept DEF CatalogueInv
  <2>8. part = "seed" => SeedInv'
    <3>1. UNCHANGED Seed!vars
      <4>1. UNCHANGED <<slugs, rows, silent, at, todo, known, next>>
        BY <1>9 DEF all
      <4>2. UNCHANGED <<stored, ended, runs, calm, faults, edits>>
        BY <1>9 DEF all
      <4> QED BY <4>1, <4>2 DEF Seed!vars, Seed!catalogue, Seed!run
    <3> QED BY <3>1, CatalogueAssumption, SeedInvKept DEF CatalogueInv
  <2> QED BY <2>0, <2>1, <2>2, <2>3, <2>4, <2>5, <2>6, <2>7, <2>8 DEF CatalogueInv
<1> QED BY <1>1, <1>2, <1>3, <1>4, <1>5, <1>6, <1>7, <1>8, <1>9 DEF Next

LEMMA CatalogueInvariance == Spec => []CatalogueInv
<1>1. Init => CatalogueInv
  BY InitCatalogueInv
<1>2. CatalogueInv /\ [Next]_all => CatalogueInv'
  BY CatalogueInvKept
<1> QED BY <1>1, <1>2, PTL DEF Spec

\* What else a step keeps to.
LEMMA StepsKeepTo ==
  ASSUME CatalogueInv, Next
  PROVE  /\ part = "form" => Form!PicturesStay /\ Form!PicturesKeepTheirColor
         /\ part = "theme" => Theme!LastChoiceStays
         /\ part = "outbox" => Outbox!OnlyTheClaimFinishes /\ Outbox!KeepsThePromise
         /\ part = "stripe" => Stripe!NeverOlderPrice
<1>1. part = "form" => Form!PicturesStay /\ Form!PicturesKeepTheirColor
  BY CatalogueAssumption, PicturesKept DEF CatalogueInv
<1>2. ASSUME part = "theme" PROVE Theme!LastChoiceStays
  <2>1. Theme!Next
    BY <1>2 DEF Next, In, ConsoleStep, FormStep, StockStep, ReportsStep, ThemeStep, OutboxStep,
       StripeStep, SeedStep
  <2> QED BY <1>2, <2>1, CatalogueAssumption, ChoiceStays DEF CatalogueInv
<1>3. ASSUME part = "outbox" PROVE Outbox!OnlyTheClaimFinishes /\ Outbox!KeepsThePromise
  <2>1. Outbox!Next
    BY <1>3 DEF Next, In, ConsoleStep, FormStep, StockStep, ReportsStep, ThemeStep, OutboxStep,
       StripeStep, SeedStep
  <2>2. OutboxInv
    BY <1>3 DEF CatalogueInv
  <2> QED BY <2>1, <2>2, CatalogueAssumption, OwnersFinish, PromiseKept DEF Outbox!KeepsThePromise
<1>4. ASSUME part = "stripe" PROVE Stripe!NeverOlderPrice
  <2>1. Stripe!Next
    BY <1>4 DEF Next, In, ConsoleStep, FormStep, StockStep, ReportsStep, ThemeStep, OutboxStep,
       StripeStep, SeedStep
  <2> QED BY <1>4, <2>1, CatalogueAssumption, NeverOlder DEF CatalogueInv
<1> QED BY <1>1, <1>2, <1>3, <1>4

\* The types of the components' variables and the bounds of their counters.
THEOREM CatalogueTypeCorrect == Spec => []CatalogueTypes
<1>1. CatalogueInv => CatalogueTypes
  BY CatalogueAssumption, ConsolePromises, StockPromises, ReportsPromises, ThemePromises,
     OutboxPromises, StripePromises, SeedPromises DEF CatalogueInv, CatalogueTypes, FormInv
<1> QED BY <1>1, CatalogueInvariance, PTL

\* The administration saves what was opened, typed or loaded there, whatever else is
\* changed, answered or lost meanwhile, and shows it once at rest.
THEOREM SavesAreAsMeant == Spec => SavesWhatWasMeant
<1>1. CatalogueInv => ConsolesAreRight
  BY CatalogueAssumption, ConsolePromises, StockPromises, ThemePromises DEF CatalogueInv, ConsolesAreRight
<1>2. ASSUME CatalogueInv, Next
      PROVE  /\ ConsolesAreRight'
             /\ part = "form" => Form!PicturesStay /\ Form!PicturesKeepTheirColor
             /\ part = "theme" => Theme!LastChoiceStays
  <2>1. CatalogueInv'
    BY <1>2, CatalogueInvKept
  <2>2. CatalogueInv' => ConsolesAreRight'
    BY <1>1, PTL
  <2> QED BY <1>2, <2>1, <2>2, StepsKeepTo
<1>3. CatalogueInv /\ [Next]_all
        => [/\ ConsolesAreRight'
            /\ part = "form" => Form!PicturesStay /\ Form!PicturesKeepTheirColor
            /\ part = "theme" => Theme!LastChoiceStays]_all
  BY <1>2
<1> QED BY <1>3, CatalogueInvariance, PTL DEF Spec, SavesWhatWasMeant

\* No creation, update or deletion of a product goes without its event, and no event
\* is finished but by the newest claim, whatever the replicas, the faults, the renamed
\* categories and the replays of the seeds.
THEOREM WritesDoGetAnnounced == Spec => WritesAreAnnounced
<1>1. CatalogueInv => WritesAreTold
  BY CatalogueAssumption, OutboxPromises, SeedPromises DEF CatalogueInv, WritesAreTold
<1>2. ASSUME CatalogueInv, Next
      PROVE  /\ WritesAreTold'
             /\ part = "outbox" => Outbox!OnlyTheClaimFinishes /\ Outbox!KeepsThePromise
  <2>1. CatalogueInv'
    BY <1>2, CatalogueInvKept
  <2>2. CatalogueInv' => WritesAreTold'
    BY <1>1, PTL
  <2> QED BY <1>2, <2>1, <2>2, StepsKeepTo
<1>3. CatalogueInv /\ [Next]_all
        => [/\ WritesAreTold'
            /\ part = "outbox" => Outbox!OnlyTheClaimFinishes /\ Outbox!KeepsThePromise]_all
  BY <1>2
<1> QED BY <1>3, CatalogueInvariance, PTL DEF Spec, WritesAreAnnounced

\* Stripe shows the product as it is once its hints are worked off, and never goes
\* back to an older price.
THEOREM StripeDoesFollow == Spec => StripeFollows
<1>1. CatalogueInv => StripeIsRight
  BY CatalogueAssumption, StripePromises DEF CatalogueInv, StripeIsRight
<1>2. ASSUME CatalogueInv, Next
      PROVE  /\ StripeIsRight'
             /\ part = "stripe" => Stripe!NeverOlderPrice
  <2>1. CatalogueInv'
    BY <1>2, CatalogueInvKept
  <2>2. CatalogueInv' => StripeIsRight'
    BY <1>1, PTL
  <2> QED BY <1>2, <2>1, <2>2, StepsKeepTo
<1>3. CatalogueInv /\ [Next]_all
        => [/\ StripeIsRight'
            /\ part = "stripe" => Stripe!NeverOlderPrice]_all
  BY <1>2
<1> QED BY <1>3, CatalogueInvariance, PTL DEF Spec, StripeFollows

\* The reports count each stored payment once, and miss none that was not pushed out.
THEOREM ReportsStayTrue == Spec => []ReportsAreTrue
<1>1. CatalogueInv => ReportsAreTrue
  BY CatalogueAssumption, ReportsPromises DEF CatalogueInv, ReportsAreTrue
<1> QED BY <1>1, CatalogueInvariance, PTL
=============================================================================
