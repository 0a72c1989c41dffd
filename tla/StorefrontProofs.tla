--------------------------- MODULE StorefrontProofs ---------------------------
(***************************************************************************)
(* Proofs about the two components of MCStorefront that keep what the      *)
(* visitor gave, BrowserStorage and ShoppingBag, for any products, stores  *)
(* and tabs.                                                               *)
(* Then the components that MCStorefront puts side by side keep what they  *)
(* keep alone: the theorems of its specification, from what BrowsingProofs *)
(* and PayingProofs show of the others.                                    *)
(***************************************************************************)
EXTENDS BrowsingProofs, PayingProofs

-----------------------------------------------------------------------------
(* BrowserStorage *)

Ages == -writes..writes

\* What an adapter remembers answers as the storage last answered it; a visit
\* reads the storage only while all of its writes have reached it, a checkout
\* only before it has written, removed or read anything.
EntriesTyped ==
  /\ disk \in [Key -> Ages] /\ unavailable \in [VisitTab -> BOOLEAN] /\ writes \in 0..MaxWrites
  /\ memory \in [Storage!Tab -> [Key -> Ages \union {Storage!NoEntry}]]
  /\ latest \in [Storage!Tab -> [Key -> Ages]]
  /\ answer = [t \in Storage!Tab |-> [k \in Key |-> Storage!Value(latest[t][k])]]
EntriesAgree ==
  /\ \A t \in Storage!Tab, k \in Key : Storage!Value(memory[t][k]) = Storage!Value(latest[t][k])
  /\ \A t \in VisitTab, k \in Key : memory[t][k] \in 1..writes \union {Storage!NoEntry}
  /\ \A t \in PaymentTab, k \in Key : memory[t][k] = Storage!NoEntry => latest[t][k] = 0
StorageIsAhead ==
  \A t \in VisitTab, k \in Key : ~unavailable[t] => Storage!Age(disk[k]) >= Storage!Age(latest[t][k])
StorageInv == EntriesTyped /\ EntriesAgree /\ StorageIsAhead

LEMMA InitStorageInv ==
  ASSUME Storage!BrowserStorageAssumption, Storage!Init
  PROVE  StorageInv
<1> USE DEF Storage!Init, Storage!BrowserStorageAssumption
<1>1. MaxWrites \in Nat /\ writes = 0 /\ 0 \in Ages
  BY DEF Ages
<1>2. \A t \in Storage!Tab, k \in Key : memory[t][k] = Storage!NoEntry /\ latest[t][k] = 0
  BY DEF Storage!Absent
<1>3. Storage!Value(0) = 0 /\ Storage!Value(Storage!NoEntry) = 0 /\ Storage!Age(0) = 0
  BY DEF Storage!Value, Storage!NoEntry, Storage!Absent, Storage!Age
<1>4. answer = [t \in Storage!Tab |-> [k \in Key |-> Storage!Value(latest[t][k])]]
  BY <1>3 DEF Storage!Absent
<1>5. EntriesTyped
  BY <1>1, <1>4 DEF EntriesTyped, Storage!Absent
<1>6. EntriesAgree
  BY <1>2, <1>3 DEF EntriesAgree, Storage!Tab
<1>7. StorageIsAhead
  BY <1>2, <1>3 DEF StorageIsAhead, Storage!Absent, Storage!Tab
<1> QED BY <1>5, <1>6, <1>7 DEF StorageInv

\* One entry is heard of and remembered.
LEMMA EntryStorageInv ==
  ASSUME Storage!BrowserStorageAssumption, StorageInv,
         NEW t \in Storage!Tab, NEW k \in Key, NEW m, NEW l,
         Storage!Remember(t, k, m), Storage!Hears(t, k, l),
         writes' \in 0..MaxWrites, writes <= writes', m \in Ages' \union {Storage!NoEntry}, l \in Ages',
         Storage!Value(m) = Storage!Value(l),
         t \in VisitTab => m \in 1..writes' \union {Storage!NoEntry},
         t \in PaymentTab => (m = Storage!NoEntry => l = 0),
         disk' \in [Key -> Ages'], unavailable' \in [VisitTab -> BOOLEAN],
         \A u \in VisitTab, j \in Key : ~unavailable'[u] =>
           Storage!Age(disk'[j]) >= IF u = t /\ j = k THEN Storage!Age(l) ELSE Storage!Age(latest[u][j])
  PROVE  StorageInv'
<1>0. writes \in Nat /\ MaxWrites \in Nat
  BY DEF StorageInv, EntriesTyped, Storage!BrowserStorageAssumption
<1>1. Ages \in SUBSET Ages'
  <2>1. writes' \in Nat /\ writes <= writes'
    BY <1>0
  <2>2. \A a, b \in Nat : a <= b => -a..a \in SUBSET (-b..b)
    OBVIOUS
  <2> QED BY <1>0, <2>1, <2>2 DEF Ages
<1>2. \A u \in Storage!Tab, j \in Key :
        /\ memory'[u][j] = IF u = t /\ j = k THEN m ELSE memory[u][j]
        /\ latest'[u][j] = IF u = t /\ j = k THEN l ELSE latest[u][j]
  BY DEF StorageInv, EntriesTyped, Storage!Remember, Storage!Hears
<1>3. /\ memory' \in [Storage!Tab -> [Key -> Ages' \union {Storage!NoEntry}]]
      /\ latest' \in [Storage!Tab -> [Key -> Ages']]
  <2>1. /\ memory \in [Storage!Tab -> [Key -> Ages' \union {Storage!NoEntry}]]
        /\ latest \in [Storage!Tab -> [Key -> Ages']]
    BY <1>1 DEF StorageInv, EntriesTyped
  <2> HIDE DEF Ages
  <2> QED BY <2>1 DEF Storage!Remember, Storage!Hears
<1>4. answer' = [u \in Storage!Tab |-> [j \in Key |-> Storage!Value(latest'[u][j])]]
  <2>1. answer = [u \in Storage!Tab |-> [j \in Key |-> Storage!Value(latest[u][j])]]
    BY DEF StorageInv, EntriesTyped
  <2>2. answer' = [answer EXCEPT ![t][k] = Storage!Value(l)]
    BY DEF Storage!Hears
  <2> QED BY <1>2, <2>1, <2>2
<1>5. EntriesTyped'
  <2>1. Storage!NoEntry' = Storage!NoEntry
    BY DEF Storage!NoEntry
  <2>2. \A v : Storage!Value(v)' = Storage!Value(v)
    BY DEF Storage!Value
  <2> QED BY <1>3, <1>4, <2>1, <2>2 DEF EntriesTyped, Storage!Value, Storage!NoEntry
<1>6. EntriesAgree'
  <2>1. \A u \in Storage!Tab, j \in Key : Storage!Value(memory'[u][j]) = Storage!Value(latest'[u][j])
    BY <1>2 DEF StorageInv, EntriesAgree
  <2>2. \A u \in VisitTab, j \in Key : memory'[u][j] \in 1..writes' \union {Storage!NoEntry}
    <3>1. \A u \in VisitTab, j \in Key : memory[u][j] \in 1..writes' \union {Storage!NoEntry}
      <4>1. 1..writes \in SUBSET (1..writes')
        BY <1>0
      <4> QED BY <4>1 DEF StorageInv, EntriesAgree
    <3> QED BY <1>2, <3>1 DEF Storage!Tab
  <2>3. \A u \in PaymentTab, j \in Key : memory'[u][j] = Storage!NoEntry => latest'[u][j] = 0
    BY <1>2 DEF StorageInv, EntriesAgree, Storage!Tab
  <2> QED BY <2>1, <2>2, <2>3 DEF EntriesAgree, Storage!Value, Storage!NoEntry
<1>7. StorageIsAhead'
  BY <1>2 DEF StorageIsAhead, Storage!Tab
<1> QED BY <1>5, <1>6, <1>7 DEF StorageInv

\* A tab's newest write or removal, in the storage as long as that does not fail.
WritesOn(t, k, v, fails) ==
  /\ writes' = writes + 1
  /\ Storage!Written(k, v, ~fails /\ ~unavailable[t])
  /\ unavailable' = [unavailable EXCEPT ![t] = @ \/ fails]

\* Nothing in the storage or of a tab is newer.
LEMMA EntriesAreOlder ==
  ASSUME Storage!BrowserStorageAssumption, StorageInv
  PROVE  /\ \A j \in Key : disk[j] \in Int /\ Storage!Age(disk[j]) \in 0..writes
         /\ \A u \in Storage!Tab, j \in Key :
              latest[u][j] \in Int /\ Storage!Age(latest[u][j]) \in 0..writes
<1>1. writes \in Nat
  BY DEF StorageInv, EntriesTyped
<1>2. \A n \in Ages : n \in Int /\ Storage!Age(n) \in 0..writes
  BY <1>1 DEF Ages, Storage!Age
<1> QED BY <1>2 DEF StorageInv, EntriesTyped

LEMMA DiskWritten ==
  ASSUME Storage!BrowserStorageAssumption, StorageInv, NEW k \in Key, NEW v \in {writes + 1, -(writes + 1)},
         NEW reaches \in BOOLEAN, Storage!Written(k, v, reaches), writes' = writes + 1
  PROVE  /\ disk' \in [Key -> Ages'] /\ Storage!Age(v) = writes'
         /\ \A j \in Key : /\ Storage!Age(disk'[j]) >= Storage!Age(disk[j])
                           /\ disk'[j] = IF j = k /\ reaches THEN v ELSE disk[j]
<1>0. writes \in Nat /\ writes' \in Nat
  BY DEF StorageInv, EntriesTyped
<1>1. v \in Ages' /\ Ages \in SUBSET Ages' /\ Storage!Age(v) = writes'
  BY <1>0 DEF Ages, Storage!Age
<1>2. disk \in [Key -> Ages]
  BY DEF StorageInv, EntriesTyped
<1>3. \A j \in Key : disk'[j] = IF j = k /\ reaches THEN v ELSE disk[j]
  BY <1>2 DEF Storage!Written
<1>4. disk' \in [Key -> Ages']
  <2> HIDE DEF Ages
  <2> QED BY <1>1, <1>2 DEF Storage!Written
<1>5. \A j \in Key : Storage!Age(disk'[j]) >= Storage!Age(disk[j])
  BY <1>0, <1>1, <1>3, EntriesAreOlder
<1> QED BY <1>1, <1>3, <1>4, <1>5

LEMMA VisitWritesOn ==
  ASSUME Storage!BrowserStorageAssumption, StorageInv, NEW t \in VisitTab, NEW k \in Key,
         NEW v \in {writes + 1, -(writes + 1)}, NEW fails \in BOOLEAN, WritesOn(t, k, v, fails)
  PROVE  /\ disk' \in [Key -> Ages'] /\ unavailable' \in [VisitTab -> BOOLEAN]
         /\ \A u \in VisitTab, j \in Key : ~unavailable'[u] =>
              Storage!Age(disk'[j]) >= IF u = t /\ j = k THEN Storage!Age(v) ELSE Storage!Age(latest[u][j])
<1>0. unavailable \in [VisitTab -> BOOLEAN] /\ writes' = writes + 1
  BY DEF StorageInv, EntriesTyped, WritesOn
<1>1. /\ unavailable' \in [VisitTab -> BOOLEAN]
      /\ \A u \in VisitTab : unavailable'[u] = (unavailable[u] \/ (u = t /\ fails))
  BY <1>0 DEF WritesOn
<1>2. PICK reaches \in BOOLEAN : reaches = (~fails /\ ~unavailable[t])
  OBVIOUS
<1>3. Storage!Written(k, v, reaches)
  BY <1>2 DEF WritesOn
<1>4. /\ disk' \in [Key -> Ages'] /\ Storage!Age(v) = writes'
      /\ \A j \in Key : /\ Storage!Age(disk'[j]) >= Storage!Age(disk[j])
                        /\ disk'[j] = IF j = k /\ reaches THEN v ELSE disk[j]
  BY <1>0, <1>3, DiskWritten
<1>5. \A u \in VisitTab, j \in Key : ~unavailable'[u] =>
        Storage!Age(disk'[j]) >= IF u = t /\ j = k THEN Storage!Age(v) ELSE Storage!Age(latest[u][j])
  <2> SUFFICES ASSUME NEW u \in VisitTab, NEW j \in Key, ~unavailable'[u]
               PROVE  Storage!Age(disk'[j]) >= IF u = t /\ j = k THEN Storage!Age(v)
                                               ELSE Storage!Age(latest[u][j])
    OBVIOUS
  <2>0. Storage!Age(v) \in Int /\ Storage!Age(v) >= Storage!Age(v)
    BY <1>4 DEF StorageInv, EntriesTyped, WritesOn
  <2>1. CASE u = t /\ j = k
    BY <1>1, <1>2, <1>4, <2>0, <2>1
  <2>2. CASE ~(u = t /\ j = k)
    <3>1. Storage!Age(disk[j]) >= Storage!Age(latest[u][j])
      BY <1>1 DEF StorageInv, StorageIsAhead
    <3>2. Storage!Age(disk[j]) \in Int /\ Storage!Age(latest[u][j]) \in Int
      BY EntriesAreOlder DEF Storage!Tab
    <3>3. Storage!Age(disk'[j]) \in Int
      <4>1. disk'[j] \in {v, disk[j]}
        BY <1>4
      <4> QED BY <2>0, <3>2, <4>1
    <3>4. Storage!Age(disk'[j]) >= Storage!Age(disk[j])
      BY <1>4
    <3>5. Storage!Age(disk'[j]) >= Storage!Age(latest[u][j])
      BY ONLY <3>1, <3>2, <3>3, <3>4
    <3> QED BY <2>2, <3>5
  <2> QED BY <2>1, <2>2
<1> QED BY <1>1, <1>4, <1>5

LEMMA StillStorageInv ==
  ASSUME StorageInv, UNCHANGED <<disk, memory, unavailable, writes, latest, answer>>
  PROVE  StorageInv'
<1>1. EntriesTyped'
  BY DEF StorageInv, EntriesTyped, Ages, Storage!Value, Storage!NoEntry
<1>2. EntriesAgree'
  BY DEF StorageInv, EntriesAgree, Storage!Value, Storage!NoEntry
<1>3. StorageIsAhead'
  BY DEF StorageInv, StorageIsAhead, Storage!Age
<1> QED BY <1>1, <1>2, <1>3 DEF StorageInv

\* A step of one tab with one key keeps the invariant.
LEMMA VisitStorageInv ==
  ASSUME Storage!BrowserStorageAssumption, StorageInv, NEW t \in VisitTab, NEW k \in Key,
         NEW fails \in BOOLEAN,
         \/ Storage!VisitReads(t, k) \/ Storage!VisitReadsMemory(t, k, fails)
         \/ Storage!VisitWrites(t, k, fails) \/ Storage!VisitRemoves(t, k, fails)
  PROVE  StorageInv'
<1>0. /\ writes \in Nat /\ MaxWrites \in Nat /\ writes <= MaxWrites /\ t \in Storage!Tab
      /\ t \notin PaymentTab
  BY DEF StorageInv, EntriesTyped, Storage!BrowserStorageAssumption, Storage!Tab
<1>1. CASE Storage!VisitReads(t, k)
  <2>0. writes' = writes /\ disk' = disk /\ unavailable' = unavailable /\ ~unavailable[t]
    BY <1>1 DEF Storage!VisitReads
  <2> DEFINE v == disk[k]
             m == IF Storage!Value(v) = Storage!Absent THEN Storage!NoEntry ELSE v
  <2>1. v \in Ages /\ Ages' = Ages
    BY <2>0 DEF StorageInv, EntriesTyped, Ages
  <2>2. v \in Int /\ v <= writes
    BY <1>0, <2>1 DEF Ages
  <2>3. m \in 1..writes \union {Storage!NoEntry} /\ Storage!Value(m) = Storage!Value(v)
    BY <1>0, <2>2 DEF Storage!Value, Storage!Absent, Storage!NoEntry
  <2>4. m \in Ages' \union {Storage!NoEntry}
    BY <1>0, <2>1, <2>3 DEF Ages
  <2>5. Storage!Remember(t, k, m) /\ Storage!Hears(t, k, v)
    BY <1>1 DEF Storage!VisitReads
  <2>6. disk' \in [Key -> Ages'] /\ unavailable' \in [VisitTab -> BOOLEAN] /\ writes' \in 0..MaxWrites
    BY <2>0, <2>1 DEF StorageInv, EntriesTyped
  <2>7. \A u \in VisitTab, j \in Key : ~unavailable'[u] =>
          Storage!Age(disk'[j]) >= IF u = t /\ j = k THEN Storage!Age(v) ELSE Storage!Age(latest[u][j])
    <3>1. Storage!Age(v) >= Storage!Age(v)
      BY <2>2 DEF Storage!Age
    <3> QED BY <2>0, <3>1 DEF StorageInv, StorageIsAhead
  <2>8. writes <= writes' /\ 1..writes = 1..writes'
    BY <1>0, <2>0
  <2> HIDE DEF v, m
  <2> QED BY <1>0, <2>1, <2>3, <2>4, <2>5, <2>6, <2>7, <2>8, EntryStorageInv
<1>2. CASE Storage!VisitReadsMemory(t, k, fails)
  <2>0. /\ UNCHANGED <<disk, memory, writes, latest>>
        /\ unavailable' = [unavailable EXCEPT ![t] = TRUE]
        /\ answer' = [answer EXCEPT ![t][k] = Storage!Value(memory[t][k])]
    BY <1>2 DEF Storage!VisitReadsMemory
  <2>1. answer' = answer
    <3>1. answer = [u \in Storage!Tab |-> [j \in Key |-> Storage!Value(latest[u][j])]]
      BY DEF StorageInv, EntriesTyped
    <3>2. Storage!Value(memory[t][k]) = answer[t][k]
      BY <1>0, <3>1 DEF StorageInv, EntriesAgree
    <3> QED BY <1>0, <2>0, <3>1, <3>2
  <2>2. Ages' = Ages
    BY <2>0 DEF Ages
  <2>3. unavailable' \in [VisitTab -> BOOLEAN] /\ \A u \in VisitTab : ~unavailable'[u] => ~unavailable[u]
    BY <2>0 DEF StorageInv, EntriesTyped
  <2>4. EntriesTyped'
    <3>1. answer' = [u \in Storage!Tab |-> [j \in Key |-> Storage!Value(latest[u][j])]]
      BY <2>1 DEF StorageInv, EntriesTyped
    <3>4. Storage!NoEntry' = Storage!NoEntry
      BY DEF Storage!NoEntry
    <3>5. /\ disk' \in [Key -> Ages'] /\ writes' \in 0..MaxWrites
          /\ memory' \in [Storage!Tab -> [Key -> Ages' \union {Storage!NoEntry}]]
          /\ latest' \in [Storage!Tab -> [Key -> Ages']]
      BY <2>0, <2>2 DEF StorageInv, EntriesTyped
    <3>6. answer' = [u \in Storage!Tab |-> [j \in Key |-> Storage!Value(latest'[u][j])]]
      BY <2>0, <3>1
    <3> QED BY <2>3, <3>4, <3>5, <3>6 DEF EntriesTyped, Storage!Value, Storage!NoEntry
  <2>5. EntriesAgree'
    BY <2>0 DEF StorageInv, EntriesAgree, Storage!Value, Storage!NoEntry
  <2>6. StorageIsAhead'
    BY <2>0, <2>3 DEF StorageInv, StorageIsAhead
  <2> QED BY <2>4, <2>5, <2>6 DEF StorageInv
<1>3. CASE Storage!VisitWrites(t, k, fails)
  <2>0. /\ writes' = writes + 1 /\ writes < MaxWrites
        /\ Storage!Remember(t, k, writes') /\ Storage!Hears(t, k, writes')
        /\ Storage!Written(k, writes', ~fails /\ ~unavailable[t])
        /\ unavailable' = [unavailable EXCEPT ![t] = @ \/ fails]
    BY <1>3 DEF Storage!VisitWrites, Storage!AfterWrite
  <2>1. WritesOn(t, k, writes', fails)
    BY <2>0 DEF WritesOn
  <2>2. /\ writes' \in 0..MaxWrites /\ writes <= writes' /\ writes' \in Ages'
        /\ writes' \in 1..writes' /\ writes' # Storage!NoEntry
    BY <1>0, <2>0 DEF Ages, Storage!NoEntry
  <2>3. /\ disk' \in [Key -> Ages'] /\ unavailable' \in [VisitTab -> BOOLEAN]
        /\ \A u \in VisitTab, j \in Key : ~unavailable'[u] =>
             Storage!Age(disk'[j]) >= IF u = t /\ j = k THEN Storage!Age(writes') ELSE Storage!Age(latest[u][j])
    BY <1>0, <2>0, <2>1, VisitWritesOn
  <2> QED BY <1>0, <2>0, <2>2, <2>3, EntryStorageInv
<1>4. CASE Storage!VisitRemoves(t, k, fails)
  <2>0. /\ writes' = writes + 1 /\ writes < MaxWrites
        /\ Storage!Remember(t, k, Storage!NoEntry) /\ Storage!Hears(t, k, -writes')
        /\ Storage!Written(k, -writes', ~fails /\ ~unavailable[t])
        /\ unavailable' = [unavailable EXCEPT ![t] = @ \/ fails]
    BY <1>4 DEF Storage!VisitRemoves, Storage!AfterWrite
  <2>1. WritesOn(t, k, -writes', fails)
    BY <2>0 DEF WritesOn
  <2>2. /\ writes' \in 0..MaxWrites /\ writes <= writes' /\ -writes' \in Ages'
        /\ Storage!Value(Storage!NoEntry) = Storage!Value(-writes')
    BY <1>0, <2>0 DEF Ages, Storage!NoEntry, Storage!Value, Storage!Absent
  <2>3. /\ disk' \in [Key -> Ages'] /\ unavailable' \in [VisitTab -> BOOLEAN]
        /\ \A u \in VisitTab, j \in Key : ~unavailable'[u] =>
             Storage!Age(disk'[j]) >= IF u = t /\ j = k THEN Storage!Age(-writes') ELSE Storage!Age(latest[u][j])
    BY <1>0, <2>0, <2>1, VisitWritesOn
  <2> QED BY <1>0, <2>0, <2>2, <2>3, EntryStorageInv
<1> QED BY <1>1, <1>2, <1>3, <1>4

\* A checkout's write or removal, of which no visit has heard.
LEMMA CheckoutChanges ==
  ASSUME Storage!BrowserStorageAssumption, StorageInv, NEW t \in PaymentTab, NEW k \in Key,
         NEW v \in {writes + 1, -(writes + 1)}, NEW fails \in BOOLEAN,
         writes < MaxWrites, writes' = writes + 1, UNCHANGED unavailable,
         Storage!Remember(t, k, v), Storage!Hears(t, k, v), Storage!Written(k, v, ~fails)
  PROVE  StorageInv'
<1>0. /\ writes \in Nat /\ MaxWrites \in Nat /\ t \in Storage!Tab /\ t \notin VisitTab
      /\ unavailable \in [VisitTab -> BOOLEAN]
  BY DEF StorageInv, EntriesTyped, Storage!BrowserStorageAssumption, Storage!Tab
<1>1. PICK reaches \in BOOLEAN : reaches = ~fails
  OBVIOUS
<1>2. Storage!Written(k, v, reaches)
  BY <1>1
<1>3. /\ disk' \in [Key -> Ages'] /\ Storage!Age(v) = writes'
      /\ \A j \in Key : Storage!Age(disk'[j]) >= Storage!Age(disk[j])
      /\ \A j \in Key : disk'[j] \in {v, disk[j]}
  BY <1>2, DiskWritten
<1>4. writes' \in 0..MaxWrites /\ writes <= writes' /\ v \in Ages' /\ v # Storage!NoEntry
  BY <1>0 DEF Ages, Storage!NoEntry
<1>5. \A u \in VisitTab, j \in Key : ~unavailable'[u] =>
        Storage!Age(disk'[j]) >= IF u = t /\ j = k THEN Storage!Age(v) ELSE Storage!Age(latest[u][j])
  <2> SUFFICES ASSUME NEW u \in VisitTab, NEW j \in Key, ~unavailable[u]
               PROVE  Storage!Age(disk'[j]) >= Storage!Age(latest[u][j])
    BY <1>0
  <2>1. Storage!Age(disk[j]) >= Storage!Age(latest[u][j])
    BY DEF StorageInv, StorageIsAhead
  <2>2. Storage!Age(disk[j]) \in Int /\ Storage!Age(latest[u][j]) \in Int
    BY EntriesAreOlder DEF Storage!Tab
  <2>3. Storage!Age(disk'[j]) \in Int
    BY <1>0, <1>3, <2>2
  <2>4. Storage!Age(disk'[j]) >= Storage!Age(disk[j])
    BY <1>3
  <2> QED BY ONLY <2>1, <2>2, <2>3, <2>4
<1>6. unavailable' \in [VisitTab -> BOOLEAN]
  BY <1>0
<1> QED BY <1>0, <1>3, <1>4, <1>5, <1>6, EntryStorageInv

LEMMA CheckoutStorageInv ==
  ASSUME Storage!BrowserStorageAssumption, StorageInv, NEW t \in PaymentTab, NEW k \in Key,
         NEW fails \in BOOLEAN,
         \/ Storage!CheckoutReads(t, k) \/ Storage!CheckoutReadsMemory(t, k)
         \/ Storage!CheckoutWrites(t, k, fails) \/ Storage!CheckoutRemoves(t, k, fails)
  PROVE  StorageInv'
<1>0. /\ writes \in Nat /\ MaxWrites \in Nat /\ writes <= MaxWrites /\ t \in Storage!Tab
      /\ t \notin VisitTab /\ unavailable \in [VisitTab -> BOOLEAN]
  BY DEF StorageInv, EntriesTyped, Storage!BrowserStorageAssumption, Storage!Tab
<1>1. CASE Storage!CheckoutReads(t, k)
  <2>0. writes' = writes /\ disk' = disk /\ unavailable' = unavailable
    BY <1>1 DEF Storage!CheckoutReads
  <2> DEFINE v == disk[k]
  <2>1. v \in Ages /\ Ages' = Ages
    BY <2>0 DEF StorageInv, EntriesTyped, Ages
  <2>2. v \in Int /\ v # Storage!NoEntry
    BY <1>0, <2>1 DEF Ages, Storage!NoEntry
  <2>3. Storage!Remember(t, k, v) /\ Storage!Hears(t, k, v)
    BY <1>1 DEF Storage!CheckoutReads
  <2>4. disk' \in [Key -> Ages'] /\ unavailable' \in [VisitTab -> BOOLEAN] /\ writes' \in 0..MaxWrites
    BY <1>0, <2>0, <2>1 DEF StorageInv, EntriesTyped
  <2>5. \A u \in VisitTab, j \in Key : ~unavailable'[u] =>
          Storage!Age(disk'[j]) >= IF u = t /\ j = k THEN Storage!Age(v) ELSE Storage!Age(latest[u][j])
    BY <1>0, <2>0 DEF StorageInv, StorageIsAhead
  <2>6. writes <= writes' /\ v \in Ages'
    BY <1>0, <2>0, <2>1
  <2> HIDE DEF v
  <2> QED BY <1>0, <2>2, <2>3, <2>4, <2>5, <2>6, EntryStorageInv
<1>2. CASE Storage!CheckoutReadsMemory(t, k)
  <2>0. /\ UNCHANGED <<disk, memory, writes, latest>> /\ unavailable' = unavailable
        /\ answer' = [answer EXCEPT ![t][k] = Storage!Value(memory[t][k])]
    BY <1>2 DEF Storage!CheckoutReadsMemory
  <2>1. answer' = answer
    <3>1. answer = [u \in Storage!Tab |-> [j \in Key |-> Storage!Value(latest[u][j])]]
      BY DEF StorageInv, EntriesTyped
    <3>2. Storage!Value(memory[t][k]) = answer[t][k]
      BY <1>0, <3>1 DEF StorageInv, EntriesAgree
    <3> QED BY <1>0, <2>0, <3>1, <3>2
  <2>2. UNCHANGED <<disk, memory, unavailable, writes, latest, answer>>
    BY <2>0, <2>1
  <2> QED BY <2>2, StillStorageInv
<1>3. CASE Storage!CheckoutWrites(t, k, fails)
  <2> DEFINE v == writes + 1
  <2>1. /\ writes' = writes + 1 /\ writes < MaxWrites /\ UNCHANGED unavailable
        /\ Storage!Remember(t, k, v) /\ Storage!Hears(t, k, v) /\ Storage!Written(k, v, ~fails)
    BY <1>3 DEF Storage!CheckoutWrites
  <2>2. v \in {writes + 1, -(writes + 1)}
    OBVIOUS
  <2> HIDE DEF v
  <2> QED BY <2>1, <2>2, CheckoutChanges
<1>4. CASE Storage!CheckoutRemoves(t, k, fails)
  <2> DEFINE v == -(writes + 1)
  <2>1. /\ writes' = writes + 1 /\ writes < MaxWrites /\ UNCHANGED unavailable
        /\ Storage!Remember(t, k, v) /\ Storage!Hears(t, k, v) /\ Storage!Written(k, v, ~fails)
    BY <1>4 DEF Storage!CheckoutRemoves
  <2>2. v \in {writes + 1, -(writes + 1)}
    OBVIOUS
  <2> HIDE DEF v
  <2> QED BY <2>1, <2>2, CheckoutChanges
<1> QED BY <1>1, <1>2, <1>3, <1>4

LEMMA ReloadStorageInv ==
  ASSUME Storage!BrowserStorageAssumption, StorageInv, NEW t \in Storage!Tab, Storage!Reload(t)
  PROVE  StorageInv'
<1>0. /\ writes \in Nat /\ UNCHANGED <<disk, writes>>
      /\ memory' = [memory EXCEPT ![t] = [k \in Key |-> Storage!NoEntry]]
      /\ latest' = [latest EXCEPT ![t] = [k \in Key |-> 0]]
      /\ answer' = [answer EXCEPT ![t] = [k \in Key |-> 0]]
      /\ unavailable' = [v \in VisitTab |-> unavailable[v] /\ v # t]
  BY DEF StorageInv, EntriesTyped, Storage!Reload, Storage!Absent
<1>1. 0 \in Ages /\ Ages' = Ages
  BY <1>0 DEF Ages
<1>2. Storage!Value(Storage!NoEntry) = 0 /\ Storage!Value(0) = 0 /\ Storage!Age(0) = 0
  BY DEF Storage!Value, Storage!NoEntry, Storage!Absent, Storage!Age
<1>3. /\ memory \in [Storage!Tab -> [Key -> Ages \union {Storage!NoEntry}]]
      /\ latest \in [Storage!Tab -> [Key -> Ages]]
      /\ answer = [u \in Storage!Tab |-> [k \in Key |-> Storage!Value(latest[u][k])]]
  BY DEF StorageInv, EntriesTyped
<1>4. \A u \in Storage!Tab, k \in Key :
        /\ memory'[u][k] = IF u = t THEN Storage!NoEntry ELSE memory[u][k]
        /\ latest'[u][k] = IF u = t THEN 0 ELSE latest[u][k]
  BY <1>0, <1>3
<1>5. EntriesTyped'
  <2>1. answer' = [u \in Storage!Tab |-> [k \in Key |-> Storage!Value(latest'[u][k])]]
    BY <1>0, <1>2, <1>3
  <2>2. /\ memory' \in [Storage!Tab -> [Key -> Ages \union {Storage!NoEntry}]]
        /\ latest' \in [Storage!Tab -> [Key -> Ages]]
    BY <1>0, <1>1, <1>3
  <2>3. disk' \in [Key -> Ages] /\ unavailable' \in [VisitTab -> BOOLEAN] /\ writes' \in 0..MaxWrites
    BY <1>0 DEF StorageInv, EntriesTyped
  <2> QED BY <1>1, <2>1, <2>2, <2>3 DEF EntriesTyped, Storage!Value, Storage!NoEntry
<1>6. EntriesAgree'
  <2>1. \A u \in Storage!Tab, k \in Key : Storage!Value(memory'[u][k]) = Storage!Value(latest'[u][k])
    BY <1>2, <1>4 DEF StorageInv, EntriesAgree
  <2>2. \A u \in VisitTab, k \in Key : memory'[u][k] \in 1..writes' \union {Storage!NoEntry}
    BY <1>0, <1>4 DEF StorageInv, EntriesAgree, Storage!Tab
  <2>3. \A u \in PaymentTab, k \in Key : memory'[u][k] = Storage!NoEntry => latest'[u][k] = 0
    BY <1>4 DEF StorageInv, EntriesAgree, Storage!Tab
  <2> QED BY <2>1, <2>2, <2>3 DEF EntriesAgree, Storage!Value, Storage!NoEntry
<1>7. StorageIsAhead'
  <2> SUFFICES ASSUME NEW u \in VisitTab, NEW k \in Key, ~unavailable'[u]
               PROVE  Storage!Age(disk[k]) >= Storage!Age(latest'[u][k])
    BY <1>0 DEF StorageIsAhead, Storage!Age
  <2>1. CASE u = t
    <3>1. Storage!Age(disk[k]) \in 0..writes
      BY EntriesAreOlder
    <3>2. Storage!Age(latest'[u][k]) = 0
      BY <1>2, <1>4, <2>1
    <3> QED BY <1>0, <3>1, <3>2
  <2>2. CASE u # t
    <3>1. unavailable'[u] = unavailable[u]
      <4>1. unavailable[u] \in BOOLEAN
        BY DEF StorageInv, EntriesTyped
      <4> QED BY <1>0, <2>2, <4>1
    <3>2. latest'[u][k] = latest[u][k]
      BY <1>4, <2>2 DEF Storage!Tab
    <3>3. ~unavailable[u] => Storage!Age(disk[k]) >= Storage!Age(latest[u][k])
      BY DEF StorageInv, StorageIsAhead
    <3> QED BY <3>1, <3>2, <3>3
  <2> QED BY <2>1, <2>2
<1> QED BY <1>5, <1>6, <1>7 DEF StorageInv

LEMMA NextStorageInv ==
  ASSUME Storage!BrowserStorageAssumption, StorageInv, [Storage!Next]_(Storage!vars)
  PROVE  StorageInv'
<1>1. CASE \E t \in VisitTab, k \in Key :
             \/ Storage!VisitReads(t, k)
             \/ \E fails \in BOOLEAN :
                  \/ Storage!VisitReadsMemory(t, k, fails)
                  \/ Storage!VisitWrites(t, k, fails) \/ Storage!VisitRemoves(t, k, fails)
  BY <1>1, VisitStorageInv
<1>2. CASE \E t \in PaymentTab, k \in Key :
             \/ Storage!CheckoutReads(t, k) \/ Storage!CheckoutReadsMemory(t, k)
             \/ \E fails \in BOOLEAN :
                  Storage!CheckoutWrites(t, k, fails) \/ Storage!CheckoutRemoves(t, k, fails)
  BY <1>2, CheckoutStorageInv
<1>3. CASE \E t \in Storage!Tab : Storage!Reload(t)
  BY <1>3, ReloadStorageInv
<1>4. CASE UNCHANGED Storage!vars
  BY <1>4, StillStorageInv DEF Storage!vars
<1> QED BY <1>1, <1>2, <1>3, <1>4 DEF Storage!Next

LEMMA AnsweredLatest ==
  ASSUME StorageInv
  PROVE  Storage!AnswersAreLatest
BY DEF StorageInv, EntriesTyped, Storage!AnswersAreLatest

LEMMA StorageTyped ==
  ASSUME Storage!BrowserStorageAssumption, StorageInv
  PROVE  Storage!TypeOK
<1>0. writes \in Nat /\ MaxWrites \in Nat /\ writes \in 0..MaxWrites
  BY DEF StorageInv, EntriesTyped, Storage!BrowserStorageAssumption
<1>1. Ages = Storage!Stored
  BY DEF Ages, Storage!Stored
<1>2. \A n \in Ages : Storage!Value(n) \in 0..writes
  BY <1>0 DEF Ages, Storage!Value, Storage!Absent
<1>3. answer \in [Storage!Tab -> [Key -> 0..writes]]
  BY <1>2 DEF StorageInv, EntriesTyped
<1>4. \A t \in PaymentTab, k \in Key : memory[t][k] \in Storage!Stored \union {Storage!NoEntry}
  BY <1>1 DEF StorageInv, EntriesTyped, Storage!Tab
<1>5. \A t \in VisitTab, k \in Key : memory[t][k] \in 1..writes \union {Storage!NoEntry}
  BY DEF StorageInv, EntriesAgree
<1> QED BY <1>0, <1>1, <1>3, <1>4, <1>5 DEF StorageInv, EntriesTyped, Storage!TypeOK

\* What a step tells a tab: nothing, or of one key; of a visit what the storage keeps, of a
\* checkout that only if it has asked nothing yet; or what the step writes or removes.
LEMMA StorageTells ==
  ASSUME Storage!BrowserStorageAssumption, StorageInv, Storage!Next,
         NEW t \in Storage!Tab, NEW k \in Key, ~Storage!Reload(t)
  PROVE  \/ latest'[t][k] \in {latest[t][k], writes + 1, -(writes + 1)}
         \/ t \in VisitTab /\ ~unavailable[t] /\ latest'[t][k] = disk[k]
         \/ t \in PaymentTab /\ memory[t][k] = Storage!NoEntry
<1>0. latest \in [Storage!Tab -> [Key -> Ages]]
  BY DEF StorageInv, EntriesTyped
<1>1. \A u \in Storage!Tab, j \in Key : \A l : Storage!Hears(u, j, l) =>
        latest'[t][k] = IF u = t /\ j = k THEN l ELSE latest[t][k]
  BY <1>0 DEF Storage!Hears
<1>2. ASSUME NEW u \in VisitTab, NEW j \in Key, NEW fails \in BOOLEAN,
             \/ Storage!VisitReads(u, j) \/ Storage!VisitReadsMemory(u, j, fails)
             \/ Storage!VisitWrites(u, j, fails) \/ Storage!VisitRemoves(u, j, fails)
      PROVE  \/ latest'[t][k] \in {latest[t][k], writes + 1, -(writes + 1)}
             \/ t \in VisitTab /\ ~unavailable[t] /\ latest'[t][k] = disk[k]
  <2>0. u \in Storage!Tab
    BY DEF Storage!Tab
  <2>1. CASE Storage!VisitReads(u, j)
    BY <1>1, <2>0, <2>1 DEF Storage!VisitReads
  <2>2. CASE Storage!VisitReadsMemory(u, j, fails)
    BY <2>2 DEF Storage!VisitReadsMemory
  <2>3. CASE Storage!VisitWrites(u, j, fails)
    BY <1>1, <2>0, <2>3 DEF Storage!VisitWrites
  <2>4. CASE Storage!VisitRemoves(u, j, fails)
    BY <1>1, <2>0, <2>4 DEF Storage!VisitRemoves
  <2> QED BY <1>2, <2>1, <2>2, <2>3, <2>4
<1>3. ASSUME NEW u \in PaymentTab, NEW j \in Key, NEW fails \in BOOLEAN,
             \/ Storage!CheckoutReads(u, j) \/ Storage!CheckoutReadsMemory(u, j)
             \/ Storage!CheckoutWrites(u, j, fails) \/ Storage!CheckoutRemoves(u, j, fails)
      PROVE  \/ latest'[t][k] \in {latest[t][k], writes + 1, -(writes + 1)}
             \/ t \in PaymentTab /\ memory[t][k] = Storage!NoEntry
  <2>0. u \in Storage!Tab
    BY DEF Storage!Tab
  <2>1. CASE Storage!CheckoutReads(u, j)
    BY <1>1, <2>0, <2>1 DEF Storage!CheckoutReads, Storage!AsksStorage
  <2>2. CASE Storage!CheckoutReadsMemory(u, j)
    BY <2>2 DEF Storage!CheckoutReadsMemory
  <2>3. CASE Storage!CheckoutWrites(u, j, fails)
    BY <1>1, <2>0, <2>3 DEF Storage!CheckoutWrites
  <2>4. CASE Storage!CheckoutRemoves(u, j, fails)
    BY <1>1, <2>0, <2>4 DEF Storage!CheckoutRemoves
  <2> QED BY <1>3, <2>1, <2>2, <2>3, <2>4
<1>4. ASSUME NEW u \in Storage!Tab, Storage!Reload(u)
      PROVE  latest'[t][k] = latest[t][k]
  BY <1>0, <1>4 DEF Storage!Reload
<1> QED BY <1>2, <1>3, <1>4 DEF Storage!Next

LEMMA NothingOlder ==
  ASSUME Storage!BrowserStorageAssumption, StorageInv, Storage!Next
  PROVE  Storage!NeverAnOlderValue
<1> SUFFICES ASSUME NEW t \in Storage!Tab, NEW k \in Key, ~Storage!Reload(t)
             PROVE  Storage!Age(latest'[t][k]) >= Storage!Age(latest[t][k])
  BY DEF Storage!NeverAnOlderValue
<1>0. writes \in Nat /\ latest[t][k] \in Int /\ Storage!Age(latest[t][k]) \in 0..writes
  BY EntriesAreOlder DEF StorageInv, EntriesTyped
<1>1. CASE latest'[t][k] \in {latest[t][k], writes + 1, -(writes + 1)}
  BY <1>0, <1>1 DEF Storage!Age
<1>2. CASE t \in VisitTab /\ ~unavailable[t] /\ latest'[t][k] = disk[k]
  BY <1>2 DEF StorageInv, StorageIsAhead
<1>3. CASE t \in PaymentTab /\ memory[t][k] = Storage!NoEntry
  <2>1. latest[t][k] = 0
    BY <1>3 DEF StorageInv, EntriesAgree
  <2>2. StorageInv'
    BY NextStorageInv
  <2>3. latest'[t][k] \in Int
    <3>1. writes' \in Nat /\ latest' \in [Storage!Tab -> [Key -> Ages']]
      BY <2>2 DEF StorageInv, EntriesTyped
    <3>2. latest'[t][k] \in Ages'
      BY <3>1
    <3> QED BY <3>1, <3>2 DEF Ages
  <2> QED BY <2>1, <2>3 DEF Storage!Age
<1> QED BY <1>1, <1>2, <1>3, StorageTells

LEMMA IdentityKept ==
  ASSUME Storage!BrowserStorageAssumption, StorageInv, Storage!Next
  PROVE  Storage!CheckoutKeepsItsIdentity
<1> SUFFICES ASSUME NEW t \in PaymentTab, NEW k \in Key, memory[t][k] # Storage!NoEntry,
                    ~Storage!Reload(t)
             PROVE  latest'[t][k] \in {latest[t][k], writes + 1, -(writes + 1)}
  BY DEF Storage!CheckoutKeepsItsIdentity
<1>1. t \in Storage!Tab /\ t \notin VisitTab
  BY DEF Storage!Tab, Storage!BrowserStorageAssumption
<1> QED BY <1>1, StorageTells

-----------------------------------------------------------------------------
(* ShoppingBag *)

\* The bag holds no more lines and no more of one than a stored bag may, and is
\* stored as it is; the page knows the stock it was loaded with, or none.
LinesFit ==
  /\ DOMAIN cart \in SUBSET Variant /\ cart \in [DOMAIN cart -> 1..MaxQuantity]
  /\ IsFiniteSet(DOMAIN cart) /\ Cardinality(DOMAIN cart) <= MaxLines
  /\ disk = cart
PageTyped ==
  /\ shown \in [variant : Variant, available : {Bag!Unanswered} \union 0..MaxStock]
  /\ requested \in 1..MaxQuantity /\ target \in Variant \union {NoTarget}
  /\ stock \in [Variant -> 0..MaxStock] /\ found \in 0..MaxStock
  /\ shown.available \in {Bag!Unanswered, found}
BagInv == LinesFit /\ PageTyped

LEMMA BagCounts == \A S : Bag!Cardinality(S) = Cardinality(S)
BY DEF Bag!Cardinality, Cardinality

LEMMA BagBounds ==
  ASSUME Bag!ShoppingBagAssumption
  PROVE  MaxQuantity \in Nat \ {0} /\ MaxLines \in Nat \ {0} /\ MaxStock \in Nat \ {0}
BY DEF Bag!ShoppingBagAssumption

LEMMA EmptyFits ==
  /\ DOMAIN Bag!Empty = {} /\ Bag!Empty \in [{} -> 1..MaxQuantity]
  /\ IsFiniteSet(DOMAIN Bag!Empty) /\ Cardinality(DOMAIN Bag!Empty) = 0
<1>1. DOMAIN Bag!Empty = {} /\ Bag!Empty \in [{} -> 1..MaxQuantity]
  BY DEF Bag!Empty
<1>2. IsFiniteSet({}) /\ Cardinality({}) = 0
  BY FS_EmptySet
<1> QED BY <1>1, <1>2

LEMMA InitBagInv ==
  ASSUME Bag!ShoppingBagAssumption, Bag!Init
  PROVE  BagInv
<1> USE DEF Bag!Init
<1>1. LinesFit
  BY EmptyFits, BagBounds DEF LinesFit
<1>2. PageTyped
  <2>1. stock \in [Variant -> 0..MaxStock] /\ requested \in 1..MaxQuantity /\ target = NoTarget
    BY BagBounds
  <2>2. PICK v \in Variant : shown = [variant |-> v, available |-> stock[v]] /\ found = stock[v]
    OBVIOUS
  <2> QED BY <2>1, <2>2 DEF PageTyped
<1> QED BY <1>1, <1>2 DEF BagInv

\* A line is set.
LEMMA LineSet ==
  ASSUME Bag!ShoppingBagAssumption, LinesFit, NEW v \in Variant, NEW n \in 1..MaxQuantity,
         v \in DOMAIN cart \/ Cardinality(DOMAIN cart) < MaxLines, Bag!Keep(Bag!SetLine(v, n))
  PROVE  /\ LinesFit' /\ DOMAIN cart' = (DOMAIN cart) \union {v}
         /\ \A w \in DOMAIN cart' : cart'[w] = IF w = v THEN n ELSE cart[w]
<1>1. /\ cart' = [w \in (DOMAIN cart) \union {v} |-> IF w = v THEN n ELSE cart[w]]
      /\ disk' = cart'
  BY DEF Bag!Keep, Bag!SetLine
<1>2. /\ DOMAIN cart' = (DOMAIN cart) \union {v} /\ cart' \in [DOMAIN cart' -> 1..MaxQuantity]
      /\ \A w \in DOMAIN cart' : cart'[w] = IF w = v THEN n ELSE cart[w]
  BY <1>1 DEF LinesFit
<1>3. IsFiniteSet(DOMAIN cart) /\ Cardinality(DOMAIN cart) \in Nat
  BY FS_CardinalityType DEF LinesFit
<1>4. /\ IsFiniteSet(DOMAIN cart')
      /\ Cardinality(DOMAIN cart') = Cardinality(DOMAIN cart) + (IF v \in DOMAIN cart THEN 0 ELSE 1)
  <2>1. CASE v \in DOMAIN cart
    <3>1. DOMAIN cart' = DOMAIN cart
      BY <1>2, <2>1
    <3> QED BY <1>3, <2>1, <3>1
  <2>2. CASE v \notin DOMAIN cart
    BY <1>2, <1>3, <2>2, FS_AddElement
  <2> QED BY <2>1, <2>2
<1>5. Cardinality(DOMAIN cart') <= MaxLines
  BY <1>3, <1>4, BagBounds DEF LinesFit
<1>6. DOMAIN cart' \in SUBSET Variant
  BY <1>2 DEF LinesFit
<1> QED BY <1>1, <1>2, <1>4, <1>5, <1>6 DEF LinesFit

\* And added to.
LEMMA LineAdded ==
  ASSUME Bag!ShoppingBagAssumption, LinesFit, NEW v \in Variant, NEW n, Bag!AddToCart(v, n)
  PROVE  /\ LinesFit' /\ n \in 1..MaxQuantity
         /\ \A w \in Variant : Bag!In(cart', w) = Bag!In(cart, w) + (IF w = v THEN n ELSE 0)
<1>0. /\ n \in 1..MaxQuantity /\ MaxQuantity \in Nat
      /\ \A w \in DOMAIN cart : cart[w] \in 1..MaxQuantity
  BY BagBounds DEF Bag!AddToCart, Bag!Fits, LinesFit
<1> DEFINE m == IF v \in DOMAIN cart THEN cart[v] + n ELSE n
<1>1. m \in 1..MaxQuantity
  BY <1>0 DEF Bag!AddToCart, Bag!Fits
<1>2. v \in DOMAIN cart \/ Cardinality(DOMAIN cart) < MaxLines
  BY BagCounts DEF Bag!AddToCart, Bag!Fits
<1>3. Bag!Keep(Bag!SetLine(v, m))
  BY DEF Bag!AddToCart
<1> HIDE DEF m
<1>4. /\ LinesFit' /\ DOMAIN cart' = (DOMAIN cart) \union {v}
      /\ \A w \in DOMAIN cart' : cart'[w] = IF w = v THEN m ELSE cart[w]
  BY <1>1, <1>2, <1>3, LineSet
<1>5. ASSUME NEW w \in Variant
      PROVE  Bag!In(cart', w) = Bag!In(cart, w) + (IF w = v THEN n ELSE 0)
  BY <1>0, <1>4 DEF Bag!In, m
<1> QED BY <1>0, <1>4, <1>5

\* What is shown allows no more than the bag does.
LEMMA ShownQuantity ==
  ASSUME Bag!ShoppingBagAssumption, PageTyped
  PROVE  /\ Bag!MaxShown \in 0..MaxQuantity /\ Bag!Quantity \in 1..MaxQuantity
         /\ requested \in Nat /\ MaxQuantity \in Nat
<1>1. /\ shown.available \in Int /\ requested \in 1..MaxQuantity /\ MaxQuantity \in Nat
  BY BagBounds DEF PageTyped, Bag!Unanswered
<1>2. Bag!MaxShown \in 0..MaxQuantity
  BY <1>1 DEF Bag!MaxShown, Bag!Least, Bag!Most
<1>3. Bag!Quantity \in 1..MaxQuantity
  BY <1>1, <1>2 DEF Bag!Quantity, Bag!Least, Bag!Most
<1> QED BY <1>1, <1>2, <1>3

\* The stored bag is what it was.
LEMMA BagParses ==
  ASSUME LinesFit
  PROVE  Bag!Parses(disk)
<1>1. disk = cart /\ cart \in [DOMAIN cart -> 1..MaxQuantity] /\ Cardinality(DOMAIN disk) <= MaxLines
  BY DEF LinesFit
<1> QED BY <1>1, BagCounts DEF Bag!Parses, Bag!Range

LEMMA NextLinesFit ==
  ASSUME Bag!ShoppingBagAssumption, BagInv, [Bag!Next]_(Bag!vars)
  PROVE  LinesFit'
<1> USE DEF BagInv
<1>1. ASSUME UNCHANGED <<cart, disk>>
      PROVE  LinesFit'
  BY <1>1 DEF LinesFit
<1>2. CASE Bag!AddShown
  <2>1. shown.variant \in Variant
    BY DEF PageTyped
  <2> QED BY <1>2, <2>1, LineAdded DEF Bag!AddShown
<1>3. ASSUME NEW v \in Variant, Bag!AddFromCard(v) PROVE LinesFit'
  BY <1>3, LineAdded DEF Bag!AddFromCard
<1>4. ASSUME NEW v \in Variant, Bag!ChangeQuantity(v) PROVE LinesFit'
  <2>1. v \in DOMAIN cart
    BY <1>4 DEF Bag!ChangeQuantity
  <2>2. PICK n \in 1..MaxQuantity : Bag!Keep(Bag!SetLine(v, n))
    BY <1>4 DEF Bag!ChangeQuantity
  <2> QED BY <2>1, <2>2, LineSet
<1>5. ASSUME NEW v \in Variant, v \in DOMAIN cart, Bag!RemoveFromCart(v) PROVE LinesFit'
  <2>1. cart' = [w \in (DOMAIN cart) \ {v} |-> cart[w]] /\ disk' = cart'
    BY <1>5 DEF Bag!RemoveFromCart, Bag!Keep, Bag!Restrict
  <2>2. DOMAIN cart' = (DOMAIN cart) \ {v} /\ cart' \in [DOMAIN cart' -> 1..MaxQuantity]
    BY <2>1 DEF LinesFit
  <2>3. IsFiniteSet(DOMAIN cart) /\ Cardinality(DOMAIN cart) \in Nat
    BY FS_CardinalityType DEF LinesFit
  <2>4. IsFiniteSet(DOMAIN cart') /\ Cardinality(DOMAIN cart') = Cardinality(DOMAIN cart) - 1
    BY <1>5, <2>2, <2>3, FS_RemoveElement
  <2>5. Cardinality(DOMAIN cart') <= MaxLines /\ DOMAIN cart' \in SUBSET Variant
    BY <2>2, <2>3, <2>4, BagBounds DEF LinesFit
  <2> QED BY <2>1, <2>2, <2>4, <2>5 DEF LinesFit
<1>6. CASE Bag!Reload
  <2>1. cart' = cart /\ disk' = disk
    BY <1>6, BagParses DEF Bag!Reload, LinesFit
  <2> QED BY <1>1, <2>1
<1>7. CASE Bag!Clear
  <2>1. cart' = Bag!Empty /\ disk' = cart'
    BY <1>7 DEF Bag!Clear, Bag!Keep
  <2> QED BY <2>1, EmptyFits, BagBounds DEF LinesFit
<1>8. CASE Bag!Increment \/ Bag!Decrement \/ Bag!Loaded \/ \E v \in Variant : Bag!Choose(v) \/ Bag!Sell(v)
  BY <1>1, <1>8 DEF Bag!Increment, Bag!Decrement, Bag!Loaded, Bag!Choose, Bag!Sell
<1>9. CASE UNCHANGED Bag!vars
  BY <1>1, <1>9 DEF Bag!vars
<1> QED BY <1>2, <1>3, <1>4, <1>5, <1>6, <1>7, <1>8, <1>9 DEF Bag!Next, Bag!Edit

LEMMA NextPageTyped ==
  ASSUME Bag!ShoppingBagAssumption, BagInv, [Bag!Next]_(Bag!vars)
  PROVE  PageTyped'
<1> USE DEF BagInv
<1>0. /\ shown.variant \in Variant /\ stock \in [Variant -> 0..MaxStock]
      /\ shown \in [variant : Variant, available : {Bag!Unanswered} \union 0..MaxStock]
      /\ requested \in 1..MaxQuantity /\ target \in Variant \union {NoTarget} /\ 1 \in 1..MaxQuantity
  BY BagBounds DEF PageTyped
<1>1. ASSUME UNCHANGED <<shown, requested, target, stock, found>>
      PROVE  PageTyped'
  BY <1>1 DEF PageTyped, Bag!Unanswered
<1>2. CASE Bag!Increment \/ Bag!Decrement
  <2>1. UNCHANGED <<shown, target, stock, found>>
    BY <1>2 DEF Bag!Increment, Bag!Decrement
  <2>2. requested' \in 1..MaxQuantity
    BY <1>0, <1>2, ShownQuantity DEF Bag!Increment, Bag!Decrement, Bag!Least, Bag!Most
  <2> QED BY <2>1, <2>2 DEF PageTyped, Bag!Unanswered
<1>3. ASSUME NEW v \in Variant, Bag!Choose(v) PROVE PageTyped'
  BY <1>3 DEF Bag!Choose, PageTyped, Bag!Unanswered
<1>4. CASE Bag!Loaded
  <2>1. target \in Variant
    BY <1>0, <1>4 DEF Bag!Loaded
  <2>2. stock[target] \in 0..MaxStock
    BY <1>0, <2>1
  <2>3. /\ shown' \in [variant : {target}, available : {stock[target], Bag!Unanswered}]
        /\ found' = stock[target] /\ target' = NoTarget /\ requested' = requested /\ stock' = stock
    BY <1>4 DEF Bag!Loaded
  <2> QED BY <1>0, <2>1, <2>2, <2>3 DEF PageTyped, Bag!Unanswered
<1>5. CASE Bag!Reload
  <2>1. /\ requested' = 1 /\ target' = NoTarget /\ found' = stock[shown.variant] /\ stock' = stock
        /\ \E a \in {stock[shown.variant], Bag!Unanswered} : shown' = [shown EXCEPT !.available = a]
    BY <1>5 DEF Bag!Reload
  <2>2. stock[shown.variant] \in 0..MaxStock
    BY <1>0
  <2>3. PICK a \in {stock[shown.variant], Bag!Unanswered} : shown' = [shown EXCEPT !.available = a]
    BY <2>1
  <2>4. /\ shown' \in [variant : Variant, available : {Bag!Unanswered} \union 0..MaxStock]
        /\ shown'.available = a
    BY <1>0, <2>2, <2>3
  <2> QED BY <1>0, <2>1, <2>2, <2>4 DEF PageTyped, Bag!Unanswered
<1>6. ASSUME NEW v \in Variant, Bag!Sell(v) PROVE PageTyped'
  <2>1. PICK n \in 0..MaxStock : stock' = [stock EXCEPT ![v] = n]
    BY <1>6 DEF Bag!Sell
  <2>2. stock' \in [Variant -> 0..MaxStock]
    BY <1>0, <2>1
  <2>3. UNCHANGED <<shown, requested, target, found>>
    BY <1>6 DEF Bag!Sell
  <2> QED BY <2>2, <2>3 DEF PageTyped, Bag!Unanswered
<1>7. CASE Bag!AddShown \/ Bag!Clear \/ \E v \in Variant : Bag!AddFromCard(v) \/ Bag!Edit(v)
  BY <1>1, <1>7 DEF Bag!AddShown, Bag!Clear, Bag!AddFromCard, Bag!Edit
<1>8. CASE UNCHANGED Bag!vars
  BY <1>1, <1>8 DEF Bag!vars
<1> QED BY <1>2, <1>3, <1>4, <1>5, <1>6, <1>7, <1>8 DEF Bag!Next

LEMMA NextBagInv ==
  ASSUME Bag!ShoppingBagAssumption, BagInv, [Bag!Next]_(Bag!vars)
  PROVE  BagInv'
BY NextLinesFit, NextPageTyped DEF BagInv

LEMMA BagIsKept ==
  ASSUME BagInv
  PROVE  Bag!ReloadKeepsTheBag
BY BagParses DEF BagInv, Bag!ReloadKeepsTheBag

LEMMA BagTyped ==
  ASSUME BagInv
  PROVE  Bag!TypeOK
<1>1. Bag!Range(cart) \in SUBSET (1..MaxQuantity)
  BY DEF BagInv, LinesFit, Bag!Range
<1> QED BY <1>1 DEF BagInv, LinesFit, PageTyped, Bag!TypeOK

LEMMA AddedAsShown ==
  ASSUME Bag!ShoppingBagAssumption, BagInv, Bag!Next
  PROVE  Bag!AddsWhatIsShown
<1> SUFFICES ASSUME NEW v \in Variant, Bag!In(cart', v) > Bag!In(cart, v) + 1
             PROVE  /\ v = shown.variant /\ target = NoTarget
                    /\ Bag!In(cart', v) - Bag!In(cart, v) <= found
  BY DEF Bag!AddsWhatIsShown
<1>0. \A w \in Variant : Bag!In(cart, w) \in Nat
  BY BagBounds DEF BagInv, LinesFit, Bag!In
<1>1. cart' # cart
  BY <1>0
<1>2. CASE Bag!AddShown
  <2>1. /\ Bag!Quantity \in Nat /\ shown.variant \in Variant /\ target = NoTarget
        /\ Bag!AddToCart(shown.variant, Bag!Quantity)
    BY <1>2, ShownQuantity DEF Bag!AddShown, BagInv, PageTyped
  <2>2. Bag!In(cart', v) = Bag!In(cart, v) + (IF v = shown.variant THEN Bag!Quantity ELSE 0)
    BY <2>1, LineAdded DEF BagInv
  <2>3. found \in Nat /\ Bag!Quantity <= found
    BY <1>2 DEF Bag!AddShown, Bag!CanAdd, BagInv, PageTyped
  <2> QED BY <1>0, <2>1, <2>2, <2>3
<1>3. ASSUME NEW w \in Variant, Bag!AddFromCard(w)
      PROVE  FALSE
  <2>1. Bag!In(cart', v) = Bag!In(cart, v) + (IF v = w THEN 1 ELSE 0)
    BY <1>3, LineAdded DEF BagInv, Bag!AddFromCard
  <2> QED BY <1>0, <2>1
<1>4. ASSUME NEW w \in Variant, Bag!ChangeQuantity(w)
      PROVE  FALSE
  <2>1. PICK n \in {cart[w] - 1, cart[w] + 1} \cap 1..MaxQuantity : Bag!Keep(Bag!SetLine(w, n))
    BY <1>4 DEF Bag!ChangeQuantity
  <2>2. w \in DOMAIN cart
    BY <1>4 DEF Bag!ChangeQuantity
  <2>3. /\ DOMAIN cart' = (DOMAIN cart) \union {w}
        /\ \A x \in DOMAIN cart' : cart'[x] = IF x = w THEN n ELSE cart[x]
    BY <2>1, <2>2, LineSet DEF BagInv
  <2>4. Bag!In(cart', v) = IF v = w THEN n ELSE Bag!In(cart, v)
    BY <2>2, <2>3 DEF Bag!In
  <2>5. Bag!In(cart, w) = cart[w]
    BY <2>2 DEF Bag!In
  <2> QED BY <1>0, <2>1, <2>4, <2>5
<1>5. ASSUME NEW w \in Variant, w \in DOMAIN cart, Bag!RemoveFromCart(w)
      PROVE  FALSE
  <2>1. cart' = [x \in (DOMAIN cart) \ {w} |-> cart[x]]
    BY <1>5 DEF Bag!RemoveFromCart, Bag!Keep, Bag!Restrict
  <2>2. Bag!In(cart', v) \in {Bag!In(cart, v), 0}
    BY <2>1 DEF Bag!In
  <2> QED BY <1>0, <2>2
<1>6. CASE Bag!Clear
  <2>1. Bag!In(cart', v) = 0
    BY <1>6 DEF Bag!Clear, Bag!Keep, Bag!Empty, Bag!In
  <2> QED BY <1>0, <2>1
<1>7. CASE Bag!Reload
  BY <1>1, <1>7, BagParses DEF Bag!Reload, BagInv, LinesFit
<1>8. CASE Bag!Increment \/ Bag!Decrement \/ Bag!Loaded \/ \E w \in Variant : Bag!Choose(w) \/ Bag!Sell(w)
  BY <1>1, <1>8 DEF Bag!Increment, Bag!Decrement, Bag!Loaded, Bag!Choose, Bag!Sell
<1> QED BY <1>2, <1>3, <1>4, <1>5, <1>6, <1>7, <1>8 DEF Bag!Next, Bag!Edit

-----------------------------------------------------------------------------
(* The specification of MCStorefront *)

\* The component that runs keeps its invariant.
StorefrontInv ==
  /\ part = "attempt" => AttemptInv /\ Tabs!TypeOK
  /\ part = "shared" => SharedInv
  /\ part = "steps" => StepsInv
  /\ part = "form" => FormInv
  /\ part = "bag" => BagInv
  /\ part = "storage" => StorageInv
  /\ part = "browse" => BrowseInv
  /\ part = "choice" => ChoiceInv
  /\ part = "sitemap" => WalkInv
  /\ part = "history" => HistoryInv
  /\ part = "cart" => CheckInv

\* Every behaviour begins in one of them.
LEMMA InitStorefrontInv == Init => StorefrontInv
<1>1. CASE Begin("attempt") /\ Tabs!Init
  <2>1. part = "attempt"
    BY <1>1 DEF Begin
  <2>2. AttemptInv /\ Tabs!TypeOK
    BY <1>1, StorefrontAssumption, InitAttemptInv, InitAttemptTyped
  <2> QED BY ONLY <2>1, <2>2 DEF StorefrontInv
<1>2. CASE Begin("shared") /\ Shared!Init
  <2>1. part = "shared"
    BY <1>2 DEF Begin
  <2>2. SharedInv
    BY <1>2, StorefrontAssumption, InitSharedInv
  <2> QED BY ONLY <2>1, <2>2 DEF StorefrontInv
<1>3. CASE Begin("steps") /\ Steps!Init
  <2>1. part = "steps"
    BY <1>3 DEF Begin
  <2>2. StepsInv
    BY <1>3, StorefrontAssumption, InitStepsInv
  <2> QED BY ONLY <2>1, <2>2 DEF StorefrontInv
<1>4. CASE Begin("form") /\ PayForm!Init
  <2>1. part = "form"
    BY <1>4 DEF Begin
  <2>2. FormInv
    BY <1>4, StorefrontAssumption, InitFormInv
  <2> QED BY ONLY <2>1, <2>2 DEF StorefrontInv
<1>5. CASE Begin("bag") /\ Bag!Init
  <2>1. part = "bag"
    BY <1>5 DEF Begin
  <2>2. BagInv
    BY <1>5, StorefrontAssumption, InitBagInv
  <2> QED BY ONLY <2>1, <2>2 DEF StorefrontInv
<1>6. CASE Begin("storage") /\ Storage!Init
  <2>1. part = "storage"
    BY <1>6 DEF Begin
  <2>2. StorageInv
    BY <1>6, StorefrontAssumption, InitStorageInv
  <2> QED BY ONLY <2>1, <2>2 DEF StorefrontInv
<1>7. CASE Begin("browse") /\ Browse!Init
  <2>1. part = "browse"
    BY <1>7 DEF Begin
  <2>2. BrowseInv
    BY <1>7, StorefrontAssumption, InitBrowseInv
  <2> QED BY ONLY <2>1, <2>2 DEF StorefrontInv
<1>8. CASE Begin("choice") /\ Choice!Init
  <2>1. part = "choice"
    BY <1>8 DEF Begin
  <2>2. ChoiceInv
    BY <1>8, StorefrontAssumption, InitChoiceInv
  <2> QED BY ONLY <2>1, <2>2 DEF StorefrontInv
<1>9. CASE Begin("sitemap") /\ Sitemap!Init
  <2>1. part = "sitemap"
    BY <1>9 DEF Begin
  <2>2. WalkInv
    BY <1>9, StorefrontAssumption, InitWalkInv
  <2> QED BY ONLY <2>1, <2>2 DEF StorefrontInv
<1>10. CASE Begin("history") /\ History!Init
  <2>1. part = "history"
    BY <1>10 DEF Begin
  <2>2. HistoryInv
    BY <1>10, StorefrontAssumption, InitHistoryInv
  <2> QED BY ONLY <2>1, <2>2 DEF StorefrontInv
<1>11. CASE Begin("cart") /\ Check!Init
  <2>1. part = "cart"
    BY <1>11 DEF Begin
  <2>2. CheckInv
    BY <1>11, StorefrontAssumption, InitCheckInv
  <2> QED BY ONLY <2>1, <2>2 DEF StorefrontInv
<1> QED BY <1>1, <1>2, <1>3, <1>4, <1>5, <1>6, <1>7, <1>8, <1>9, <1>10, <1>11 DEF Init

\* And stays in it, every step being one of that component's.
LEMMA StorefrontInvKept ==
  ASSUME StorefrontInv, [Next]_all
  PROVE  StorefrontInv'
<1>1. CASE TabsStep
  <2>1. part = "attempt" /\ part' = "attempt" /\ Tabs!Next
    BY <1>1 DEF TabsStep, In
  <2>2. AttemptInv /\ Tabs!TypeOK
    BY <2>1 DEF StorefrontInv
  <2>3. AttemptInv' /\ Tabs!TypeOK'
    BY <2>1, <2>2, StorefrontAssumption, NextAttemptInv, NextAttemptTyped
  <2> QED BY ONLY <2>1, <2>3 DEF StorefrontInv
<1>2. CASE SharedStep
  <2>1. part = "shared" /\ part' = "shared" /\ Shared!Next
    BY <1>2 DEF SharedStep, In
  <2>2. SharedInv
    BY <2>1 DEF StorefrontInv
  <2>3. SharedInv'
    BY <2>1, <2>2, StorefrontAssumption, NextSharedInv
  <2> QED BY ONLY <2>1, <2>3 DEF StorefrontInv
<1>3. CASE StepsStep
  <2>1. part = "steps" /\ part' = "steps" /\ Steps!Next
    BY <1>3 DEF StepsStep, In
  <2>2. StepsInv
    BY <2>1 DEF StorefrontInv
  <2>3. StepsInv'
    BY <2>1, <2>2, StorefrontAssumption, NextStepsInv
  <2> QED BY ONLY <2>1, <2>3 DEF StorefrontInv
<1>4. CASE PayFormStep
  <2>1. part = "form" /\ part' = "form" /\ PayForm!Next
    BY <1>4 DEF PayFormStep, In
  <2>2. FormInv
    BY <2>1 DEF StorefrontInv
  <2>3. FormInv'
    BY <2>1, <2>2, StorefrontAssumption, NextFormInv
  <2> QED BY ONLY <2>1, <2>3 DEF StorefrontInv
<1>5. CASE BagStep
  <2>1. part = "bag" /\ part' = "bag" /\ Bag!Next
    BY <1>5 DEF BagStep, In
  <2>2. BagInv
    BY <2>1 DEF StorefrontInv
  <2>3. BagInv'
    BY <2>1, <2>2, StorefrontAssumption, NextBagInv
  <2> QED BY ONLY <2>1, <2>3 DEF StorefrontInv
<1>6. CASE StorageStep
  <2>1. part = "storage" /\ part' = "storage" /\ Storage!Next
    BY <1>6 DEF StorageStep, In
  <2>2. StorageInv
    BY <2>1 DEF StorefrontInv
  <2>3. StorageInv'
    BY <2>1, <2>2, StorefrontAssumption, NextStorageInv
  <2> QED BY ONLY <2>1, <2>3 DEF StorefrontInv
<1>7. CASE BrowseStep
  <2>1. part = "browse" /\ part' = "browse" /\ Browse!Next
    BY <1>7 DEF BrowseStep, In
  <2>2. BrowseInv
    BY <2>1 DEF StorefrontInv
  <2>3. BrowseInv'
    BY <2>1, <2>2, StorefrontAssumption, NextBrowseInv
  <2> QED BY ONLY <2>1, <2>3 DEF StorefrontInv
<1>8. CASE ChoiceStep
  <2>1. part = "choice" /\ part' = "choice" /\ Choice!Next
    BY <1>8 DEF ChoiceStep, In
  <2>2. ChoiceInv
    BY <2>1 DEF StorefrontInv
  <2>3. ChoiceInv'
    BY <2>1, <2>2, StorefrontAssumption, NextChoiceInv
  <2> QED BY ONLY <2>1, <2>3 DEF StorefrontInv
<1>9. CASE SitemapStep
  <2>1. part = "sitemap" /\ part' = "sitemap" /\ Sitemap!Next
    BY <1>9 DEF SitemapStep, In
  <2>2. WalkInv
    BY <2>1 DEF StorefrontInv
  <2>3. WalkInv'
    BY <2>1, <2>2, StorefrontAssumption, NextWalkInv
  <2> QED BY ONLY <2>1, <2>3 DEF StorefrontInv
<1>10. CASE HistoryStep
  <2>1. part = "history" /\ part' = "history" /\ History!Next
    BY <1>10 DEF HistoryStep, In
  <2>2. HistoryInv
    BY <2>1 DEF StorefrontInv
  <2>3. HistoryInv'
    BY <2>1, <2>2, StorefrontAssumption, NextHistoryInv
  <2> QED BY ONLY <2>1, <2>3 DEF StorefrontInv
<1>11. CASE CheckStep
  <2>1. part = "cart" /\ part' = "cart" /\ Check!Next
    BY <1>11 DEF CheckStep, In
  <2>2. CheckInv
    BY <2>1 DEF StorefrontInv
  <2>3. CheckInv'
    BY <2>1, <2>2, StorefrontAssumption, NextCheckInv
  <2> QED BY ONLY <2>1, <2>3 DEF StorefrontInv
<1>12. CASE UNCHANGED all
  <2>0. part' = part
    BY <1>12 DEF all
  <2>1. ASSUME part = "attempt"
        PROVE  AttemptInv' /\ Tabs!TypeOK'
    <3>1. AttemptInv /\ Tabs!TypeOK
      BY <2>1 DEF StorefrontInv
    <3>2. UNCHANGED Tabs!vars
      BY <1>12 DEF all, Tabs!vars
    <3> QED BY <3>1, <3>2, StorefrontAssumption, NextAttemptInv, NextAttemptTyped
  <2>2. ASSUME part = "shared"
        PROVE  SharedInv'
    <3>1. SharedInv
      BY <2>2 DEF StorefrontInv
    <3>2. UNCHANGED Shared!vars
      <4>1. UNCHANGED <<cookie, seen, cart, saved, memo, page, form>>
        BY <1>12 DEF all
      <4>2. UNCHANGED <<back, sent, session, asks, switches, edits, visits>>
        BY <1>12 DEF all
      <4> QED BY <4>1, <4>2 DEF Shared!vars
    <3> QED BY <3>1, <3>2, StorefrontAssumption, NextSharedInv
  <2>3. ASSUME part = "steps"
        PROVE  StepsInv'
    <3>1. StepsInv
      BY <2>3 DEF StorefrontInv
    <3>2. UNCHANGED Steps!vars
      <4>1. UNCHANGED <<history, at, pending, hasMounted, items>>
        BY <1>12 DEF all
      <4>2. UNCHANGED <<shippingForm, values, errors, typed, pushes, moves>>
        BY <1>12 DEF all
      <4> QED BY <4>1, <4>2 DEF Steps!vars
    <3> QED BY <3>1, <3>2, StorefrontAssumption, NextStepsInv
  <2>4. ASSUME part = "form"
        PROVE  FormInv'
    <3>1. FormInv
      BY <2>4 DEF StorefrontInv
    <3>2. UNCHANGED PayForm!vars
      <4>1. UNCHANGED <<visit, page, shown, provider, sync, element, filledIn, confirming>>
        BY <1>12 DEF all
      <4>2. UNCHANGED <<calls, held, paid, agreed, faults>>
        BY <1>12 DEF all
      <4> QED BY <4>1, <4>2 DEF PayForm!vars, PayForm!form, PayForm!stripe
    <3> QED BY <3>1, <3>2, StorefrontAssumption, NextFormInv
  <2>5. ASSUME part = "bag"
        PROVE  BagInv'
    <3>1. BagInv
      BY <2>5 DEF StorefrontInv
    <3>2. UNCHANGED Bag!vars
      <4>1. UNCHANGED <<cart, disk, shown, requested, target, stock, found>>
        BY <1>12 DEF all
      <4> QED BY <4>1 DEF Bag!vars
    <3> QED BY <3>1, <3>2, StorefrontAssumption, NextBagInv
  <2>6. ASSUME part = "storage"
        PROVE  StorageInv'
    <3>1. StorageInv
      BY <2>6 DEF StorefrontInv
    <3>2. UNCHANGED Storage!vars
      <4>1. UNCHANGED <<disk, memory, unavailable, writes, latest, answer>>
        BY <1>12 DEF all
      <4> QED BY <4>1 DEF Storage!vars
    <3> QED BY <3>1, <3>2, StorefrontAssumption, NextStorageInv
  <2>7. ASSUME part = "browse"
        PROVE  BrowseInv'
    <3>1. BrowseInv
      BY <2>7 DEF StorefrontInv
    <3>2. UNCHANGED Browse!vars
      <4>1. UNCHANGED <<catalog, price, edits, url, shown, pending, clicks, want, walk>>
        BY <1>12 DEF all
      <4> QED BY <4>1 DEF Browse!vars
    <3> QED BY <3>1, <3>2, StorefrontAssumption, NextBrowseInv
  <2>8. ASSUME part = "choice"
        PROVE  ChoiceInv'
    <3>1. ChoiceInv
      BY <2>8 DEF StorefrontInv
    <3>2. UNCHANGED Choice!vars
      <4>1. UNCHANGED <<offer, stocks, nav, pending, view, requestedQuantity, added>>
        BY <1>12 DEF all
      <4>2. UNCHANGED <<address, product, selected, answered, available, asked>>
        BY <1>12 DEF all
      <4> QED BY <4>1, <4>2 DEF Choice!vars, Choice!shown
    <3> QED BY <3>1, <3>2, StorefrontAssumption, NextChoiceInv
  <2>9. ASSUME part = "sitemap"
        PROVE  WalkInv'
    <3>1. WalkInv
      BY <2>9 DEF StorefrontInv
    <3>2. UNCHANGED Sitemap!vars
      <4>1. UNCHANGED <<catalog, walk, total, loaded, asked, before, removed, added>>
        BY <1>12 DEF all
      <4> QED BY <4>1 DEF Sitemap!vars
    <3> QED BY <3>1, <3>2, StorefrontAssumption, NextWalkInv
  <2>10. ASSUME part = "history"
        PROVE  HistoryInv'
    <3>1. HistoryInv
      BY <2>10 DEF StorefrontInv
    <3>2. UNCHANGED History!vars
      <4>1. UNCHANGED <<orders, page, shown, hasNext, seen, before>>
        BY <1>12 DEF all
      <4> QED BY <4>1 DEF History!vars
    <3> QED BY <3>1, <3>2, StorefrontAssumption, NextHistoryInv
  <2>11. ASSUME part = "cart"
        PROVE  CheckInv'
    <3>1. CheckInv
      BY <2>11 DEF StorefrontInv
    <3>2. UNCHANGED Check!vars
      <4>1. UNCHANGED <<was, is, edits>>
        BY <1>12 DEF all
      <4>2. UNCHANGED <<cart, asked, answer, nextIndex, working, results, outcome>>
        BY <1>12 DEF all
      <4> QED BY <4>1, <4>2 DEF Check!vars, Check!catalogue
    <3> QED BY <3>1, <3>2, StorefrontAssumption, NextCheckInv
  <2> QED BY <2>0, <2>1, <2>2, <2>3, <2>4, <2>5, <2>6, <2>7, <2>8, <2>9, <2>10, <2>11 DEF StorefrontInv
<1> QED BY <1>1, <1>2, <1>3, <1>4, <1>5, <1>6, <1>7, <1>8, <1>9, <1>10, <1>11, <1>12 DEF Next

LEMMA StorefrontInvariance == Spec => []StorefrontInv
<1>1. Init => StorefrontInv
  BY InitStorefrontInv
<1>2. StorefrontInv /\ [Next]_all => StorefrontInv'
  BY StorefrontInvKept
<1> QED BY <1>1, <1>2, PTL DEF Spec

\* The variables of whichever component runs have their types.
THEOREM StorefrontTyped == Spec => []StorefrontTypes
<1>1. ASSUME StorefrontInv PROVE StorefrontTypes
  <2>1. ASSUME part = "attempt" PROVE Tabs!TypeOK
    BY <1>1, <2>1 DEF StorefrontInv
  <2>2. ASSUME part = "shared" PROVE Shared!TypeOK
    BY <1>1, <2>2, StorefrontAssumption, SharedTyped DEF StorefrontInv
  <2>3. ASSUME part = "steps" PROVE Steps!TypeOK
    BY <1>1, <2>3, StorefrontAssumption, StepsTyped DEF StorefrontInv
  <2>4. ASSUME part = "form" PROVE PayForm!TypeOK
    BY <1>1, <2>4, StorefrontAssumption, FormTyped DEF StorefrontInv
  <2>5. ASSUME part = "bag" PROVE Bag!TypeOK
    BY <1>1, <2>5, StorefrontAssumption, BagTyped DEF StorefrontInv
  <2>6. ASSUME part = "storage" PROVE Storage!TypeOK
    BY <1>1, <2>6, StorefrontAssumption, StorageTyped DEF StorefrontInv
  <2>7. ASSUME part = "browse" PROVE Browse!TypeOK
    BY <1>1, <2>7, StorefrontAssumption, BrowseIsTyped DEF StorefrontInv
  <2>8. ASSUME part = "choice" PROVE Choice!TypeOK
    BY <1>1, <2>8, StorefrontAssumption, ChoiceTyped DEF StorefrontInv
  <2>9. ASSUME part = "sitemap" PROVE Sitemap!TypeOK
    BY <1>1, <2>9, StorefrontAssumption, SitemapTyped DEF StorefrontInv
  <2>10. ASSUME part = "history" PROVE History!TypeOK
    BY <1>1, <2>10, StorefrontAssumption, HistoryIsTyped DEF StorefrontInv
  <2>11. ASSUME part = "cart" PROVE Check!TypeOK
    BY <1>1, <2>11, StorefrontAssumption, CheckTypes DEF StorefrontInv
  <2> QED BY <2>1, <2>2, <2>3, <2>4, <2>5, <2>6, <2>7, <2>8, <2>9, <2>10, <2>11 DEF StorefrontTypes
<1> QED BY <1>1, StorefrontInvariance, PTL

\* No account is shown the payment form or the payment of another.
THEOREM AccountsSeeTheirOwn == Spec => []OneAccountsOwn
<1>1. StorefrontInv => OneAccountsOwn
  BY StorefrontAssumption, FormIsOwn, PaymentIsOwn DEF StorefrontInv, OneAccountsOwn
<1> QED BY <1>1, StorefrontInvariance, PTL

\* What a visitor chose is what he gets: what goes into the cart was there when
\* he asked, the page of the catalog is the one he asked for last, going back
\* leaves the checkout step, and the cart that is checked resolves to one version
\* of each product or is refused for a cause.
THEOREM ChoicesAreHonoured == Spec => []ChoiceIsHonoured
<1>1. ASSUME StorefrontInv PROVE ChoiceIsHonoured
  <2>1. ASSUME part = "choice" PROVE Choice!AddedWasThere
    BY <1>1, <2>1 DEF StorefrontInv, ChoiceInv
  <2>2. ASSUME part = "browse" PROVE Browse!WantedIsShown
    BY <1>1, <2>2, StorefrontAssumption, WantedShown DEF StorefrontInv
  <2>3. ASSUME part = "steps" PROVE Steps!BackLeaves
    BY <1>1, <2>3, BackLeavesThePage DEF StorefrontInv
  <2>4. ASSUME part = "cart"
        PROVE  Check!ResolvedIsWhole /\ Check!OneVersionPerProduct /\ Check!RefusedForCause
    BY <1>1, <2>4, StorefrontAssumption, ResolvedAsChecked DEF StorefrontInv
  <2> QED BY <2>1, <2>2, <2>3, <2>4 DEF ChoiceIsHonoured
<1> QED BY <1>1, StorefrontInvariance, PTL

\* Who goes through the pages of the catalog, the sitemap or the orders to the
\* last has seen every item once, but for the causes the components name.
THEOREM PagesTellAll == Spec => []NothingIsMissed
<1>1. ASSUME StorefrontInv PROVE NothingIsMissed
  <2>1. ASSUME part = "browse" PROVE Browse!EveryMatchOnce /\ Browse!NoEmptyPage
    BY <1>1, <2>1, StorefrontAssumption, MatchesSeenOnce, PagesNotEmpty DEF StorefrontInv
  <2>2. ASSUME part = "sitemap" PROVE Sitemap!MissesAreExplained
    BY <1>1, <2>2, StorefrontAssumption, MissesHaveCauses DEF StorefrontInv
  <2>3. ASSUME part = "history" PROVE History!HistoryIsComplete /\ History!OfferedPageHasOrders
    BY <1>1, <2>3, HistoryIsWhole DEF StorefrontInv
  <2> QED BY <2>1, <2>2, <2>3 DEF NothingIsMissed
<1> QED BY <1>1, StorefrontInvariance, PTL

\* What a step of the attempts and of the shared browser keeps to.
LEMMA PaymentStepsKeepTo ==
  ASSUME StorefrontInv, Next
  PROVE  /\ part = "attempt" => Tabs!ClearedCopyWasPaid /\ Tabs!PaidWithTheDetailsShown
         /\ part = "shared" => Shared!CartLeavesWithItsBuyer
<1> USE DEF Next, In, TabsStep, SharedStep, StepsStep, PayFormStep, BagStep, StorageStep, BrowseStep,
            ChoiceStep, SitemapStep, HistoryStep, CheckStep
<1>1. ASSUME part = "attempt" PROVE Tabs!ClearedCopyWasPaid /\ Tabs!PaidWithTheDetailsShown
  <2>1. Tabs!Next
    BY <1>1
  <2>2. AttemptInv
    BY <1>1 DEF StorefrontInv
  <2> QED BY <2>1, <2>2, StorefrontAssumption, ClearsPaid, DetailsPaid
<1>2. ASSUME part = "shared" PROVE Shared!CartLeavesWithItsBuyer
  <2>1. Shared!Next
    BY <1>2
  <2>2. SharedInv
    BY <1>2 DEF StorefrontInv
  <2> QED BY <2>1, <2>2, StorefrontAssumption, CartLeaves
<1> QED BY <1>1, <1>2

\* Nobody pays twice for one cart; he pays for what he was shown, a tab gives up its
\* copy of the cart only if that copy was paid for, and only the account that paid
\* loses one.
THEOREM PaymentsAreMeant == Spec => PaidOnceAsShown
<1>1. StorefrontInv => PaymentIsRight
  BY StorefrontAssumption, PaidOnce, OneCallEach DEF StorefrontInv, PaymentIsRight, FormInv
<1>2. ASSUME StorefrontInv, Next
      PROVE  /\ PaymentIsRight'
             /\ part = "attempt" => Tabs!ClearedCopyWasPaid /\ Tabs!PaidWithTheDetailsShown
             /\ part = "shared" => Shared!CartLeavesWithItsBuyer
  <2>1. StorefrontInv'
    BY <1>2, StorefrontInvKept
  <2>2. StorefrontInv' => PaymentIsRight'
    BY <1>1, PTL
  <2> QED BY <1>2, <2>1, <2>2, PaymentStepsKeepTo
<1>3. StorefrontInv /\ [Next]_all
        => [/\ PaymentIsRight'
            /\ part = "attempt" => Tabs!ClearedCopyWasPaid /\ Tabs!PaidWithTheDetailsShown
            /\ part = "shared" => Shared!CartLeavesWithItsBuyer]_all
  BY <1>2
<1> QED BY <1>3, StorefrontInvariance, PTL DEF Spec, PaidOnceAsShown

\* What a step of the components that remember keeps to.
LEMMA MemoryStepsKeepTo ==
  ASSUME StorefrontInv, Next
  PROVE  /\ part = "steps" => Steps!ReloadKeepsDetails
         /\ part = "storage" => Storage!NeverAnOlderValue /\ Storage!CheckoutKeepsItsIdentity
         /\ part = "bag" => Bag!AddsWhatIsShown
         /\ part = "choice" => Choice!OtherChoiceStays
<1> USE DEF Next, In, TabsStep, SharedStep, StepsStep, PayFormStep, BagStep, StorageStep, BrowseStep,
            ChoiceStep, SitemapStep, HistoryStep, CheckStep
<1>1. ASSUME part = "steps" PROVE Steps!ReloadKeepsDetails
  <2>1. Steps!Next
    BY <1>1
  <2>2. StepsInv
    BY <1>1 DEF StorefrontInv
  <2> QED BY <2>1, <2>2, DetailsReloaded
<1>2. ASSUME part = "storage" PROVE Storage!NeverAnOlderValue /\ Storage!CheckoutKeepsItsIdentity
  <2>1. Storage!Next
    BY <1>2
  <2>2. StorageInv
    BY <1>2 DEF StorefrontInv
  <2> QED BY <2>1, <2>2, StorefrontAssumption, NothingOlder, IdentityKept
<1>3. ASSUME part = "bag" PROVE Bag!AddsWhatIsShown
  <2>1. Bag!Next
    BY <1>3
  <2>2. BagInv
    BY <1>3 DEF StorefrontInv
  <2> QED BY <2>1, <2>2, StorefrontAssumption, AddedAsShown
<1>4. ASSUME part = "choice" PROVE Choice!OtherChoiceStays
  <2>1. Choice!Next
    BY <1>4
  <2>2. ChoiceInv
    BY <1>4 DEF StorefrontInv
  <2> QED BY <2>1, <2>2, StorefrontAssumption, OtherChoiceKept
<1> QED BY <1>1, <1>2, <1>3, <1>4

\* What the visitor put in the bag, typed or chose is there after reloads until he
\* has paid, and while storage fails, and nothing older ever takes its place.
THEOREM MemoryIsKept == Spec => NothingIsForgotten
<1>1. StorefrontInv => KeptIsReadable
  BY BagIsKept, AnsweredLatest DEF StorefrontInv, KeptIsReadable
<1>2. ASSUME StorefrontInv, Next
      PROVE  /\ KeptIsReadable'
             /\ part = "steps" => Steps!ReloadKeepsDetails
             /\ part = "storage" => Storage!NeverAnOlderValue /\ Storage!CheckoutKeepsItsIdentity
             /\ part = "bag" => Bag!AddsWhatIsShown
             /\ part = "choice" => Choice!OtherChoiceStays
  <2>1. StorefrontInv'
    BY <1>2, StorefrontInvKept
  <2>2. StorefrontInv' => KeptIsReadable'
    BY <1>1, PTL
  <2> QED BY <1>2, <2>1, <2>2, MemoryStepsKeepTo
<1>3. StorefrontInv /\ [Next]_all
        => [/\ KeptIsReadable'
            /\ part = "steps" => Steps!ReloadKeepsDetails
            /\ part = "storage" => Storage!NeverAnOlderValue /\ Storage!CheckoutKeepsItsIdentity
            /\ part = "bag" => Bag!AddsWhatIsShown
            /\ part = "choice" => Choice!OtherChoiceStays]_all
  BY <1>2
<1> QED BY <1>3, StorefrontInvariance, PTL DEF Spec, NothingIsForgotten
=============================================================================
