---------------------------- MODULE BrowserStorage ----------------------------
(***************************************************************************)
(* The two adapters between the storefront and the browser's storage, any   *)
(* access of which may be denied: createBrowserStorage (browser-storage.ts) *)
(* under the cart and checkout stores, and createCheckoutStorage            *)
(* (checkout-session.ts) under one mounted payment form.  Several tabs share *)
(* the storage.  Writes and removals are numbered: n stands for the value   *)
(* of the nth, if it is a write, and -n for its absence, if a removal.      *)
(***************************************************************************)
EXTENDS Integers

CONSTANTS
  Visit,      \* tabs whose store uses createBrowserStorage
  Checkout,   \* tabs with a createCheckoutStorage
  Key,
  MaxWrites   \* bound on the writes and removals

\* What is asked of the constants.
BrowserStorageAssumption == Visit \cap Checkout = {} /\ MaxWrites \in Nat

VARIABLES
  disk,         \* what the browser keeps
  memory,       \* what each tab's adapter keeps, or NoEntry
  unavailable,  \* of each visit: the storage has failed once
  writes,       \* writes and removals so far
  latest,       \* what a tab has written or removed, or was told by the storage, last
  answer        \* the tab's last answer from getItem, or what it wrote since

vars == <<disk, memory, unavailable, writes, latest, answer>>

Tab == Visit \union Checkout
Absent == 0
NoEntry == MaxWrites + 1
Value(v) == IF v < 0 \/ v = NoEntry THEN Absent ELSE v
Age(v) == IF v < 0 THEN -v ELSE v

Init ==
  /\ disk = [k \in Key |-> Absent]
  /\ memory = [t \in Tab |-> [k \in Key |-> NoEntry]]
  /\ unavailable = [t \in Visit |-> FALSE]
  /\ writes = 0
  /\ latest = [t \in Tab |-> [k \in Key |-> Absent]]
  /\ answer = latest

Remember(t, k, v) == memory' = [memory EXCEPT ![t][k] = v]
Hears(t, k, v) ==
  /\ latest' = [latest EXCEPT ![t][k] = v] 
  /\ answer' = [answer EXCEPT ![t][k] = Value(v)]

\* getItem of a visit: the storage answers as long as it has never failed.
VisitReads(t, k) ==
  /\ ~unavailable[t]
  /\ Remember(t, k, IF Value(disk[k]) = Absent THEN NoEntry ELSE disk[k])
  /\ Hears(t, k, disk[k])
  /\ UNCHANGED <<disk, unavailable, writes>>

VisitReadsMemory(t, k, fails) ==
  /\ fails \/ unavailable[t]
  /\ unavailable' = [unavailable EXCEPT ![t] = TRUE]
  /\ answer' = [answer EXCEPT ![t][k] = Value(memory[t][k])]
  /\ UNCHANGED <<disk, memory, writes, latest>>

\* A failed write leaves the tab in its memory, for all keys.
AfterWrite(t, fails) ==
  unavailable' = [unavailable EXCEPT ![t] = @ \/ fails]

Written(k, v, reaches) == disk' = IF reaches THEN [disk EXCEPT ![k] = v] ELSE disk

\* setItem and removeItem of a visit.
VisitWrites(t, k, fails) ==
  /\ writes < MaxWrites /\ writes' = writes + 1
  /\ Remember(t, k, writes')
  /\ Written(k, writes', ~fails /\ ~unavailable[t])
  /\ AfterWrite(t, fails)
  /\ Hears(t, k, writes')

VisitRemoves(t, k, fails) ==
  /\ writes < MaxWrites /\ writes' = writes + 1
  /\ Remember(t, k, NoEntry)
  /\ Written(k, -writes', ~fails /\ ~unavailable[t])
  /\ AfterWrite(t, fails)
  /\ Hears(t, k, -writes')

\* The first answer is kept, an empty one too.
AsksStorage(t, k) == memory[t][k] = NoEntry

CheckoutReads(t, k) ==
  /\ AsksStorage(t, k)
  /\ Remember(t, k, disk[k])
  /\ Hears(t, k, disk[k])
  /\ UNCHANGED <<disk, unavailable, writes>>

CheckoutReadsMemory(t, k) ==
  /\ answer' = [answer EXCEPT ![t][k] = Value(memory[t][k])]
  /\ UNCHANGED <<disk, memory, unavailable, writes, latest>>

CheckoutWrites(t, k, fails) ==
  /\ writes < MaxWrites /\ writes' = writes + 1
  /\ Remember(t, k, writes')
  /\ Written(k, writes', ~fails)
  /\ Hears(t, k, writes')
  /\ UNCHANGED unavailable

CheckoutRemoves(t, k, fails) ==
  /\ writes < MaxWrites /\ writes' = writes + 1
  /\ Remember(t, k, -writes')
  /\ Written(k, -writes', ~fails)
  /\ Hears(t, k, -writes')
  /\ UNCHANGED unavailable

\* A reload, or another payment form: what the storage kept is all there is.
Reload(t) ==
  /\ memory' = [memory EXCEPT ![t] = [k \in Key |-> NoEntry]]
  /\ unavailable' = [v \in Visit |-> unavailable[v] /\ v # t]
  /\ latest' = [latest EXCEPT ![t] = [k \in Key |-> Absent]]
  /\ answer' = [answer EXCEPT ![t] = [k \in Key |-> Absent]]
  /\ UNCHANGED <<disk, writes>>

Next ==
  \/ \E t \in Visit, k \in Key :
       \/ VisitReads(t, k)
       \/ \E fails \in BOOLEAN :
            VisitReadsMemory(t, k, fails) \/ VisitWrites(t, k, fails) \/ VisitRemoves(t, k, fails)
  \/ \E t \in Checkout, k \in Key :
       \/ CheckoutReads(t, k) \/ CheckoutReadsMemory(t, k)
       \/ \E fails \in BOOLEAN : CheckoutWrites(t, k, fails) \/ CheckoutRemoves(t, k, fails)
  \/ \E t \in Tab : Reload(t)

Spec == Init /\ [][Next]_vars

-----------------------------------------------------------------------------
(* Properties *)

Stored == -writes..writes

TypeOK ==
  /\ disk \in [Key -> Stored]
  /\ \A t \in Visit, k \in Key : memory[t][k] \in 1..writes \union {NoEntry}
  /\ \A t \in Checkout, k \in Key : memory[t][k] \in Stored \union {NoEntry}
  /\ unavailable \in [Visit -> BOOLEAN]
  /\ writes \in 0..MaxWrites
  /\ latest \in [Tab -> [Key -> Stored]]
  /\ answer \in [Tab -> [Key -> 0..writes]]

\* Whatever is denied and whenever, getItem answers with what this tab last
\* wrote, removed or was told, the storage's failure notwithstanding.
AnswersAreLatest == answer = [t \in Tab |-> [k \in Key |-> Value(latest[t][k])]]

\* Of every step: stale persisted values cannot return: what a tab could not write or remove
\* never comes back from the storage, not until the page is loaded again.
NeverAnOlderValue ==
  \A t \in Tab, k \in Key :
    Age(latest'[t][k]) >= Age(latest[t][k]) \/ Reload(t)

\* Of every step, the identity of a payment attempt: once a mounted checkout has an answer for
\* a key, be it that there is none, only its own write or removal changes it.
CheckoutKeepsItsIdentity ==
  \A t \in Checkout, k \in Key :
    memory[t][k] # NoEntry =>
      latest'[t][k] \in {latest[t][k], writes + 1, -(writes + 1)} \/ Reload(t)
=============================================================================
