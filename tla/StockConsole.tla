---------------------------- MODULE StockConsole ----------------------------
(***************************************************************************)
(* The stock panel of one product (InventoryManager.tsx): counts loaded    *)
(* from the product service, a draft of one count, one request at a time.  *)
(* Below it the product of the page changes when the catalog is refreshed, *)
(* and the service's counts change with every sale.                        *)
(*                                                                         *)
(* A variant is a size with a color, abstracted to a number; the panel     *)
(* falls back to the first offered one when the selected one is retired.   *)
(***************************************************************************)
EXTENDS Integers, FiniteSets, FiniteSetsExt

CONSTANTS
  Variant,     \* a set of numbers
  MaxCount,    \* bound on counts
  Default,     \* the count offered for a variant without a row, 5 in the code
  MaxChanges   \* bound on changes made behind the panel

\* What is asked of the constants.
StockAssumption ==
  /\ Variant \subseteq Nat /\ Variant # {} /\ IsFiniteSet(Variant)
  /\ MaxCount \in Nat \ {0} /\ Default \in 0..MaxCount /\ MaxChanges \in Nat

Count == 0..MaxCount
NoRow == -1
NoRows == [v \in Variant |-> -2]          \* counts that are not known
Unset == [for |-> 0, value |-> NoRow, clears |-> FALSE]

VARIABLES
  stock,     \* the service's counts, or NoRow
  offers,    \* the variants of the product on the page
  size,      \* the variant last selected
  draft,     \* the count typed, for which variant
  rows,      \* the counts loaded
  open,
  step,      \* what the panel waits for
  request,   \* the request under way: a count for a variant, a retired one is cleared
  reading,   \* the counts an answer under way carries
  typed,     \* the last count the administrator typed for each variant
  behind,    \* a change confirmed here is not in the counts on the panel
  changes

panelVars == <<size, draft, rows, open, step, request, reading, typed, behind>>
vars == <<stock, offers, size, draft, rows, open, step, request, reading, typed, behind, changes>>

selected == IF size \in offers THEN size ELSE Min(offers)
busy == step \in {"saving", "saved", "reloading"}
loading == step \in {"loading", "reloading"}

StaleQuantity ==
  IF draft # Unset THEN draft.value
  ELSE IF rows[selected] = NoRow THEN Default ELSE rows[selected]
quantity ==
  IF draft # Unset /\ draft.for = selected THEN draft.value
  ELSE IF rows[selected] = NoRow THEN Default ELSE rows[selected]

Init ==
  /\ stock \in [Variant -> {NoRow, 1}]
  /\ offers = Variant
  /\ size = Min(Variant)
  /\ draft = Unset
  /\ rows = NoRows
  /\ open = FALSE
  /\ step = "idle"
  /\ request = Unset
  /\ reading = NoRows
  /\ typed = [v \in Variant |-> NoRow]
  /\ behind = FALSE
  /\ changes = 0

-----------------------------------------------------------------------------
(* The panel *)

\* Opening the panel loads the counts.
Toggle ==
  /\ ~busy /\ ~loading
  /\ open' = ~open
  /\ step' = IF open THEN step ELSE "loading"
  /\ UNCHANGED <<stock, offers, size, draft, rows, request, reading, typed, behind, changes>>

refreshStock ==
  /\ open /\ ~loading /\ ~busy /\ rows = NoRows
  /\ step' = "loading"
  /\ UNCHANGED <<stock, offers, size, draft, rows, open, request, reading, typed, behind, changes>>

\* The fieldset is disabled while the counts are unknown or a request is under way.
Editable == open /\ ~busy /\ ~loading /\ rows # NoRows

Select(v) ==
  /\ Editable /\ v \in offers
  /\ size' = v
  /\ draft' = Unset
  /\ UNCHANGED <<stock, offers, rows, open, step, request, reading, typed, behind, changes>>

Type(n) ==
  /\ Editable
  /\ draft' = [for |-> selected, value |-> n, clears |-> FALSE]
  /\ typed' = [typed EXCEPT ![selected] = n]
  /\ UNCHANGED <<stock, offers, size, rows, open, step, request, reading, behind, changes>>

saveStock(v, n) ==
  /\ Editable
  /\ step' = "saving"
  /\ request' = [for |-> v, value |-> n, clears |-> v \notin offers]
  /\ UNCHANGED <<stock, offers, size, draft, rows, open, reading, typed, behind, changes>>

\* "Clear stock" of a variant that the product no longer offers.
ClearRetired(v) == v \notin offers /\ rows[v] >= 0 /\ saveStock(v, 0)

\* The service sets the count; it may, too, when the call fails here.
Set ==
  /\ step = "saving"
  /\ step' = "saved"
  /\ stock' = [stock EXCEPT ![request.for] = request.value]
  /\ UNCHANGED <<offers, size, draft, rows, open, request, reading, typed, behind, changes>>

SetFails ==
  /\ step = "saving"
  /\ stock' \in {stock, [stock EXCEPT ![request.for] = request.value]}
  /\ step' = "idle"
  /\ request' = Unset
  /\ UNCHANGED <<offers, size, draft, rows, open, reading, typed, behind, changes>>

\* The change is confirmed and the counts are loaded again.
Reload ==
  /\ step = "saved"
  /\ step' = "reloading"
  /\ behind' = TRUE
  /\ request' = Unset
  /\ UNCHANGED <<stock, offers, size, draft, rows, open, reading, typed, changes>>

ReadStock ==
  /\ loading /\ reading = NoRows
  /\ reading' = stock
  /\ UNCHANGED <<stock, offers, size, draft, rows, open, step, request, typed, behind, changes>>

Loaded ==
  /\ loading /\ reading # NoRows
  /\ rows' = reading
  /\ draft' = Unset
  /\ typed' = [v \in Variant |-> NoRow]
  /\ behind' = FALSE
  /\ reading' = NoRows
  /\ step' = "idle"
  /\ UNCHANGED <<stock, offers, size, open, request, changes>>

\* Unknown counts must not look like confirmed ones.
RowsAfterFailure == NoRows

LoadFails ==
  /\ loading
  /\ rows' = RowsAfterFailure
  /\ reading' = NoRows
  /\ step' = "idle"
  /\ UNCHANGED <<stock, offers, size, draft, open, request, typed, behind, changes>>

-----------------------------------------------------------------------------
(* Behind the panel *)

\* The page's product changes: edited in the catalog form, or refreshed.
Reoffer ==
  /\ changes < MaxChanges
  /\ offers' \in (SUBSET Variant) \ {{}, offers}
  /\ changes' = changes + 1
  /\ UNCHANGED <<stock>> /\ UNCHANGED panelVars

\* A sale settles, or another administrator counts.
Trade ==
  /\ changes < MaxChanges
  /\ \E v \in Variant, n \in Count : stock' = [stock EXCEPT ![v] = n]
  /\ changes' = changes + 1
  /\ UNCHANGED offers /\ UNCHANGED panelVars

Next ==
  \/ Toggle \/ refreshStock
  \/ \E v \in Variant : Select(v) \/ ClearRetired(v)
  \/ \E n \in Count : Type(n)
  \/ saveStock(selected, quantity)
  \/ Set \/ SetFails \/ Reload \/ ReadStock \/ Loaded \/ LoadFails
  \/ Reoffer \/ Trade

Spec == Init /\ [][Next]_vars

-----------------------------------------------------------------------------
(* Properties *)

TypeOK ==
  /\ stock \in [Variant -> Count \union {NoRow}]
  /\ offers \in (SUBSET Variant) \ {{}}
  /\ size \in Variant
  /\ draft = Unset \/ draft \in [for : Variant, value : Count, clears : BOOLEAN]
  /\ rows = NoRows \/ rows \in [Variant -> Count \union {NoRow}]
  /\ open \in BOOLEAN /\ behind \in BOOLEAN
  /\ step \in {"idle", "loading", "saving", "saved", "reloading"}
  /\ request = Unset \/ request \in [for : Variant, value : Count, clears : BOOLEAN]
  /\ reading = NoRows \/ reading \in [Variant -> Count \union {NoRow}]
  /\ typed \in [Variant -> Count \union {NoRow}]
  /\ changes \in 0..MaxChanges

\* A count is saved for the variant it was typed or loaded for, also when the
\* product on the page changes under the form; a retired variant is cleared.
SavesWhatWasMeant ==
  step = "saving" =>
    request.value \in {typed[request.for], rows[request.for]} \union
      (IF rows[request.for] = NoRow THEN {Default} ELSE {}) \union
      (IF request.clears THEN {0} ELSE {})

\* After a confirmed change whose reload failed, nothing is saved before the
\* counts have been loaded again.
SavesOnLoadedCounts == step = "saving" => ~behind
=============================================================================
