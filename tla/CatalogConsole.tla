--------------------------- MODULE CatalogConsole ---------------------------
(***************************************************************************)
(* The administrator's catalog page (CatalogManager.tsx): the product      *)
(* sheet and the category form, one request at a time, the lists they      *)
(* update and the refreshes that replace those lists.                      *)
(*                                                                         *)
(* A write of an item, here or by another administrator, has a number; the *)
(* fields of an item are abstracted to the number of the write that set    *)
(* them.  A category keeps its identity when its slug is edited.  Filters  *)
(* and pages are left out: the lists hold the whole catalog.               *)
(***************************************************************************)
EXTENDS Integers, Sequences

CONSTANTS
  Product,
  Category,
  MaxWrites,    \* bound on writes that reach the catalog
  MaxRefreshes  \* bound on refreshes under way

Item == Product \union Category
Kind(i) == IF i \in Product THEN "product" ELSE "category"
Items(kind) == {i \in Item : Kind(i) = kind}
Kinds == {"product", "category"}

New == "new"  \* what a form that adds an item edits

\* What is asked of the constants.
ConsoleAssumption ==
  /\ Product \intersect Category = {} /\ New \notin Item
  /\ MaxWrites \in Nat /\ MaxRefreshes \in Nat

VARIABLES
  catalog,    \* the service's rows: [write, live] of each item
  shown,      \* the page's lists, likewise
  form,       \* what each form edits, and what the administrator opened it for
  sheet,      \* the product sheet is open
  call,       \* the request under way
  refreshes,  \* router.refresh calls under way: what each has read
  confirmed,  \* the last write of each item that was confirmed on this page
  writes

vars == <<catalog, shown, form, sheet, call, refreshes, confirmed, writes>>

Absent == [write |-> 0, live |-> FALSE]
EmptyForm == [edits |-> New, for |-> New]
NoCall == [step |-> "none", op |-> "none", kind |-> "product", item |-> New, for |-> New, write |-> 0]
Unread == [i \in Item |-> Absent]

isSaving == call.step # "none"

Init ==
  /\ catalog = [i \in Item |-> Absent]
  /\ shown = [i \in Item |-> Absent]
  /\ form = [k \in Kinds |-> EmptyForm]
  /\ sheet = FALSE
  /\ call = NoCall
  /\ refreshes = <<>>
  /\ confirmed = [i \in Item |-> 0]
  /\ writes = 0

-----------------------------------------------------------------------------
(* The forms *)

openCreateProduct ==
  /\ ~isSaving /\ ~sheet
  /\ form' = [form EXCEPT !["product"] = EmptyForm]
  /\ sheet' = TRUE
  /\ UNCHANGED <<catalog, shown, call, refreshes, confirmed, writes>>

openEditProduct(p) ==
  /\ ~isSaving /\ ~sheet
  /\ shown[p].live
  /\ form' = [form EXCEPT !["product"] = [edits |-> p, for |-> p]]
  /\ sheet' = TRUE
  /\ UNCHANGED <<catalog, shown, call, refreshes, confirmed, writes>>

\* Dismissing the sheet resets its form; its Cancel button only closes it.
CloseSheet ==
  /\ ~isSaving /\ sheet
  /\ sheet' = FALSE
  /\ form' \in {form, [form EXCEPT !["product"] = EmptyForm]}
  /\ UNCHANGED <<catalog, shown, call, refreshes, confirmed, writes>>

EditCategoryInSheet(c) ==
  /\ ~isSaving /\ ~sheet
  /\ shown[c].live
  /\ form' = [form EXCEPT !["product"] = [edits |-> c, for |-> c]]
  /\ UNCHANGED <<catalog, shown, sheet, call, refreshes, confirmed, writes>>
editCategory(c) ==
  /\ ~isSaving /\ ~sheet
  /\ shown[c].live
  /\ form' = [form EXCEPT !["category"] = [edits |-> c, for |-> c]]
  /\ UNCHANGED <<catalog, shown, sheet, call, refreshes, confirmed, writes>>

cancelCategory ==
  /\ ~isSaving /\ ~sheet
  /\ form["category"].edits # New
  /\ form' = [form EXCEPT !["category"] = EmptyForm]
  /\ UNCHANGED <<catalog, shown, sheet, call, refreshes, confirmed, writes>>

-----------------------------------------------------------------------------
(* Requests *)

Ask(op, kind, item, for) ==
  /\ ~isSaving
  /\ call' = [step |-> "sent", op |-> op, kind |-> kind, item |-> item, for |-> for, write |-> 0]
  /\ UNCHANGED <<catalog, shown, form, sheet, refreshes, confirmed, writes>>

\* An edited item is updated, anything else is created.
handleProductSubmit ==
  sheet /\ Ask("save", "product", form["product"].edits, form["product"].for)

handleCategorySubmit ==
  ~sheet /\ Ask("save", "category", form["category"].edits, form["category"].for)

handleProductDelete(p) == ~sheet /\ shown[p].live /\ Ask("delete", "product", p, p)

handleCategoryDelete(c) == ~sheet /\ shown[c].live /\ Ask("delete", "category", c, c)

Row(live) == [write |-> writes + 1, live |-> live]

\* The service applies the request; an id is never given twice.
Serve ==
  /\ call.step = "sent"
  /\ writes < MaxWrites
  /\ \E i \in Items(call.kind) :
       /\ IF call.item = New THEN catalog[i] = Absent ELSE i = call.item /\ catalog[i].live
       /\ catalog' = [catalog EXCEPT ![i] = Row(call.op = "save")]
       /\ call' = [call EXCEPT !.step = "served", !.item = i, !.write = writes + 1]
  /\ writes' = writes + 1
  /\ UNCHANGED <<shown, form, sheet, refreshes, confirmed>>

Refresh == Append(refreshes, Unread)

\* The list takes the answer, a saved form is reset, the page is refreshed.
Answered ==
  /\ call.step = "served"
  /\ Len(refreshes) < MaxRefreshes
  /\ shown' = [shown EXCEPT ![call.item] = [write |-> call.write, live |-> call.op = "save"]]
  /\ IF call.op = "save"
     THEN /\ form' = [form EXCEPT ![call.kind] = EmptyForm]
          /\ sheet' = FALSE
     ELSE UNCHANGED <<form, sheet>>
  /\ refreshes' = Refresh
  /\ confirmed' = [confirmed EXCEPT ![call.item] = call.write]
  /\ call' = NoCall
  /\ UNCHANGED <<catalog, writes>>

\* The request is refused or lost, or only its answer is: the form stays as
\* it is, to be submitted again.
Failed ==
  /\ isSaving
  /\ call' = NoCall
  /\ UNCHANGED <<catalog, shown, form, sheet, refreshes, confirmed, writes>>

-----------------------------------------------------------------------------
(* The page around the forms *)

\* The first refresh under way reads the catalog; the next ones wait for it.
Read ==
  /\ refreshes # <<>> /\ Head(refreshes) = Unread
  /\ refreshes' = <<catalog>> \o Tail(refreshes)
  /\ UNCHANGED <<catalog, shown, form, sheet, call, confirmed, writes>>

\* New initialProducts and initialCategories replace the lists.
Land ==
  /\ refreshes # <<>> /\ Head(refreshes) # Unread
  /\ shown' = Head(refreshes)
  /\ refreshes' = Tail(refreshes)
  /\ UNCHANGED <<catalog, form, sheet, call, confirmed, writes>>

OtherWrite(i) ==
  /\ writes < MaxWrites
  /\ catalog' \in {[catalog EXCEPT ![i] = Row(live)] : live \in
                     IF catalog[i].live THEN BOOLEAN
                     ELSE IF catalog[i] = Absent THEN {TRUE} ELSE {}}
  /\ writes' = writes + 1
  /\ UNCHANGED <<shown, form, sheet, call, refreshes, confirmed>>

Next ==
  \/ openCreateProduct \/ CloseSheet \/ cancelCategory
  \/ handleProductSubmit \/ handleCategorySubmit
  \/ \E p \in Product : openEditProduct(p) \/ handleProductDelete(p)
  \/ \E c \in Category : editCategory(c) \/ handleCategoryDelete(c)
  \/ \E i \in Item : OtherWrite(i)
  \/ Serve \/ Answered \/ Failed \/ Read \/ Land

Spec == Init /\ [][Next]_vars

-----------------------------------------------------------------------------
(* Properties *)

State == [write : 0..MaxWrites, live : BOOLEAN]

TypeOK ==
  /\ catalog \in [Item -> State]
  /\ shown \in [Item -> State]
  /\ form \in [Kinds -> [edits : Item \union {New}, for : Item \union {New}]]
  /\ \A k \in Kinds : form[k].edits \in Items(k) \union {New}
  /\ sheet \in BOOLEAN
  /\ call \in [step : {"none", "sent", "served"}, op : {"none", "save", "delete"}, kind : Kinds,
               item : Item \union {New}, for : Item \union {New}, write : 0..MaxWrites]
  /\ Len(refreshes) <= MaxRefreshes /\ \A n \in 1..Len(refreshes) : refreshes[n] \in [Item -> State]
  /\ confirmed \in [Item -> 0..MaxWrites]
  /\ writes \in 0..MaxWrites

\* A form opened to add an item never overwrites one that an earlier, cancelled
\* edit left behind, and an edit is sent for the item whose form was opened.
SavesWhatWasOpened == call.step = "sent" => call.item = call.for

\* A page at rest shows what was last confirmed on it, or something newer:
\* a refresh that read the catalog before a change does not have the last word.
RestShowsOwnWork ==
  ~isSaving /\ refreshes = <<>> => \A i \in Item : shown[i].write >= confirmed[i]
=============================================================================
