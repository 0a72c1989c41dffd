----------------------------- MODULE PaymentForm -----------------------------
(* The payment form of one Stripe session (CheckoutForm.tsx): it carries    *)
(* the delivery details to Stripe in three calls, loads the card fields,    *)
(* and confirms.  Each of these may fail; the customer may leave at any     *)
(* time and come back with other details, while a call of the form he left  *)
(* is still on its way.  Stripe takes the calls for a session in order.     *)
EXTENDS Naturals, Sequences, SequencesExt

CONSTANTS
  Details,    \* contents of the delivery form
  Nothing,
  MaxVisits,  \* bounds: forms mounted for the session
  MaxFaults   \* and calls and loads that fail

\* What is asked of the constants.
PaymentFormAssumption ==
  Nothing \notin Details /\ MaxVisits \in Nat /\ MaxFaults \in Nat

Fields == <<"email", "phone", "address">>

VARIABLES
  visit,      \* the number of the form that is, or was last, on the page
  page,       \* "away", "form", "return"
  shown,      \* the details the form shows
  provider,   \* Stripe's checkout: "loading", "success", "error"
  sync,       \* "idle", the field being carried, "failed", "done"
  element,    \* the card fields: "loading", "ready", "failed", or "dead": no answer will come
  filledIn,   \* canConfirm
  confirming, \* the button is busy
  calls,      \* on their way to Stripe
  held,       \* what Stripe has for each field
  paid,       \* what it had when it took the money
  agreed,     \* what the customer saw when he pressed the button
  faults

form == <<visit, page, shown, provider, sync, element, filledIn, confirming>>
stripe == <<held, paid>>
vars == <<form, calls, stripe, agreed, faults>>

detailsReady == sync = "done"
isSyncingDetails == sync \in ToSet(Fields)

Init ==
  /\ visit = 0 /\ page = "away" /\ shown \in Details
  /\ provider = "loading" /\ sync = "idle" /\ element = "loading"
  /\ filledIn = FALSE /\ confirming = FALSE
  /\ calls = <<>> /\ held = [f \in ToSet(Fields) |-> Nothing]
  /\ paid = <<>> /\ agreed = [v \in 1 .. MaxVisits |-> Nothing] /\ faults = 0

Fault == faults < MaxFaults /\ faults' = faults + 1
Call(what) == Append(calls, [visit |-> visit, what |-> what, with |-> shown])

-----------------------------------------------------------------------------
(* The customer comes and goes.                                             *)

Arrive ==
  /\ page = "away" /\ visit < MaxVisits /\ visit' = visit + 1
  /\ page' = "form" /\ shown' \in Details
  /\ provider' = "loading" /\ sync' = "idle" /\ element' = "loading"
  /\ filledIn' = FALSE /\ confirming' = FALSE
  /\ UNCHANGED <<calls, stripe, agreed, faults>>

Leave ==
  /\ page = "form" /\ page' = "away"
  /\ UNCHANGED <<visit, shown, provider, sync, element, filledIn, confirming,
                 calls, stripe, agreed, faults>>

-----------------------------------------------------------------------------
(* Stripe's checkout, whose arrival sets off the synchronisation, and the   *)
(* card fields.                                                             *)

ProviderLoads ==
  /\ page = "form" /\ provider = "loading"
  /\ \/ provider' = "success" /\ sync' = "email" /\ calls' = Call("email") /\ UNCHANGED faults
     \/ provider' = "error" /\ Fault /\ UNCHANGED <<sync, calls>>
  /\ UNCHANGED <<visit, page, shown, element, filledIn, confirming, stripe, agreed>>

ElementLoads ==
  /\ page = "form" /\ provider = "success" /\ element = "loading"
  /\ \/ element' = "ready" /\ UNCHANGED faults
     \/ element' = "failed" /\ Fault
  /\ UNCHANGED <<visit, page, shown, provider, sync, filledIn, confirming, calls, stripe, agreed>>

(* "Reload payment details": a new element under a new key.                 *)
ReloadElement ==
  /\ page = "form" /\ element = "failed" /\ element' = "loading"
  /\ UNCHANGED <<visit, page, shown, provider, sync, filledIn, confirming,
                 calls, stripe, agreed, faults>>

FillIn ==
  /\ page = "form" /\ element = "ready" /\ ~filledIn /\ filledIn' = TRUE
  /\ UNCHANGED <<visit, page, shown, provider, sync, element, confirming,
                 calls, stripe, agreed, faults>>

-----------------------------------------------------------------------------
(* The button.                                                              *)

MayPay == /\ detailsReady /\ element = "ready" /\ filledIn
          /\ ~confirming /\ ~isSyncingDetails

handleSubmit ==
  /\ page = "form" /\ MayPay
  /\ confirming' = TRUE /\ calls' = Call("confirm")
  /\ agreed' = [agreed EXCEPT ![visit] = shown]
  /\ UNCHANGED <<visit, page, shown, provider, sync, element, filledIn, stripe, faults>>

-----------------------------------------------------------------------------
(* Stripe takes the next call, and the form hears, if it is still there.    *)

Field(what) == CHOOSE i \in DOMAIN Fields : Fields[i] = what

(* syncCheckoutDetails: the next call, unless this one failed.              *)
SyncGoesOn(done, ok) ==
  IF ~ok \/ done = "address"
    THEN sync' = (IF ok THEN "done" ELSE "failed") /\ calls' = Tail(calls)
    ELSE /\ sync' = Fields[Field(done) + 1]
         /\ calls' = Append(Tail(calls), [Head(calls) EXCEPT !.what = sync'])

(* A session that has been paid takes no more.                              *)
Landing(call, lands) ==
  IF lands /\ paid = <<>>
    THEN IF call.what = "confirm"
           THEN paid' = <<[visit |-> call.visit, held |-> held]>> /\ UNCHANGED held
           ELSE held' = [held EXCEPT ![call.what] = call.with] /\ UNCHANGED paid
    ELSE UNCHANGED stripe

ConfirmEnds(ok) ==
  confirming' = FALSE /\ page' = IF ok THEN "return" ELSE "form"

(* A call that does not land, or whose answer is lost, fails; so do those   *)
(* for a paid session.                                                      *)
StripeTakes ==
  /\ calls # <<>>
  /\ \E lands, ok \in BOOLEAN :
       LET call == Head(calls)
           there == page = "form" /\ call.visit = visit IN
       /\ ok => lands /\ paid = <<>>
       /\ IF ok \/ paid # <<>> THEN UNCHANGED faults ELSE Fault
       /\ Landing(call, lands)
       /\ CASE there /\ call.what = "confirm" -> ConfirmEnds(ok) /\ calls' = Tail(calls) /\ UNCHANGED sync
            [] there /\ call.what # "confirm" -> SyncGoesOn(call.what, ok) /\ UNCHANGED <<confirming, page>>
            [] OTHER -> calls' = Tail(calls) /\ UNCHANGED <<sync, confirming, page>>
  /\ UNCHANGED <<visit, shown, provider, element, filledIn, agreed>>

Next ==
  \/ Arrive \/ Leave \/ ProviderLoads \/ ElementLoads \/ ReloadElement \/ FillIn
  \/ handleSubmit \/ StripeTakes

Spec == Init /\ [][Next]_vars

-----------------------------------------------------------------------------
(* Every variable has its type.                                             *)
TypeOK ==
  /\ visit \in 0 .. MaxVisits /\ page \in {"away", "form", "return"} /\ shown \in Details
  /\ provider \in {"loading", "success", "error"}
  /\ sync \in {"idle", "failed", "done"} \cup ToSet(Fields)
  /\ element \in {"loading", "ready", "failed"}
  /\ filledIn \in BOOLEAN /\ confirming \in BOOLEAN
  /\ calls \in Seq([visit : 1 .. visit, what : ToSet(Fields) \cup {"confirm"}, with : Details])
  /\ held \in [ToSet(Fields) -> Details \cup {Nothing}]
  /\ faults \in 0 .. MaxFaults

(* The money is taken for the details the customer saw when he pressed the  *)
(* button, all three of them, though each is carried by a call of its own,  *)
(* any may fail, and those of a form he left are still on their way.        *)
PaidAsShown ==
  \A i \in DOMAIN paid : \A f \in ToSet(Fields) : paid[i].held[f] = agreed[paid[i].visit]

(* The form sends one call at a time, so that its calls cannot overtake     *)
(* each other.                                                              *)
OneCallAtATime ==
  \A i, j \in DOMAIN calls : calls[i].visit = calls[j].visit => i = j

(* The button does not stay busy, and card fields that failed to load do    *)
(* not keep the customer from paying: Stripe answers, and a customer who    *)
(* stays uses the buttons he has.                                           *)
ButtonIsBusy == page = "form" /\ confirming
FieldsAreMissing == page = "form" /\ element # "ready" /\ provider = "success"

=============================================================================
