---------------------------- MODULE CheckoutSteps ----------------------------
(***************************************************************************)
(* The three steps of the cart page: bag, delivery details, payment         *)
(* (CartClient.tsx, ShippingForm.tsx, lib/checkout.ts, checkoutStore.ts).   *)
(* The step shown follows from the address, the bag and the details; the    *)
(* page corrects an address that says something else.  Navigation is        *)
(* asynchronous: the page stays in use until it is done, and a later        *)
(* navigation takes the place of one that is not.                           *)
(***************************************************************************)
EXTENDS Integers, Sequences

CONSTANTS
  Field,                        \* fields of the delivery form
  MaxTyped, MaxPushes, MaxMoves \* bounds: keystrokes, links followed, loads and moves through the history

\* What is asked of the constants.
CheckoutStepsAssumption == {MaxTyped, MaxPushes, MaxMoves} \subseteq Nat

VARIABLES
  history, at,  \* the tab's history, and the entry it is at
  pending,      \* the navigation that is not done yet
  hasMounted, items,
  shippingForm, \* checkoutStore, kept in sessionStorage
  values, errors,
  typed, pushes, moves

vars == <<history, at, pending, hasMounted, items, shippingForm, values, errors, typed, pushes, moves>>

\* Values of ?step=: none, a number in another spelling, nonsense.
Step == {"", "1", "2", "3", "03", "junk"}

normalizeCheckoutStep(step) ==
  CASE step = "2" -> 2 [] step \in {"3", "03"} -> 3 [] OTHER -> 1

\* Contents of a field: blank or malformed, right but untidy, tidy, tidy too.
Value == {"", "ny", "NY", "CA"}
Blank == [f \in Field |-> ""]
Refused(v) == v = ""
Tidy(v) == IF v = "ny" THEN "NY" ELSE v
NoDetails == Blank

Valid(form) == \A f \in Field : ~Refused(form[f])
TidyForm(form) == [f \in Field |-> Tidy(form[f])]

Allowed(step, has, details) ==
  CASE ~has -> 1
    [] step = 3 /\ details = NoDetails -> 2
    [] OTHER -> step

Active(step, mounted, has, details) ==
  IF mounted THEN Allowed(normalizeCheckoutStep(step), has, details)
  ELSE normalizeCheckoutStep(step)

activeStep == Active(history[at], hasMounted, items, shippingForm)

Spelled(step) == CASE step = 2 -> "2" [] step = 3 -> "3" [] OTHER -> "1"
Href(step) == IF step = 1 THEN "" ELSE Spelled(step)
Canonical(step, active) == IF active = 1 THEN step = "" ELSE step = Spelled(active)

Idle == [kind |-> "none", to |-> ""]

\* The effect on [activeStep, hasMounted, searchParams].
Correct(step, mounted, has, details) ==
  LET active == Active(step, mounted, has, details) IN
  IF mounted /\ ~Canonical(step, active) THEN [kind |-> "replace", to |-> Href(active)] ELSE Idle

\* ShippingForm mounts with the saved details when the second step appears.
Mounts(before, after, details) ==
  IF after = 2 /\ before # 2 THEN values' = details /\ errors' = {} ELSE UNCHANGED <<values, errors>>

Init ==
  /\ history \in {<<s>> : s \in Step} /\ at = 1 /\ pending = Idle
  /\ hasMounted = FALSE /\ items \in BOOLEAN
  /\ shippingForm \in {NoDetails, [f \in Field |-> "NY"]}
  /\ values = Blank /\ errors = {}
  /\ typed = 0 /\ pushes = 0 /\ moves = 0

-----------------------------------------------------------------------------
(* The page *)

\* A change of the address, of the bag or of the details, and what follows.
Becomes(step, mounted, has, details) ==
  LET active == Active(step, mounted, has, details) IN
  /\ hasMounted' = mounted /\ items' = has /\ shippingForm' = details
  /\ pending' = Correct(step, mounted, has, details)
  /\ Mounts(IF hasMounted THEN activeStep ELSE 0, IF mounted THEN active ELSE 0, details)

Mount ==
  /\ ~hasMounted
  /\ Becomes(history[at], TRUE, items, shippingForm)
  /\ UNCHANGED <<history, at, typed, pushes, moves>>

\* The router arrives; it adds no entry for the address it is at.
Adds == pending.kind = "push" /\ pending.to # history[at]
Navigate ==
  /\ pending # Idle
  /\ IF Adds
     THEN history' = Append(SubSeq(history, 1, at), pending.to) /\ at' = at + 1
     ELSE history' = [history EXCEPT ![at] = pending.to] /\ at' = at
  /\ Becomes(pending.to, hasMounted, items, shippingForm)
  /\ UNCHANGED <<typed, pushes, moves>>

Pushed(step) == [kind |-> "push", to |-> Spelled(step)]
Follow == pushes < MaxPushes /\ pushes' = pushes + 1
Push(step) == Follow /\ pending' = Pushed(step)

\* "Continue to checkout", "Back to cart", "Edit shipping".
FollowButton ==
  /\ hasMounted
  /\ \/ activeStep = 1 /\ items /\ Push(2)
     \/ activeStep = 2 /\ Push(1)
     \/ activeStep = 3 /\ Push(2)
  /\ UNCHANGED <<history, at, hasMounted, items, shippingForm, values, errors, typed, moves>>

\* The last line of the bag goes.
RemoveItems ==
  /\ hasMounted /\ activeStep = 1 /\ items
  /\ items' = FALSE
  /\ UNCHANGED <<history, at, pending, hasMounted, shippingForm, values, errors, typed, pushes, moves>>

-----------------------------------------------------------------------------
(* The delivery form *)

Forgiven(f) == errors \ {f}

updateField(f, v) ==
  /\ hasMounted /\ activeStep = 2 /\ v # values[f]
  /\ typed < MaxTyped /\ typed' = typed + 1
  /\ values' = [values EXCEPT ![f] = v]
  /\ errors' = Forgiven(f)
  /\ UNCHANGED <<history, at, pending, hasMounted, items, shippingForm, pushes, moves>>

\* The form shows the details it has just saved: its effect on initialValues.
\* At an address that asked for the payment already, the page moves on by itself.
Parsed(form) == TidyForm(form)
handleShippingForm ==
  /\ hasMounted /\ activeStep = 2
  /\ IF Valid(values)
     THEN /\ shippingForm' = Parsed(values) /\ values' = Parsed(values) /\ errors' = {}
          /\ Follow
          /\ LET moved == Correct(history[at], TRUE, items, shippingForm')
             IN pending' = IF Active(history[at], TRUE, items, shippingForm') = 3 /\ moved # Idle
                           THEN moved ELSE Pushed(3)
     ELSE /\ errors' = {f \in Field : Refused(values[f])}
          /\ UNCHANGED <<shippingForm, values, pending, pushes>>
  /\ UNCHANGED <<history, at, hasMounted, items, typed, moves>>

-----------------------------------------------------------------------------
(* The browser *)

Move == moves < MaxMoves /\ moves' = moves + 1

\* Back and forward drop a navigation that is not done.
GoTo(n) ==
  /\ Move /\ n \in {at - 1, at + 1} \cap DOMAIN history
  /\ at' = n
  /\ Becomes(history[n], hasMounted, items, shippingForm)
  /\ UNCHANGED <<history, typed, pushes>>

\* A reload or a return to the page: merge takes what sessionStorage has if it
\* parses.  Meanwhile the visitor may have filled the bag, or have paid.
Load(has, paid) ==
  /\ Move
  /\ items' = has
  /\ shippingForm' = IF ~paid /\ Valid(shippingForm) THEN TidyForm(shippingForm) ELSE NoDetails
  /\ hasMounted' = FALSE /\ pending' = Idle /\ values' = Blank /\ errors' = {}
  /\ UNCHANGED <<history, at, typed, pushes>>

Next ==
  \/ Mount \/ Navigate \/ FollowButton \/ RemoveItems \/ handleShippingForm
  \/ \E f \in Field, v \in Value : updateField(f, v)
  \/ \E n \in DOMAIN history : GoTo(n)
  \/ \E has \in BOOLEAN : Load(has, FALSE)
  \/ Load(FALSE, TRUE)

Spec == Init /\ [][Next]_vars

-----------------------------------------------------------------------------
(* Properties *)

TypeOK ==
  /\ history \in Seq(Step) /\ at \in DOMAIN history
  /\ pending \in [kind : {"none", "push", "replace"}, to : Step]
  /\ {hasMounted, items} \subseteq BOOLEAN
  /\ shippingForm = NoDetails \/ \A f \in Field : shippingForm[f] \in Value \ {""}
  /\ values \in [Field -> Value] /\ errors \subseteq Field

\* Corrections of the address leave no entries behind: Back, pressed once for
\* every link followed, leaves the page.
BackLeaves == Len(history) <= 1 + pushes

\* Of every step: a load of a visitor who has not paid meanwhile finds the details as they
\* were taken: what the form stored parses again, and parsing it once more changes nothing.
ReloadKeepsDetails == \A has \in BOOLEAN : Load(has, FALSE) => shippingForm' = shippingForm

\* Every address, tidy or not, comes to rest at the step the visitor sees: the
\* page, which mounts and whose router arrives, never redirects for ever.
AtRest == hasMounted /\ pending = Idle /\ Canonical(history[at], activeStep)
=============================================================================
