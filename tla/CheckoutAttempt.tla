--------------------------- MODULE CheckoutAttempt ---------------------------
(***************************************************************************)
(* The storefront's way through a payment, in one or more tabs of one       *)
(* signed-in customer: the persisted cart (cartStore.ts), the attempt and   *)
(* the return record each tab keeps (checkout-session.ts), the payment step *)
(* (StripePaymentForm.tsx, CheckoutForm.tsx), the answer of payment-service *)
(* to an attempt (createCheckoutSession) and the return page.               *)
(*                                                                          *)
(* The cart of a tab is a copy in memory: every change writes the whole     *)
(* cart to localStorage, and no tab listens to the writes of another.       *)
(* An item stands for a product, its variant and its quantity.  A session   *)
(* is named by the attempt that made it, as its idempotency key is.         *)
(***************************************************************************)
EXTENDS Integers, FiniteSets, Sequences, SequencesExt

CONSTANTS
  Tab, Item,
  Form,        \* contents of the delivery form
  NoForm,
  MaxAttempts, \* bound on the attempts made by all the tabs
  MaxEdits     \* bound on the changes of carts and forms

\* What is asked of the constants.
CheckoutAttemptAssumption ==
  NoForm \notin Form /\ MaxAttempts \in Nat /\ MaxEdits \in Nat /\ IsFiniteSet(Item)

VARIABLES
  disk,    \* localStorage "cart"
  tab,     \* memory and sessionStorage of each tab
  sent,    \* requests on their way to payment-service
  session, \* payment-service's record of an attempt, and Stripe's session for it
  used,    \* attempts made so far
  lapsed,  \* attempts whose hour ended, by the browser's clock, while a tab kept them
  edits

vars == <<disk, tab, sent, session, used, lapsed, edits>>

Attempt == 1..MaxAttempts
Carts == {c \in UNION {[1..n -> Item] : n \in 0..Cardinality(Item)} : IsInjective(c)}

\* cartSignature sorts, so it is the contents; the server hashes the cart as sent.
Signature(cart) == ToSet(cart)

NoAttempt == [id |-> 0, signature |-> {}]
Quiet == [asked |-> 0, shown |-> 0, refused |-> "no", synced |-> 0, stuck |-> FALSE]
Shop == [page |-> "shop", cart |-> <<>>, form |-> NoForm, saved |-> NoAttempt,
         memo |-> {}, back |-> 0, pay |-> Quiet]
NoTab == "none"
NoRecord == [by |-> NoTab, cart |-> <<>>, status |-> "none", email |-> NoForm,
             address |-> NoForm, acknowledged |-> FALSE]

Init ==
  /\ disk = <<>>
  /\ tab = [t \in Tab |-> Shop]
  /\ sent = {}
  /\ session = [a \in Attempt |-> NoRecord]
  /\ used = 0
  /\ lapsed = {}
  /\ edits = 0

Edit == edits < MaxEdits /\ edits' = edits + 1

-----------------------------------------------------------------------------
(* The cart and the delivery form *)

SetCart(t, cart) ==
  /\ tab[t].page = "shop"
  /\ Edit
  /\ tab' = [tab EXCEPT ![t].cart = cart]
  /\ disk' = cart
  /\ UNCHANGED <<sent, session, used, lapsed>>

AddToCart(t, i) ==
  /\ i \notin ToSet(tab[t].cart)
  /\ SetCart(t, Append(tab[t].cart, i))

\* The filter leaves out one line: no cart holds two of an item.
RemoveFromCart(t, i) ==
  \E k \in DOMAIN tab[t].cart :
    tab[t].cart[k] = i /\ SetCart(t, RemoveAt(tab[t].cart, k))

SetShippingForm(t, f) ==
  /\ tab[t].page = "shop"
  /\ tab[t].form # f
  /\ Edit
  /\ tab' = [tab EXCEPT ![t].form = f]
  /\ UNCHANGED <<disk, sent, session, used, lapsed>>

-----------------------------------------------------------------------------
(* The payment step *)

\* checkoutAttempt: a saved attempt with this signature that has not expired.
Reusable(state) == /\ state.saved.id \notin lapsed \union {0}
                   /\ state.saved.signature = Signature(state.cart)

\* A tab arrives at the payment step, or its effect runs again: the request in
\* hand is abandoned, and the attempt is asked for with the cart as it stands.
Ask(t, state) ==
  /\ Reusable(state) \/ used < MaxAttempts
  /\ LET id == IF Reusable(state) THEN state.saved.id ELSE used + 1 IN
     /\ tab' = [tab EXCEPT ![t] =
          [state EXCEPT !.page = "pay",
                        !.saved = [id |-> id, signature |-> Signature(state.cart)],
                        !.pay = [Quiet EXCEPT !.asked = id]]]
     /\ sent' = sent \union {[by |-> t, attempt |-> id, cart |-> state.cart]}
     /\ used' = IF Reusable(state) THEN used ELSE id
     /\ session' = [session EXCEPT ![id].by = t]
  /\ UNCHANGED <<disk, lapsed, edits>>

\* getAllowedCheckoutStep: no payment step without items and delivery details.
MayPay(state) == state.cart # <<>> /\ state.form # NoForm

OpenPayment(t) ==
  /\ tab[t].page = "shop"
  /\ MayPay(tab[t])
  /\ Ask(t, tab[t])

RetryCheckout(t) ==
  /\ tab[t].page = "pay"
  /\ tab[t].pay.refused # "no"
  /\ Ask(t, tab[t])

\* Back to the cart, the delivery form or the shop.
GoShopping(t) ==
  /\ tab[t].page # "shop"
  /\ tab' = [tab EXCEPT ![t].page = "shop", ![t].pay = Quiet]
  /\ UNCHANGED <<disk, sent, session, used, lapsed, edits>>

\* A reload takes the cart from localStorage and keeps sessionStorage.
Reload(t) ==
  LET state == [tab[t] EXCEPT !.cart = disk, !.pay = Quiet] IN
  IF tab[t].page = "pay" /\ MayPay(state)
  THEN Ask(t, state)
  ELSE /\ tab' = [tab EXCEPT ![t] =
            [state EXCEPT !.page = IF @ = "pay" THEN "shop" ELSE @]]
       /\ UNCHANGED <<disk, sent, session, used, lapsed, edits>>

\* What createCheckoutSession makes of a request, <<status of the record, answer>>.
\* The record is saved before the stock is held and Stripe is called.
Outcomes(r, record) ==
  IF record.status # "none" /\ record.cart # r.cart
  THEN {<<record.status, "otherCart">>}
  ELSE CASE record.status = "none" -> {<<"none", "failed">>, <<"saved", "failed">>, <<"open", "no">>}
         [] record.status \in {"saved", "open"} -> {<<record.status, "failed">>, <<"open", "no">>}
         [] OTHER -> {<<record.status, "ended">>}

\* The tab still waits for the answer, and hears it: rememberCheckout comes
\* before the payment form.
Answered(t, r, answer) ==
  IF answer = "no"
  THEN [tab EXCEPT ![t].memo = @ \union {[session |-> r.attempt, signature |-> Signature(r.cart)]},
                   ![t].pay.shown = r.attempt, ![t].pay.asked = 0]
  ELSE [tab EXCEPT ![t].pay.refused = answer, ![t].pay.asked = 0]

CreateCheckoutSession(r) ==
  LET record == session[r.attempt]
      waits == tab[r.by].pay.asked = r.attempt
  IN
  /\ r \in sent
  /\ sent' = sent \ {r}
  /\ \E o \in Outcomes(r, record) :
       /\ session' = [session EXCEPT ![r.attempt] =
            [record EXCEPT !.cart = IF o[1] = "none" \/ @ # <<>> THEN @ ELSE r.cart,
                           !.status = o[1]]]
       /\ \/ waits /\ tab' = Answered(r.by, r, o[2])
          \/ waits /\ tab' = Answered(r.by, r, "failed")    \* lost, or the 20 s are over
          \/ ~waits /\ UNCHANGED tab                        \* aborted
  /\ UNCHANGED <<disk, used, lapsed, edits>>

\* syncCheckoutDetails: e-mail and phone, then the address; the first call that
\* fails ends it.  A refused request leaves the record as it was.
SyncDetails(t) ==
  LET p == tab[t].pay IN
  /\ p.shown # 0 /\ p.synced < 2 /\ ~p.stuck
  /\ \/ /\ session[p.shown].status = "open"
        /\ tab' = [tab EXCEPT ![t].pay.synced = @ + 1]
        /\ session' = IF p.synced = 0 THEN [session EXCEPT ![p.shown].email = tab[t].form]
                                      ELSE [session EXCEPT ![p.shown].address = tab[t].form]
     \/ tab' = [tab EXCEPT ![t].pay.stuck = TRUE] /\ UNCHANGED session
  /\ UNCHANGED <<disk, sent, used, lapsed, edits>>

\* confirm(): Stripe takes the money of an open session.  The customer lands on
\* the return page, paid or turned down by his bank, or the answer is lost and
\* the tab stays.
Land(t) ==
  tab' = [tab EXCEPT ![t].page = "return", ![t].back = tab[t].pay.shown,
                     ![t].cart = disk, ![t].pay = Quiet]

Confirm(t) ==
  LET p == tab[t].pay IN
  /\ p.shown # 0 /\ p.synced = 2
  /\ session[p.shown].status = "open"
  /\ \/ session' = [session EXCEPT ![p.shown].status = "paid"] /\ (Land(t) \/ UNCHANGED tab)
     \/ UNCHANGED session /\ Land(t)
  /\ UNCHANGED <<disk, sent, used, lapsed, edits>>

-----------------------------------------------------------------------------
(* The return page, and time *)

\* consumeCheckout: the record of this session is used up, and the cart goes
\* only if it is still the one that was paid.
Matches(t, m) == m.signature = Signature(tab[t].cart)

VerifySession(t) ==
  LET paid == tab[t].back IN
  /\ tab[t].page = "return"
  /\ session[paid].status = "paid"
  /\ \E m \in tab[t].memo :
       /\ m.session = paid
       /\ IF Matches(t, m)
          THEN /\ tab' = [tab EXCEPT ![t].memo = @ \ {m}, ![t].saved = NoAttempt,
                                     ![t].cart = <<>>, ![t].form = NoForm]
               /\ disk' = <<>>
               /\ session' = [session EXCEPT ![paid].acknowledged = TRUE]
          ELSE /\ tab' = [tab EXCEPT ![t].memo = @ \ {m}]
               /\ UNCHANGED <<disk, session>>
  /\ UNCHANGED <<sent, used, lapsed, edits>>

\* The hour of the saved attempt, by the browser's clock.
AttemptExpires(t) ==
  /\ tab[t].saved.id \notin lapsed \union {0}
  /\ lapsed' = lapsed \union {tab[t].saved.id}
  /\ UNCHANGED <<disk, tab, sent, session, used, edits>>

\* The hour of the snapshot, which is also when Stripe closes the session.
SessionExpires(a) ==
  /\ session[a].status \in {"saved", "open"}
  /\ session' = [session EXCEPT ![a].status = "expired"]
  /\ UNCHANGED <<disk, tab, sent, used, lapsed, edits>>

Next ==
  \/ \E t \in Tab : \/ \E i \in Item : AddToCart(t, i) \/ RemoveFromCart(t, i)
                    \/ \E f \in Form : SetShippingForm(t, f)
                    \/ OpenPayment(t) \/ RetryCheckout(t) \/ GoShopping(t) \/ Reload(t)
                    \/ SyncDetails(t) \/ Confirm(t) \/ VerifySession(t) \/ AttemptExpires(t)
  \/ \E r \in sent : CreateCheckoutSession(r)
  \/ \E a \in Attempt : SessionExpires(a)

Spec == Init /\ [][Next]_vars

-----------------------------------------------------------------------------
(* Properties *)

Ids == 0..MaxAttempts

TypeOK ==
  /\ disk \in Carts
  /\ \A t \in Tab :
       /\ tab[t].page \in {"shop", "pay", "return"}
       /\ tab[t].cart \in Carts
       /\ tab[t].form \in Form \union {NoForm}
       /\ tab[t].saved \in [id : Ids, signature : SUBSET Item]
       /\ tab[t].memo \subseteq [session : Attempt, signature : SUBSET Item]
       /\ tab[t].back \in Ids
       /\ tab[t].pay \in [asked : Ids, shown : Ids, synced : 0..2, stuck : BOOLEAN,
                          refused : {"no", "failed", "otherCart", "ended"}]
  /\ sent \subseteq [by : Tab, attempt : Attempt, cart : Carts]
  /\ session \in [Attempt -> [by : Tab \union {NoTab}, cart : Carts,
                              status : {"none", "saved", "open", "paid", "expired"},
                              email : Form \union {NoForm}, address : Form \union {NoForm},
                              acknowledged : BOOLEAN]]
  /\ used \in Ids /\ lapsed \subseteq Attempt /\ edits \in 0..MaxEdits

\* One tab does not pay twice for a cart it has not changed.  Reloads, retries,
\* lost answers and walks through the shop between the two payments included,
\* until the first one has been acknowledged or the attempt's hour is over.
\* (Attempts are numbered: b is the next attempt of the tab after a.)
Paid(a) == session[a].status = "paid"
NextOf(a, b) == /\ a < b /\ session[a].by = session[b].by
                /\ \A c \in (a + 1)..(b - 1) : session[c].by # session[a].by
NotPaidTwice ==
  \A a, b \in Attempt :
    (NextOf(a, b) /\ Paid(a) /\ Paid(b) /\ Signature(session[a].cart) = Signature(session[b].cart))
      => session[a].acknowledged \/ a \in lapsed

\* Of every step: the copy of the cart that a tab empties after a payment is, item for item,
\* the cart that payment-service priced and Stripe charged, however the tab came by it.
\* That is all the tab compares: the stored cart goes too, whatever another tab has made of it
\* meanwhile (AdditionsAreKept).
ClearedCopyWasPaid ==
  \A t \in Tab : (tab[t].page = "return" /\ tab[t].cart # <<>> /\ tab'[t].page = "return"
                 /\ tab'[t].cart = <<>> /\ tab'[t].saved = NoAttempt /\ disk # <<>> /\ disk' = <<>>)
    => Signature(tab[t].cart) = Signature(session[tab[t].back].cart)

\* "Adding items while payment is underway cannot silently erase the additions"
\* (docs/OPERATIONS.md:29): what is stored and was not paid for is still stored after the
\* return page has made up its mind.
AdditionsAreKept ==
  [][\A t \in Tab : VerifySession(t) =>
       Signature(disk) \ Signature(session[tab[t].back].cart) \subseteq Signature(disk')]_vars

\* Of every step: the customer pays for a session that carries the delivery details his tab
\* shows, both halves of them, although he may have edited them and come back,
\* and each of the calls that carry them may fail.
PaidWithTheDetailsShown ==
  \A a \in Attempt : (session[a].status = "open" /\ session'[a].status = "paid")
    => \E t \in Tab : /\ tab[t].pay.shown = a
                      /\ session[a].email = tab[t].form /\ session[a].address = tab[t].form

=============================================================================
