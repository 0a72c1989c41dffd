---------------------------- MODULE SharedBrowser ----------------------------
(***************************************************************************)
(* Several accounts use the payment step and the return page of one tab     *)
(* (StripePaymentForm.tsx, ReturnClient.tsx and the routes under            *)
(* /api/checkout).  The cart belongs to the browser, a checkout session to  *)
(* an account.  A request carries the account of the cookie; the tab learns *)
(* of a change of account, made here or in another tab, a while later.      *)
(* A session is named by its owner and the attempt that asked for it.       *)
(***************************************************************************)
EXTENDS Integers, FiniteSets

CONSTANTS
  Account, Out,  \* Out: nobody is signed in
  MaxCart,       \* contents the cart may have; 0 is the empty one
  MaxPolls,      \* status checks of a visit to the return page
  MaxAsks, MaxSwitches, MaxEdits, MaxVisits  \* bounds

\* What is asked of the constants.
SharedBrowserAssumption ==
  /\ Out \notin Account
  /\ {MaxCart, MaxPolls, MaxAsks, MaxSwitches, MaxEdits, MaxVisits} \subseteq Nat
  /\ MaxPolls # 0

VARIABLES
  cookie, seen,   \* the account of the browser, and the one useAuth tells
  cart, saved,    \* the cart, and each account's attempt with its cart
  memo,           \* return records: session, account, cart
  page, form,     \* where the tab is, and the mounted payment step
  back,           \* the mounted return page
  sent,           \* requests payment-service has not handled
  session,        \* the sessions of payment-service
  asks, switches, edits, visits

vars == <<cookie, seen, cart, saved, memo, page, form, back, sent, session,
          asks, switches, edits, visits>>
bounds == <<asks, switches, edits, visits>>

Carts == 0..MaxCart
Session == Account \X (1..MaxAsks)

NoAttempt == [id |-> 0, cart |-> 0]
NoForm == [asked |-> 0, lag |-> FALSE, shown |-> {}, error |-> FALSE]
NoBack == [of |-> {}, phase |-> "done", as |-> Out, lag |-> FALSE, polls |-> 0,
           status |-> "processing", details |-> {}]

Init ==
  /\ cookie \in Account \union {Out} /\ seen = cookie
  /\ cart \in 1..MaxCart
  /\ saved = [u \in Account |-> NoAttempt] /\ memo = {}
  /\ page = "shop" /\ form = NoForm /\ back = NoBack
  /\ sent = {} /\ session = [s \in Session |-> [cart |-> 0, status |-> "none"]]
  /\ asks = 0 /\ switches = 0 /\ edits = 0 /\ visits = 0

-----------------------------------------------------------------------------
(* The payment step *)

\* The effect runs: the attempt saved for the account and this cart, or a new one.
Ask(user, c) ==
  /\ asks < MaxAsks /\ asks' = asks + 1
  /\ LET id == IF saved[user].cart = c /\ saved[user].id # 0 THEN saved[user].id ELSE asks'
     IN /\ saved' = [saved EXCEPT ![user] = [id |-> id, cart |-> c]]
        /\ sent' = sent \union {[n |-> asks', as |-> cookie, attempt |-> id, cart |-> c]}
  /\ form' = [NoForm EXCEPT !.asked = asks', !.lag = cookie # user]

Effect(user, c) ==
  IF user # Out /\ c # 0 THEN Ask(user, c)
  ELSE form' = NoForm /\ UNCHANGED <<saved, sent, asks>>

OpenPayment ==
  /\ page = "shop" /\ cart # 0
  /\ visits < MaxVisits /\ visits' = visits + 1
  /\ page' = "pay" /\ Effect(seen, cart)
  /\ UNCHANGED <<cookie, seen, cart, memo, back, session, switches, edits>>

RetryCheckout ==
  /\ page = "pay" /\ (form.error \/ seen = Out)
  /\ visits < MaxVisits /\ visits' = visits + 1
  /\ Effect(seen, cart)
  /\ UNCHANGED <<cookie, seen, cart, memo, page, back, session, switches, edits>>

\* A change of the cart abandons the request in hand.
ChangeCart(c) ==
  /\ c # cart /\ page # "return"
  /\ edits < MaxEdits /\ edits' = edits + 1
  /\ cart' = c
  /\ IF page = "pay" THEN Effect(seen, c) ELSE UNCHANGED <<form, saved, sent, asks>>
  /\ UNCHANGED <<cookie, seen, memo, page, back, session, switches, visits>>

GoShopping ==
  /\ page # "shop" /\ page' = "shop"
  /\ form' = NoForm /\ back' = NoBack
  /\ UNCHANGED <<cookie, seen, cart, saved, memo, sent, session, bounds>>

\* isActive and the abort signal: only the request of the last effect is heard.
AnyAnswer(r) == form.asked # 0
Heard(r) == form.asked = r.n

\* POST /api/checkout for the account of the request, and its answer.
Refused(r) ==
  /\ form' = IF Heard(r) THEN [form EXCEPT !.asked = 0, !.error = TRUE] ELSE form
  /\ UNCHANGED <<memo, session>>

Opened(r) ==
  LET own == <<r.as, r.attempt>> IN
  /\ r.as # Out
  /\ \/ session[own].status = "none"
     \/ session[own].status = "open" /\ session[own].cart = r.cart
  /\ session' = [session EXCEPT ![own] = [cart |-> r.cart, status |-> "open"]]
  /\ \/ /\ Heard(r)
        /\ memo' = memo \union {[session |-> own, user |-> seen, cart |-> cart, lag |-> form.lag]}
        /\ form' = [form EXCEPT !.asked = 0, !.shown = {own}]
     \/ UNCHANGED <<memo, form>>   \* the answer is lost

Checkout(r) ==
  /\ sent' = sent \ {r}
  /\ Refused(r) \/ Opened(r)
  /\ UNCHANGED <<cookie, seen, cart, saved, page, back, bounds>>

\* createCheckoutRequest gives up after 20 seconds (answers arrive with their body).
GivesUp == form.asked # 0
TimeOut ==
  /\ GivesUp
  /\ form' = [form EXCEPT !.asked = 0, !.error = TRUE]
  /\ UNCHANGED <<cookie, seen, cart, saved, memo, page, back, sent, session, bounds>>

\* What the payment step renders: the form of a session, or a notice.
FormShown ==
  IF page = "pay" /\ seen # Out /\ cart # 0 /\ ~form.error THEN form.shown ELSE {}

-----------------------------------------------------------------------------
(* The return page *)

\* A visit begins with a status check.
Verify(s, details) ==
  [of |-> s, phase |-> "asked", as |-> cookie, lag |-> FALSE, polls |-> 1,
   status |-> "processing", details |-> details]

\* confirm(): paid and redirected, or paid without the tab learning of it.
Confirm ==
  /\ \E s \in FormShown :
       /\ session[s].status = "open"
       /\ session' = [session EXCEPT ![s].status = "paid"]
  /\ \/ page' = "return" /\ back' = Verify(form.shown, {}) /\ form' = NoForm
     \/ UNCHANGED <<page, back, form>>
  /\ UNCHANGED <<cookie, seen, cart, saved, memo, sent, bounds>>

\* What the page renders of a payment, while it verifies it again included.
PaymentShown == IF page = "return" THEN back.details ELSE {}

\* Back to a return page from the browser's history, whoever is signed in now.
OpenReturn(s) ==
  /\ session[s].status # "none" /\ page # "return"
  /\ visits < MaxVisits /\ visits' = visits + 1
  /\ page' = "return" /\ back' = Verify({s}, {}) /\ form' = NoForm
  /\ UNCHANGED <<cookie, seen, cart, saved, memo, sent, session, asks, switches, edits>>

\* consumeCheckout: the record must be of this account, the cart still the same.
Consumable == {m \in memo : {m.session} = back.of /\ m.user = seen}
SameCartAlways(m) == cart # 0
SameCart(m) == m.cart = cart

Consume ==
  /\ memo' = memo \ Consumable
  /\ IF \E m \in Consumable : SameCart(m)
     THEN cart' = 0 /\ saved' = [saved EXCEPT ![seen] = NoAttempt]
     ELSE UNCHANGED <<cart, saved>>

\* The page stops asking after its last check.
PollsForever == FALSE
PollsUsedUp == back.polls = MaxPolls

\* GET /api/checkout/:id answers the owner only.
Status ==
  /\ page = "return" /\ back.phase = "asked"
  /\ \E s \in back.of :
       IF back.as = s[1] THEN
         LET paid == session[s].status = "paid" IN
         /\ back' = [back EXCEPT !.status = IF paid THEN "paid" ELSE "unpaid",
                                 !.details = {s}, !.lag = back.as # seen,
                                 !.phase = IF paid \/ PollsUsedUp THEN "done" ELSE "waits"]
         /\ IF paid /\ seen # Out THEN Consume ELSE UNCHANGED <<memo, cart, saved>>
       ELSE /\ back' = [back EXCEPT !.status = "unavailable", !.phase = "done"]
            /\ UNCHANGED <<memo, cart, saved>>
  /\ UNCHANGED <<cookie, seen, page, form, sent, session, bounds>>

\* The service or the network fails, or 15 seconds pass.
StatusFails ==
  /\ page = "return" /\ back.phase = "asked"
  /\ back' = [back EXCEPT !.status = "unavailable", !.phase = "done"]
  /\ UNCHANGED <<cookie, seen, cart, saved, memo, page, form, sent, session, bounds>>

Poll ==
  /\ page = "return" /\ back.phase = "waits"
  /\ back' = [back EXCEPT !.phase = "asked", !.as = cookie, !.polls = @ + 1]
  /\ UNCHANGED <<cookie, seen, cart, saved, memo, page, form, sent, session, bounds>>

VerifyAgain ==
  /\ page = "return" /\ back.status # "paid"
  /\ visits < MaxVisits /\ visits' = visits + 1
  /\ back' = [Verify(back.of, back.details) EXCEPT !.lag = back.lag]
  /\ UNCHANGED <<cookie, seen, cart, saved, memo, page, form, sent, session, asks, switches, edits>>

-----------------------------------------------------------------------------
(* Accounts *)

SwitchAccount(u) ==
  /\ u # cookie /\ switches < MaxSwitches
  /\ cookie' = u /\ switches' = switches + 1
  /\ UNCHANGED <<seen, cart, saved, memo, page, form, back, sent, session, asks, edits, visits>>

\* Both pages are keyed by the account: what the one before had is discarded.
Rekeyed == Verify(back.of, {})
NoticeAccount ==
  /\ seen # cookie /\ seen' = cookie
  /\ IF page = "pay" THEN Effect(cookie, cart) ELSE UNCHANGED <<form, saved, sent, asks>>
  /\ back' = IF page = "return" THEN Rekeyed ELSE back
  /\ UNCHANGED <<cookie, cart, memo, page, session, switches, edits, visits>>

Next ==
  \/ OpenPayment \/ RetryCheckout \/ GoShopping \/ TimeOut \/ Confirm
  \/ Status \/ StatusFails \/ Poll \/ VerifyAgain \/ NoticeAccount
  \/ \E c \in Carts : ChangeCart(c)
  \/ \E r \in sent : Checkout(r)
  \/ \E s \in Session : OpenReturn(s)
  \/ \E u \in Account \union {Out} : SwitchAccount(u)

Spec == Init /\ [][Next]_vars

-----------------------------------------------------------------------------
(* Properties *)

TypeOK ==
  /\ {cookie, seen} \subseteq Account \union {Out} /\ cart \in Carts
  /\ saved \in [Account -> [id : 0..MaxAsks, cart : Carts]]
  /\ memo \subseteq [session : Session, user : Account, cart : Carts, lag : BOOLEAN]
  /\ page \in {"shop", "pay", "return"}
  /\ form.asked \in 0..MaxAsks /\ Cardinality(form.shown) <= 1
  /\ back.polls \in 0..MaxPolls /\ Cardinality(back.details) <= 1
  /\ \A s \in Session : session[s].status = "none" <=> session[s].cart = 0

\* A payment form never stands before an account that does not own its session,
\* however requests, answers and changes of account overlap; only a request
\* sent between a change of account and the tab's notice of it can bring one.
FormIsForItsAccount == \A s \in FormShown : s[1] = seen \/ form.lag

\* Nor does the return page keep the details of a payment for the next account.
PaymentShownToItsBuyer ==
  \A s \in PaymentShown : s[1] = seen \/ back.lag

\* Of every step: a payment empties the cart only of the account that paid, and only when the
\* cart is what payment-service has sold; a record made in such a gap aside.
CartLeavesWithItsBuyer ==
  page = "return" /\ cart # 0 /\ cart' = 0 =>
    \E m \in memo : /\ {m.session} = back.of
                    /\ session[m.session].status = "paid"
                    /\ session[m.session].cart = cart
                    /\ m.session[1] = seen \/ m.lag

\* Neither page waits for ever for an answer that was lost: timers fire, and a
\* status check is answered or runs into its own.
FormWaits == form.asked # 0
ReturnWaits == page = "return" /\ back.phase # "done"
=============================================================================
