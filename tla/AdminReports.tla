---------------------------- MODULE AdminReports ----------------------------
(* The administration's overview, payments and customer pages: what they    *)
(* read from the payment service's stored checkouts, from the order         *)
(* service's list and from the diagnostic feed the payment service keeps in *)
(* memory, and how they add it up.                                          *)
(*                                                                          *)
(* A page reads its lists in parallel, each at a moment of its own, while   *)
(* purchases go on: a checkout is claimed, gets its session, is paid, is    *)
(* published and becomes an order.  One purchase therefore shows up in two  *)
(* lists, in one of them or in none, whatever the page was told first.      *)
EXTENDS Naturals, FiniteSets, SequencesExt

CONSTANTS
  Purchases,         \* checkouts; each names its session and payment intent
  Users,
  UserOf,            \* the customer of a purchase
  ActivityWindow,    \* stored checkouts an answer holds (100)
  OrderWindow,       \* orders of one answer (25)
  MaxEvents,         \* events the process keeps (50)
  ListLimit,         \* events of one answer (20)
  Pages,             \* the pages visited: "users", "overview", "payments"
  NoPurchase

\* What is asked of the constants.
ReportsAssumption ==
  /\ UserOf \in [Purchases -> Users]
  /\ {ActivityWindow, OrderWindow, MaxEvents, ListLimit} \subseteq Nat \ {0}
  /\ NoPurchase \notin Purchases

VARIABLES
  made,        \* rows of payment.checkout, oldest first
  opened,      \* those with a session id
  enqueued,    \* those whose paid session was accepted
  paid,        \* those with a stored payment
  published,   \* those whose payment event was published
  orders,      \* the orders, oldest first
  feed,        \* the process's diagnostic events, newest first
  arrived,     \* whether this process published a payment
  page,        \* the page that is open
  got,         \* what became of its reads
  activities, orderList, recentEvents,   \* what they returned
  known        \* what was paid when the page was opened; of the overview,
               \* what had arrived when its events were read

money == <<made, opened, enqueued, paid, published, orders>>
reads == <<got, activities, orderList, recentEvents>>
vars == <<money, feed, arrived, page, reads, known>>

Types == {"checkout.session.created", "checkout.session.status.loaded",
          "stripe.webhook.verified", "stripe.checkout.completed.fallback_failed"}
Events == [type : Types \cup {"payment.successful.published"},
           transaction : Purchases \cup {NoPurchase}]
Lists == {"activities", "orders", "events"}

Nothing == [l \in Lists |-> "unread"]

Init ==
  /\ made = <<>> /\ opened = {} /\ enqueued = {} /\ paid = {}
  /\ published = {} /\ orders = <<>>
  /\ feed = <<>> /\ arrived = FALSE
  /\ page = "none" /\ got = Nothing
  /\ activities = <<>> /\ orderList = <<>> /\ recentEvents = <<>>
  /\ known = {}

First(seq, n) == SubSeq(seq, 1, IF Len(seq) < n THEN Len(seq) ELSE n)

-----------------------------------------------------------------------------
(* The payment and order services.  No event of the feed names a            *)
(* transaction.                                                             *)

Event(t) == [type |-> t, transaction |-> NoPurchase]

Record(types) == feed' = First([i \in DOMAIN types |-> Event(types[i])] \o feed, MaxEvents)

Claim(p) ==
  /\ p \notin ToSet(made)
  /\ made' = Append(made, p)
  /\ UNCHANGED <<opened, enqueued, paid, published, orders, feed, arrived, page, reads, known>>

SessionCreated(p) ==
  /\ p \in ToSet(made) \ opened
  /\ opened' = opened \cup {p}
  /\ Record(<<"checkout.session.created">>)
  /\ UNCHANGED <<made, enqueued, paid, published, orders, arrived, page, reads, known>>

WebhookVerified(p) ==
  /\ p \in opened
  /\ enqueued' = enqueued \cup {p}
  /\ Record(<<"stripe.webhook.verified">>)
  /\ UNCHANGED <<made, opened, paid, published, orders, arrived, page, reads, known>>

(* A status request; for a paid session it enqueues the payment as well,    *)
(* unless that fails.                                                       *)
StatusLoaded(p) ==
  /\ p \in opened
  /\ \/ /\ enqueued' \in {enqueued, enqueued \cup {p}}
        /\ Record(<<"checkout.session.status.loaded">>)
     \/ /\ UNCHANGED enqueued
        /\ Record(<<"stripe.checkout.completed.fallback_failed",
                    "checkout.session.status.loaded">>)
  /\ UNCHANGED <<made, opened, paid, published, orders, arrived, page, reads, known>>

StorePayment(p) ==
  /\ p \in enqueued \ paid
  /\ paid' = paid \cup {p}
  /\ UNCHANGED <<made, opened, enqueued, published, orders, feed, arrived, page, reads, known>>

(* The outbox job sends the payment event; it records nothing in the feed.  *)
PublishPayment(p) ==
  /\ p \in paid \ published
  /\ published' = published \cup {p}
  /\ arrived' = TRUE
  /\ UNCHANGED <<made, opened, enqueued, paid, orders, feed, page, reads, known>>

ProjectOrder(p) ==
  /\ p \in published \ ToSet(orders)
  /\ orders' = Append(orders, p)
  /\ UNCHANGED <<made, opened, enqueued, paid, published, feed, arrived, page, reads, known>>

Restart ==
  /\ feed' = <<>> /\ arrived' = FALSE
  /\ UNCHANGED <<money, page, reads, known>>

-----------------------------------------------------------------------------
(* A visit: the page's reads, each answered or failed on its own.           *)

Needed(g) == CASE g = "users"    -> {"activities", "orders"}
               [] g = "overview" -> {"events"}
               [] g = "payments" -> {"activities", "events"}
               [] OTHER          -> {}

Visit(g) ==
  /\ page' = g /\ got' = Nothing /\ known' = paid
  /\ activities' = <<>> /\ orderList' = <<>> /\ recentEvents' = <<>>
  /\ UNCHANGED <<money, feed, arrived>>

Answered(l, how) ==
  /\ l \in Needed(page) /\ got[l] = "unread"
  /\ got' = [got EXCEPT ![l] = how]

\* What a sequence has at a set of its indices, in order.
Picked(seq, indices) ==
  [n \in 1..Cardinality(indices) |->
     seq[CHOOSE i \in indices : Cardinality({j \in indices : j <= i}) = n]]

Latest == First(Reverse(Picked(made, {i \in DOMAIN made : made[i] \in opened})), ActivityWindow)

(* A row of an answer: the purchase and whether its payment is stored.      *)
ReadActivities ==
  /\ Answered("activities", "read")
  /\ activities' = [i \in DOMAIN Latest |->
                      [of |-> Latest[i],
                       status |-> IF Latest[i] \in paid THEN "paid" ELSE "pending"]]
  /\ UNCHANGED <<money, feed, arrived, page, orderList, recentEvents, known>>

ReadOrders ==
  /\ Answered("orders", "read")
  /\ orderList' = First(Reverse(orders), OrderWindow)
  /\ UNCHANGED <<money, feed, arrived, page, activities, recentEvents, known>>

ReadEvents ==
  /\ Answered("events", "read")
  /\ recentEvents' = First(feed, ListLimit)
  /\ known' = IF page # "overview" THEN known ELSE IF arrived THEN published ELSE {}
  /\ UNCHANGED <<money, feed, arrived, page, activities, orderList>>

ReadFails(l) ==
  /\ Answered(l, "failed")
  /\ UNCHANGED <<money, feed, arrived, page, activities, orderList, recentEvents, known>>

Next ==
  \/ \E p \in Purchases :
       \/ Claim(p) \/ SessionCreated(p) \/ WebhookVerified(p) \/ StatusLoaded(p)
       \/ StorePayment(p) \/ PublishPayment(p) \/ ProjectOrder(p)
  \/ Restart
  \/ \E g \in Pages : Visit(g)
  \/ ReadActivities \/ ReadOrders \/ ReadEvents
  \/ \E l \in Lists : ReadFails(l)

Spec == Init /\ [][Next]_vars

-----------------------------------------------------------------------------
(* The customers: orders first, then activities, each claiming its keys.    *)

OrderKeys(p) == {<<"session", p>>, <<"intent", p>>, <<"record", p>>}

(* An activity has its payment intent once its payment is stored.           *)
ActivityKeys(row) ==
  {<<"session", row.of>>} \cup (IF row.status = "paid" THEN {<<"intent", row.of>>} ELSE {})

(* The records gone through: the orders and after them the activities.      *)
Entry(n) ==
  IF n <= Len(orderList)
  THEN [of |-> orderList[n], pays |-> TRUE, keys |-> OrderKeys(orderList[n])]
  ELSE LET row == activities[n - Len(orderList)]
       IN  [of |-> row.of, pays |-> row.status = "paid", keys |-> ActivityKeys(row)]

Payments(u) ==
  {n \in 1..(Len(orderList) + Len(activities)) : UserOf[Entry(n).of] = u /\ Entry(n).pays}

(* A record claims its keys, and counts if none of them was claimed before. *)
paymentKeys(u, n) == UNION {Entry(m).keys : m \in {k \in Payments(u) : k < n}}

ClaimAnew(u, n) == TRUE
claimPayment(u, n) == paymentKeys(u, n) \cap Entry(n).keys = {}

Summary(u) == {n \in Payments(u) : claimPayment(u, n)}

paymentCount(u) == Cardinality(Summary(u))

(* The customers the directory lists, and has a page for.                   *)
Customers == {UserOf[p] : p \in ToSet(orderList)} \cup
             {UserOf[row.of] : row \in ToSet(activities)}

(* The directory cannot be shown without the stored checkouts; the orders   *)
(* are optional.                                                            *)
UsersShown ==
  page = "users" /\ got["activities"] = "read" /\ got["orders"] # "unread"

-----------------------------------------------------------------------------
(* Every variable has its type; the feed keeps to its capacity.             *)
TypeOK ==
  /\ made \in Seq(Purchases) /\ opened \subseteq ToSet(made)
  /\ enqueued \subseteq opened /\ paid \subseteq enqueued
  /\ published \subseteq paid /\ arrived \in BOOLEAN
  /\ orders \in Seq(published) /\ IsInjective(orders)
  /\ feed \in Seq(Events) /\ Len(feed) <= MaxEvents
  /\ page \in Pages \cup {"none"}
  /\ got \in [Lists -> {"unread", "read", "failed"}]
  /\ activities \in Seq([of : Purchases, status : {"paid", "pending"}])
  /\ Len(activities) <= ActivityWindow
  /\ orderList \in Seq(Purchases) /\ Len(orderList) <= OrderWindow
  /\ recentEvents \in Seq(Events) /\ Len(recentEvents) <= ListLimit
  /\ known \subseteq paid

(* The directory counts a purchase once, whether the stored checkouts, the  *)
(* orders or both tell of it, and whichever was read first; it counts only  *)
(* payments that were stored.                                               *)
CountedOnce ==
  UsersShown =>
    \A u \in Users :
      LET told == {p \in ToSet(orderList) \cup
                         {row.of : row \in {r \in ToSet(activities) : r.status = "paid"}} :
                     UserOf[p] = u}
      IN  told \subseteq paid /\ paymentCount(u) = Cardinality(told)

(* A purchase that was paid before the page was opened is counted, and its  *)
(* customer listed, as long as fewer than a window of newer checkouts have  *)
(* their sessions: claims that never got one do not push it out, and it     *)
(* needs neither its order nor an order service that answers.               *)
KnownPaymentsAreCounted ==
  UsersShown =>
    \A n \in {i \in DOMAIN made : made[i] \in known} :
      LET newer == {i \in DOMAIN made : made[i] \in opened /\ i > n}
          customer == UserOf[made[n]]
      IN  Cardinality(newer) < ActivityWindow =>
            customer \in Customers /\ \E m \in Summary(customer) : Entry(m).of = made[n]

=============================================================================
