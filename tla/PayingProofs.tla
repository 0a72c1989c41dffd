----------------------------- MODULE PayingProofs -----------------------------
(***************************************************************************)
(* Proofs about the components of MCStorefront that lead to the payment,   *)
(* for any number of tabs, visits, requests, faults and edits: PaymentForm *)
(* (whatever the customer pays, he pays for the details the form showed    *)
(* him), SharedBrowser (what the payment step and the return page show is  *)
(* of the account before them), CheckoutAttempt (what the tabs of one      *)
(* customer pay and give up) and CheckoutSteps (which page the visitor is  *)
(* on, and what it knows of the delivery).                                 *)
(***************************************************************************)
EXTENDS Integers, Sequences, FiniteSetTheorems, WellFoundedInduction, TLAPS, MCStorefront

-----------------------------------------------------------------------------
(* PaymentForm *)

Carriers == {"email", "phone", "address"}
StripeCalls == [visit : 1..visit, what : Carriers \union {"confirm"}, with : Details]

\* PaymentForm's type invariant with the names of the fields written out, the
\* agreements, and one payment at most, made by a form that showed all details.
FormTypes ==
  /\ visit \in Nat /\ visit <= MaxVisits /\ page \in {"away", "form", "return"} /\ shown \in Details
  /\ provider \in {"loading", "success", "error"}
  /\ sync \in {"idle", "failed", "done"} \union Carriers
  /\ element \in {"loading", "ready", "failed"}
  /\ calls \in Seq(StripeCalls)
  /\ held \in [Carriers -> Details \union {NothingSent}]
  /\ faults \in 0..MaxFaults
  /\ agreed \in [1..MaxVisits -> Details \union {NothingSent}]
  /\ \/ paid = <<>>
     \/ \E v \in 1..visit, h \in [Carriers -> Details] : paid = <<[visit |-> v, held |-> h]>>

FormFlags == filledIn \in BOOLEAN /\ confirming \in BOOLEAN

\* A form that has not been on the page has no agreement; what the customer
\* agreed to on this page is what it shows.
AgreedIsShown ==
  /\ \A v \in 1..MaxVisits : v > visit => agreed[v] = NothingSent
  /\ page # "away" => visit # 0
  /\ page = "form" => agreed[visit] \in {NothingSent, shown}

\* StripeCalls wait in the order of the forms that made them, one of each.
CallsInOrder == \A i, j \in DOMAIN calls : i < j => calls[i].visit < calls[j].visit

\* A confirmation is next, and Stripe has what the customer agreed to.
ConfirmIsNext ==
  \A i \in DOMAIN calls : calls[i].what = "confirm" =>
    /\ i = 1
    /\ agreed[calls[i].visit] = calls[i].with
    /\ \A f \in Carriers : held[f] = calls[i].with

\* How far the form on the page has got, and what Stripe has of it by then.
OwnCall(what) == [visit |-> visit, what |-> what, with |-> shown]
Progress ==
  /\ provider = "loading" => sync = "idle"
  /\ sync \in {"idle", "failed"} => ~confirming /\ \A i \in DOMAIN calls : calls[i].visit < visit
  /\ sync = "email" => ~confirming /\ calls # <<>> /\ calls[Len(calls)] = OwnCall("email")
  /\ sync \in {"phone", "address"} => ~confirming /\ calls = <<OwnCall(sync)>> /\ held["email"] = shown
  /\ sync \in {"address"} => held["phone"] = shown
  /\ sync = "done" => /\ \A f \in Carriers : held[f] = shown
                      /\ calls = IF confirming THEN <<OwnCall("confirm")>> ELSE <<>>

FormInv ==
  /\ FormTypes /\ FormFlags /\ AgreedIsShown /\ CallsInOrder /\ ConfirmIsNext
  /\ page = "form" => Progress
  /\ PayForm!PaidAsShown

\* What the names of the fields stand for.
LEMMA FieldNames ==
  /\ PayForm!ToSet(PayForm!Fields) = Carriers
  /\ PayForm!Fields[PayForm!Field("email") + 1] = "phone"
  /\ PayForm!Fields[PayForm!Field("phone") + 1] = "address"
<1>1. DOMAIN PayForm!Fields = 1..3
  BY DEF PayForm!Fields
<1>2. PayForm!Fields[1] = "email" /\ PayForm!Fields[2] = "phone" /\ PayForm!Fields[3] = "address"
  BY DEF PayForm!Fields
<1>3. PayForm!ToSet(PayForm!Fields) = Carriers
  BY <1>1, <1>2 DEF PayForm!ToSet, Carriers
<1>4. PayForm!Field("email") = 1
  BY <1>1, <1>2 DEF PayForm!Field
<1>5. PayForm!Field("phone") = 2
  BY <1>1, <1>2 DEF PayForm!Field
<1> QED BY <1>2, <1>3, <1>4, <1>5

LEMMA TypesAreTypeOK ==
  ASSUME MaxVisits \in Nat, FormTypes, FormFlags
  PROVE  PayForm!TypeOK
<1>1. PayForm!ToSet(PayForm!Fields) = Carriers
  BY FieldNames
<1>2. StripeCalls = [visit : 1..visit, what : PayForm!ToSet(PayForm!Fields) \union {"confirm"}, with : Details]
  BY <1>1 DEF StripeCalls
<1>3. visit \in 0..MaxVisits
  BY DEF FormTypes
<1>4. calls \in Seq([visit : 1..visit, what : PayForm!ToSet(PayForm!Fields) \union {"confirm"}, with : Details])
  BY <1>2 DEF FormTypes
<1>5. /\ sync \in {"idle", "failed", "done"} \union PayForm!ToSet(PayForm!Fields)
      /\ held \in [PayForm!ToSet(PayForm!Fields) -> Details \union {NothingSent}]
  BY <1>1 DEF FormTypes
<1> QED BY <1>3, <1>4, <1>5 DEF PayForm!TypeOK, FormTypes, FormFlags

LEMMA InitFormInv ==
  ASSUME PayForm!PaymentFormAssumption, PayForm!Init
  PROVE  FormInv
<1> USE FieldNames DEF PayForm!Init
<1>1. MaxVisits \in Nat /\ MaxFaults \in Nat
  BY DEF PayForm!PaymentFormAssumption
<1>2. FormTypes
  BY <1>1 DEF FormTypes
<1>3. AgreedIsShown /\ CallsInOrder /\ ConfirmIsNext /\ PayForm!PaidAsShown
  BY DEF AgreedIsShown, CallsInOrder, ConfirmIsNext, PayForm!PaidAsShown
<1>4. FormFlags
  BY DEF FormFlags
<1> QED BY <1>2, <1>3, <1>4 DEF FormInv

LEMMA ArriveFormInv ==
  ASSUME PayForm!PaymentFormAssumption, FormInv, PayForm!Arrive
  PROVE  FormInv'
<1> USE DEF PayForm!Arrive, PayForm!stripe
<1>0. MaxVisits \in Nat /\ MaxFaults \in Nat
  BY DEF PayForm!PaymentFormAssumption
<1>1. /\ visit \in Nat /\ visit' = visit + 1 /\ visit' \in 1..MaxVisits
      /\ calls \in Seq(StripeCalls) /\ calls' = calls
      /\ 1..visit \subseteq 1..visit'
  BY <1>0 DEF FormInv, FormTypes
<1>2. FormTypes'
  <2>1. StripeCalls \subseteq StripeCalls'
    BY <1>1 DEF StripeCalls
  <2>2. calls \in Seq(StripeCalls')
    BY <1>1, <2>1
  <2>3. \/ paid' = <<>>
        \/ \E v \in 1..visit', h \in [Carriers -> Details] : paid' = <<[visit |-> v, held |-> h]>>
    BY <1>1 DEF FormInv, FormTypes
  <2> QED BY <1>1, <2>2, <2>3 DEF FormInv, FormTypes
<1>6. FormFlags'
  BY DEF FormFlags
<1>3. AgreedIsShown'
  BY <1>1 DEF FormInv, AgreedIsShown
<1>4. CallsInOrder' /\ ConfirmIsNext' /\ PayForm!PaidAsShown'
  BY DEF FormInv, CallsInOrder, ConfirmIsNext, PayForm!PaidAsShown
<1>5. Progress'
  <2>1. \A i \in DOMAIN calls : calls[i] \in StripeCalls
    BY <1>1
  <2>2. \A i \in DOMAIN calls : calls[i].visit < visit'
    BY <1>1, <2>1 DEF StripeCalls
  <2> QED BY <2>2 DEF Progress
<1> QED BY <1>2, <1>3, <1>4, <1>5, <1>6 DEF FormInv

\* Steps that change neither the calls, nor Stripe, nor the agreements.
LEMMA PageFormInv ==
  ASSUME PayForm!PaymentFormAssumption, FormInv,
         PayForm!Leave \/ PayForm!ElementLoads \/ PayForm!ReloadElement \/ PayForm!FillIn
  PROVE  FormInv'
<1> USE DEF PayForm!Leave, PayForm!ElementLoads, PayForm!ReloadElement, PayForm!FillIn,
            PayForm!stripe
<1>1. UNCHANGED <<visit, shown, provider, sync, confirming, calls, held, paid, agreed>>
      /\ (page' = page \/ page' = "away")
  OBVIOUS
<1>2. FormTypes'
  <2>1. faults' \in 0..MaxFaults /\ page' \in {"away", "form", "return"}
        /\ element' \in {"loading", "ready", "failed"}
    BY DEF FormInv, FormTypes, PayForm!Fault, PayForm!PaymentFormAssumption
  <2>2. StripeCalls' = StripeCalls
    BY <1>1 DEF StripeCalls
  <2> QED BY <1>1, <2>1, <2>2 DEF FormInv, FormTypes
<1>5. FormFlags'
  BY DEF FormInv, FormFlags
<1>3. AgreedIsShown' /\ CallsInOrder' /\ ConfirmIsNext' /\ PayForm!PaidAsShown'
  BY <1>1 DEF FormInv, AgreedIsShown, CallsInOrder, ConfirmIsNext, PayForm!PaidAsShown
<1>4. page' = "form" => Progress'
  BY <1>1 DEF FormInv, Progress, OwnCall
<1> QED BY <1>2, <1>3, <1>4, <1>5 DEF FormInv

LEMMA ProviderFormInv ==
  ASSUME PayForm!PaymentFormAssumption, FormInv, PayForm!ProviderLoads
  PROVE  FormInv'
<1> USE DEF PayForm!ProviderLoads, PayForm!stripe
<1>0. /\ visit \in Nat /\ visit <= MaxVisits /\ shown \in Details /\ calls \in Seq(StripeCalls)
      /\ Len(calls) \in Nat /\ visit # 0 /\ Progress /\ sync = "idle"
      /\ \A i \in DOMAIN calls : calls[i].visit < visit
  BY DEF FormInv, FormTypes, AgreedIsShown, Progress
<1>3. FormFlags'
  BY DEF FormInv, FormFlags
<1>1. CASE provider' = "error" /\ PayForm!Fault /\ UNCHANGED <<sync, calls>>
  <2>1. FormTypes'
    BY <1>1 DEF FormInv, FormTypes, StripeCalls, PayForm!Fault, PayForm!PaymentFormAssumption
  <2>2. AgreedIsShown' /\ CallsInOrder' /\ ConfirmIsNext' /\ PayForm!PaidAsShown'
    BY <1>1 DEF FormInv, AgreedIsShown, CallsInOrder, ConfirmIsNext, PayForm!PaidAsShown
  <2>3. Progress'
    BY <1>0, <1>1 DEF Progress
  <2> QED BY <1>3, <2>1, <2>2, <2>3 DEF FormInv
<1>2. CASE provider' = "success" /\ sync' = "email" /\ calls' = PayForm!Call("email") /\ UNCHANGED faults
  <2>1. /\ calls' = Append(calls, OwnCall("email")) /\ OwnCall("email") \in StripeCalls
        /\ calls' \in Seq(StripeCalls) /\ Len(calls') = Len(calls) + 1
        /\ \A i \in DOMAIN calls : calls'[i] = calls[i]
        /\ calls'[Len(calls) + 1] = OwnCall("email")
        /\ DOMAIN calls = 1..Len(calls) /\ DOMAIN calls' = 1..Len(calls) + 1
    BY <1>0, <1>2 DEF PayForm!Call, OwnCall, StripeCalls, Carriers
  <2>2. FormTypes'
    <3>1. StripeCalls' = StripeCalls
      BY DEF StripeCalls
    <3>2. sync' \in {"idle", "failed", "done"} \union Carriers
      BY <1>2 DEF Carriers
    <3> QED BY <1>2, <2>1, <3>1, <3>2 DEF FormInv, FormTypes
  <2> HIDE DEF PayForm!ProviderLoads
  <2>7. /\ \A i \in 1..Len(calls) : calls'[i] = calls[i] /\ calls[i].visit < visit
        /\ calls'[Len(calls) + 1].visit = visit /\ calls'[Len(calls) + 1].what = "email"
    BY <1>0, <2>1 DEF OwnCall
  <2>3. CallsInOrder'
    <3> SUFFICES ASSUME NEW i \in 1..Len(calls) + 1, NEW j \in 1..Len(calls) + 1, i < j
                 PROVE  calls'[i].visit < calls'[j].visit
      BY <2>1 DEF CallsInOrder
    <3>1. i \in 1..Len(calls)
      BY <1>0
    <3>2. CASE j = Len(calls) + 1
      BY <2>7, <3>1, <3>2
    <3>3. CASE j # Len(calls) + 1
      <4>1. j \in 1..Len(calls)
        BY <1>0, <3>3
      <4> QED BY <2>1, <2>7, <3>1, <4>1 DEF FormInv, CallsInOrder
    <3> QED BY <3>2, <3>3
  <2>4. ConfirmIsNext'
    <3> SUFFICES ASSUME NEW i \in 1..Len(calls) + 1, calls'[i].what = "confirm"
                 PROVE  /\ i = 1 /\ agreed'[calls'[i].visit] = calls'[i].with
                        /\ \A f \in Carriers : held'[f] = calls'[i].with
      BY <2>1 DEF ConfirmIsNext
    <3>1. i \in 1..Len(calls)
      BY <1>0, <2>7
    <3>2. agreed' = agreed /\ held' = held
      BY DEF PayForm!ProviderLoads
    <3> QED BY <2>1, <2>7, <3>1, <3>2 DEF FormInv, ConfirmIsNext
  <2> USE DEF PayForm!ProviderLoads
  <2>5. AgreedIsShown' /\ PayForm!PaidAsShown'
    BY DEF FormInv, AgreedIsShown, PayForm!PaidAsShown
  <2>6. Progress'
    BY <1>0, <1>2, <2>1 DEF Progress, OwnCall
  <2> QED BY <1>3, <2>2, <2>3, <2>4, <2>5, <2>6 DEF FormInv
<1> QED BY <1>1, <1>2

\* The button is only live when all three details are with Stripe and nothing is
\* on its way.
LEMMA SubmitFormInv ==
  ASSUME PayForm!PaymentFormAssumption, FormInv, PayForm!handleSubmit
  PROVE  FormInv'
<1> USE DEF PayForm!handleSubmit, PayForm!stripe
<1>0. /\ visit \in Nat /\ visit <= MaxVisits /\ shown \in Details
      /\ visit # 0 /\ Progress /\ sync = "done" /\ ~confirming
      /\ calls = <<>> /\ \A f \in Carriers : held[f] = shown
      /\ agreed \in [1..MaxVisits -> Details \union {NothingSent}]
      /\ agreed[visit] \in {NothingSent, shown}
  BY DEF FormInv, FormTypes, AgreedIsShown, Progress, PayForm!MayPay, PayForm!detailsReady
<1>1. /\ calls' = <<OwnCall("confirm")>> /\ OwnCall("confirm") \in StripeCalls
      /\ DOMAIN calls' = {1}
  BY <1>0 DEF PayForm!Call, OwnCall, StripeCalls
<1>2. /\ agreed' \in [1..MaxVisits -> Details \union {NothingSent}] /\ agreed'[visit] = shown
      /\ \A v \in 1..MaxVisits : v # visit => agreed'[v] = agreed[v]
  BY <1>0
<1>3. FormTypes'
  <2>1. calls' \in Seq(StripeCalls)
    <3> HIDE DEF PayForm!handleSubmit
    <3>1. PICK c \in StripeCalls : c = OwnCall("confirm")
      BY <1>1
    <3>2. calls' = <<c>>
      BY <1>1, <3>1
    <3> QED BY <3>2
  <2>2. StripeCalls' = StripeCalls
    BY DEF StripeCalls
  <2> QED BY <1>2, <2>1, <2>2 DEF FormInv, FormTypes
<1>7. FormFlags'
  BY DEF FormInv, FormFlags
<1>4. AgreedIsShown' /\ CallsInOrder' /\ ConfirmIsNext'
  BY <1>0, <1>1, <1>2 DEF FormInv, AgreedIsShown, CallsInOrder, ConfirmIsNext, OwnCall
<1>5. Progress'
  BY <1>0, <1>1 DEF Progress, OwnCall
<1>6. PayForm!PaidAsShown'
  <2>1. CASE paid = <<>>
    BY <2>1 DEF PayForm!PaidAsShown
  <2>2. ASSUME NEW v \in 1..visit, NEW h \in [Carriers -> Details],
               paid = <<[visit |-> v, held |-> h]>>
        PROVE  PayForm!PaidAsShown'
    <3>1. \A f \in Carriers : h[f] = agreed[v] /\ h[f] # NothingSent
      <4>1. DOMAIN paid = {1} /\ paid[1].held = h /\ paid[1].visit = v
        BY <2>2
      <4> QED BY <4>1, FieldNames DEF FormInv, PayForm!PaidAsShown, PayForm!PaymentFormAssumption
    <3>2. \A f \in Carriers : h[f] = agreed'[v]
      BY <1>0, <1>2, <3>1
    <3>3. DOMAIN paid' = {1} /\ paid'[1].held = h /\ paid'[1].visit = v
      BY <2>2
    <3> QED BY <3>2, <3>3, FieldNames DEF PayForm!PaidAsShown
  <2> QED BY <2>1, <2>2 DEF FormInv, FormTypes
<1> QED BY <1>3, <1>4, <1>5, <1>6, <1>7 DEF FormInv

\* The next call reaches Stripe or not, and the form hears of it or not.
LEMMA StripeTakesFormInv ==
  ASSUME PayForm!PaymentFormAssumption, FormInv, PayForm!StripeTakes
  PROVE  FormInv'
<1> DEFINE next == Head(calls)
           n == Len(calls)
           there == page = "form" /\ next.visit = visit
<1>0. PICK lands \in BOOLEAN, ok \in BOOLEAN :
        /\ ok => lands /\ paid = <<>>
        /\ IF ok \/ paid # <<>> THEN UNCHANGED faults ELSE PayForm!Fault
        /\ PayForm!Landing(next, lands)
        /\ CASE there /\ next.what = "confirm" ->
                  PayForm!ConfirmEnds(ok) /\ calls' = Tail(calls) /\ UNCHANGED sync
             [] there /\ next.what # "confirm" ->
                  PayForm!SyncGoesOn(next.what, ok) /\ UNCHANGED <<confirming, page>>
             [] OTHER -> calls' = Tail(calls) /\ UNCHANGED <<sync, confirming, page>>
  BY DEF PayForm!StripeTakes
<1>1. /\ calls # <<>>
      /\ UNCHANGED <<visit, shown, provider, element, filledIn, agreed>>
  BY DEF PayForm!StripeTakes
<1>2. /\ calls \in Seq(StripeCalls) /\ n \in Nat /\ n >= 1 /\ next = calls[1] /\ next \in StripeCalls
      /\ Tail(calls) \in Seq(StripeCalls) /\ Len(Tail(calls)) = n - 1
      /\ \A i \in 1..n - 1 : Tail(calls)[i] = calls[i + 1]
      /\ visit \in Nat /\ shown \in Details
  BY <1>1 DEF FormInv, FormTypes
<1>19. n = 1 => Tail(calls) = <<>>
  BY <1>2
<1>3. next.what \in Carriers \union {"confirm"} /\ next.visit \in 1..visit /\ next.with \in Details
  BY <1>2 DEF StripeCalls
<1> HIDE DEF next, n
\* What is with Stripe afterwards.
<1>4. \/ /\ held' = held
         /\ paid' = paid
      \/ /\ paid = <<>> /\ next.what = "confirm" /\ held' = held
         /\ paid' = <<[visit |-> next.visit, held |-> held]>>
      \/ /\ next.what # "confirm" /\ paid' = paid
         /\ held' = [held EXCEPT ![next.what] = next.with]
  BY <1>0 DEF PayForm!Landing, PayForm!stripe
<1>5. ok => next.what = "confirm" \/ held' = [held EXCEPT ![next.what] = next.with]
  BY <1>0 DEF PayForm!Landing
\* What waits afterwards: the rest, and perhaps the next field of the form.
<1>6. \/ calls' = Tail(calls)
      \/ \E what \in {"phone", "address"} :
           /\ calls' = Append(Tail(calls), [next EXCEPT !.what = what])
           /\ ok /\ there /\ sync' = what /\ what # next.what /\ next.what \in {"email", "phone"}
           /\ next.what = "phone" => what = "address"
           /\ next.what = "email" => what = "phone"
           /\ UNCHANGED <<confirming, page>>
  BY <1>0, <1>3, FieldNames DEF PayForm!SyncGoesOn, PayForm!ConfirmEnds, Carriers, next
<1>7. page' = "form" => page = "form"
  BY <1>0 DEF PayForm!ConfirmEnds
<1>8. there => /\ Progress /\ n = 1
               /\ next.what = "confirm" => sync = "done" /\ confirming /\ next = OwnCall("confirm")
               /\ next.what # "confirm" => sync = next.what /\ ~confirming /\ next = OwnCall(sync)
  <2> SUFFICES ASSUME there
               PROVE  /\ Progress /\ n = 1
                      /\ next.what = "confirm" => sync = "done" /\ confirming /\ next = OwnCall("confirm")
                      /\ next.what # "confirm" => sync = next.what /\ ~confirming /\ next = OwnCall(sync)
    OBVIOUS
  <2>1. Progress
    BY DEF FormInv
  <2>2. sync \notin {"idle", "failed"}
    BY <1>2, <2>1 DEF Progress, n
  <2>3. sync = "email" => n = 1 /\ next = OwnCall("email") /\ ~confirming
    <3>1. sync = "email" => calls[n] = OwnCall("email") /\ calls[n].visit = visit /\ ~confirming
      BY <2>1 DEF Progress, OwnCall, n
    <3>2. n > 1 => calls[1].visit < calls[n].visit
      BY <1>2 DEF FormInv, CallsInOrder, n
    <3> QED BY <1>2, <3>1, <3>2
  <2>4. sync \in {"phone", "address"} => n = 1 /\ next = OwnCall(sync) /\ ~confirming
    BY <1>2, <2>1 DEF Progress, n
  <2>5. sync = "done" => n = 1 /\ confirming /\ next = OwnCall("confirm")
    BY <1>1, <1>2, <2>1 DEF Progress, n
  <2>6. sync \in {"idle", "failed", "done", "email", "phone", "address"}
    BY DEF FormInv, FormTypes, Carriers
  <2>7. sync # "confirm" /\ OwnCall(sync).what = sync /\ OwnCall("confirm").what = "confirm"
    BY <2>6 DEF OwnCall
  <2> QED BY <2>1, <2>2, <2>3, <2>4, <2>5, <2>6, <2>7
<1>9. /\ calls' \in Seq(StripeCalls) /\ DOMAIN calls' = 1..Len(calls')
      /\ \/ Len(calls') = n - 1 /\ \A i \in 1..n - 1 : calls'[i] = calls[i + 1]
         \/ /\ n = 1 /\ Len(calls') = 1 /\ there
            /\ calls'[1] \in StripeCalls /\ calls'[1].what # "confirm"
            /\ sync' \in {"phone", "address"} /\ calls' = <<OwnCall(sync')>>
  <2>1. CASE calls' = Tail(calls)
    BY <1>2, <2>1
  <2>2. ASSUME NEW what \in {"phone", "address"}, there, sync' = what, what # next.what,
               next.what \in {"email", "phone"},
               calls' = Append(Tail(calls), [next EXCEPT !.what = what])
        PROVE  /\ calls' \in Seq(StripeCalls) /\ DOMAIN calls' = 1..Len(calls')
               /\ n = 1 /\ Len(calls') = 1 /\ there
               /\ calls'[1] \in StripeCalls /\ calls'[1].what # "confirm"
               /\ sync' \in {"phone", "address"} /\ calls' = <<OwnCall(sync')>>
    <3>1. n = 1 /\ next = OwnCall(next.what)
      BY <1>8, <2>2
    <3>2. Tail(calls) = <<>>
      BY <1>19, <3>1
    <3>3. [next EXCEPT !.what = what] = OwnCall(what)
      BY <3>1 DEF OwnCall
    <3>4. PICK c \in StripeCalls : c = OwnCall(what)
      BY <1>2, <1>3, <2>2, <3>1, <3>3 DEF StripeCalls, Carriers
    <3>7. calls' = Append(<<>>, c)
      BY <2>2, <3>2, <3>3, <3>4
    <3>5. calls' = <<c>>
      BY <3>7
    <3>6. c.what # "confirm"
      BY <3>4 DEF OwnCall
    <3>8. Len(calls') = 1 /\ DOMAIN calls' = 1..1 /\ calls'[1] = c /\ calls' \in Seq(StripeCalls)
      BY <3>5
    <3>9. c = OwnCall(sync') /\ sync' \in {"phone", "address"}
      BY <2>2, <3>4
    <3>10. calls' = <<OwnCall(sync')>>
      BY <3>5, <3>9
    <3>11. calls' \in Seq(StripeCalls) /\ DOMAIN calls' = 1..Len(calls') /\ Len(calls') = 1
      BY <3>8
    <3>12. calls'[1] \in StripeCalls /\ calls'[1].what # "confirm"
      BY <3>4, <3>6, <3>8
    <3>13. n = 1 /\ there
      BY <2>2, <3>1
    <3> HIDE DEF there
    <3> QED BY <3>9, <3>10, <3>11, <3>12, <3>13
  <2> QED BY <1>6, <2>1, <2>2
<1>10. \A i \in DOMAIN calls' : calls'[i].what # "confirm"
  <2>1. \A i \in 1..n - 1 : calls[i + 1].what # "confirm"
    BY <1>2 DEF FormInv, ConfirmIsNext, n
  <2> QED BY <1>2, <1>9, <2>1
<1>11. next.what = "confirm" => /\ agreed[next.visit] = next.with
                                /\ \A f \in Carriers : held[f] = next.with
  BY <1>2 DEF FormInv, ConfirmIsNext, n
<1>12. FormTypes'
  <2>1. held' \in [Carriers -> Details \union {NothingSent}]
    BY <1>3, <1>4 DEF FormInv, FormTypes
  <2>2. \/ paid' = <<>>
        \/ \E v \in 1..visit', h \in [Carriers -> Details] : paid' = <<[visit |-> v, held |-> h]>>
    <3>1. CASE paid' = paid
      BY <1>1, <3>1 DEF FormInv, FormTypes
    <3>2. CASE next.what = "confirm" /\ paid' = <<[visit |-> next.visit, held |-> held]>>
      <4>1. held \in [Carriers -> Details]
        BY <1>3, <1>11, <3>2 DEF FormInv, FormTypes
      <4> QED BY <1>1, <1>3, <3>2, <4>1
    <3> QED BY <1>4, <3>1, <3>2
  <2>3. faults' \in 0..MaxFaults
    BY <1>0 DEF FormInv, FormTypes, PayForm!Fault, PayForm!PaymentFormAssumption
  <2>4. sync' \in {"idle", "failed", "done"} \union Carriers /\ page' \in {"away", "form", "return"}
    BY <1>0, <1>3, FieldNames DEF FormInv, FormTypes, PayForm!SyncGoesOn, PayForm!ConfirmEnds, Carriers
  <2>5. StripeCalls' = StripeCalls
    BY <1>1 DEF StripeCalls
  <2> QED BY <1>1, <1>9, <2>1, <2>2, <2>3, <2>4, <2>5 DEF FormInv, FormTypes
<1>13. FormFlags'
  BY <1>0, <1>1 DEF FormInv, FormFlags, PayForm!ConfirmEnds
<1>14. AgreedIsShown'
  <2>1. page' # "away" => page # "away"
    BY <1>0 DEF PayForm!ConfirmEnds
  <2> QED BY <1>1, <1>7, <2>1 DEF FormInv, AgreedIsShown
<1>15. CallsInOrder'
  <2>1. \A i, j \in 1..n : i < j => calls[i].visit < calls[j].visit
    BY <1>2 DEF FormInv, CallsInOrder, n
  <2>2. CASE Len(calls') = n - 1 /\ \A i \in 1..n - 1 : calls'[i] = calls[i + 1]
    BY <1>2, <1>9, <2>1, <2>2 DEF CallsInOrder
  <2>3. CASE Len(calls') = 1
    BY <1>9, <2>3 DEF CallsInOrder
  <2> QED BY <1>9, <2>2, <2>3
<1>16. ConfirmIsNext'
  BY <1>10 DEF ConfirmIsNext
<1>17. PayForm!PaidAsShown'
  <2>1. CASE paid' = paid
    BY <1>1, <2>1 DEF FormInv, PayForm!PaidAsShown
  <2>2. CASE next.what = "confirm" /\ paid' = <<[visit |-> next.visit, held |-> held]>>
    <3>1. DOMAIN paid' = {1} /\ paid'[1].held = held /\ paid'[1].visit = next.visit
      BY <2>2
    <3> QED BY <1>1, <1>11, <2>2, <3>1, FieldNames DEF PayForm!PaidAsShown
  <2> QED BY <1>4, <2>1, <2>2
<1>18. ASSUME page' = "form"
       PROVE  Progress'
  <2>0. \A what : OwnCall(what)' = OwnCall(what)
    BY <1>1 DEF OwnCall
  <2>1. CASE there /\ next.what = "confirm"
    <3>1. sync' = "done" /\ ~confirming' /\ calls' = <<>> /\ held' = held
      BY <1>0, <1>2, <1>4, <1>8, <1>18, <2>1 DEF PayForm!ConfirmEnds
    <3>2. \A f \in Carriers : held[f] = shown
      BY <1>8, <2>1 DEF Progress
    <3> QED BY <1>1, <1>8, <2>1, <3>1, <3>2 DEF Progress
  <2>2. CASE there /\ next.what # "confirm"
    <3>1. /\ Progress /\ n = 1 /\ sync = next.what /\ ~confirming /\ ~confirming'
          /\ next.with = shown /\ Tail(calls) = <<>> /\ next.what \in Carriers
      <4>1. Progress /\ n = 1 /\ sync = next.what /\ ~confirming /\ next = OwnCall(sync)
        BY <1>8, <2>2
      <4>2. confirming' = confirming
        BY <1>0, <2>2
      <4>3. Tail(calls) = <<>>
        BY <1>19, <4>1
      <4> QED BY <1>3, <2>2, <4>1, <4>2, <4>3 DEF OwnCall
    <3>2. held \in [Carriers -> Details \union {NothingSent}]
      BY DEF FormInv, FormTypes
    <3>3. CASE ~ok
      <4>1. sync' = "failed" /\ calls' = Tail(calls)
        BY <1>0, <2>2, <3>3 DEF PayForm!SyncGoesOn
      <4>2. calls' = <<>>
        BY <3>1, <4>1
      <4>3. provider = "loading" => sync = "idle"
        BY <3>1 DEF Progress
      <4>4. provider # "loading"
        BY <3>1, <4>3 DEF Carriers
      <4> QED BY <1>1, <3>1, <4>1, <4>2, <4>4 DEF Progress
    <3>4. CASE ok /\ next.what = "address"
      <4>1. sync' = "done" /\ calls' = <<>> /\ held' = [held EXCEPT !["address"] = shown]
        BY <1>0, <1>5, <2>2, <3>1, <3>4 DEF PayForm!SyncGoesOn
      <4>2. held["email"] = shown /\ held["phone"] = shown
        BY <3>1, <3>4 DEF Progress
      <4> QED BY <1>1, <3>1, <3>2, <4>1, <4>2 DEF Progress, Carriers
    <3>5. CASE ok /\ next.what # "address"
      <4>1. /\ sync' = IF next.what = "email" THEN "phone" ELSE "address"
            /\ held' = [held EXCEPT ![next.what] = shown]
        <5>1. PayForm!SyncGoesOn(next.what, ok)
          BY <1>0, <2>2
        <5>2. next.what \in {"email", "phone"} /\ ok
          BY <3>1, <3>5 DEF Carriers
        <5>3. sync' = PayForm!Fields[PayForm!Field(next.what) + 1]
          BY <5>1, <5>2 DEF PayForm!SyncGoesOn
        <5>4. held' = [held EXCEPT ![next.what] = next.with]
          BY <1>5, <2>2, <5>2
        <5> QED BY <3>1, <5>2, <5>3, <5>4, FieldNames
      <4>2. calls' = <<OwnCall(sync')>>
        <5>1. PayForm!SyncGoesOn(next.what, ok) /\ Tail(calls) = <<>>
          BY <1>0, <2>2, <3>1
        <5>2. calls' = Append(<<>>, [Head(calls) EXCEPT !.what = sync'])
          BY <3>5, <5>1 DEF PayForm!SyncGoesOn
        <5>3. calls' # <<>>
          BY <5>2
        <5>4. Len(calls') # 0
          BY <1>9, <5>3
        <5> QED BY <1>9, <3>1, <5>4
      <4>3. next.what \in {"email", "phone"} /\ (next.what = "phone" => held["email"] = shown)
        BY <3>1, <3>5 DEF Progress, Carriers
      <4>4. held'["email"] = shown /\ (sync' = "address" => held'["phone"] = shown)
        BY <3>2, <4>1, <4>3 DEF Carriers
      <4> QED BY <1>1, <2>0, <3>1, <4>1, <4>2, <4>3, <4>4 DEF Progress
    <3> QED BY <3>3, <3>4, <3>5
  <2>3. CASE ~there
    <3>1. /\ calls' = Tail(calls) /\ sync' = sync /\ confirming' = confirming
          /\ page = "form" /\ next.visit # visit /\ Progress
      BY <1>0, <1>7, <1>18, <2>3 DEF FormInv
    <3>2. \A what : calls # <<OwnCall(what)>>
      BY <1>2, <3>1 DEF OwnCall
    <3>3. sync \in {"idle", "failed", "email"}
      BY <1>1, <3>1, <3>2 DEF Progress, FormInv, FormTypes, Carriers
    <3>4. CASE sync \in {"idle", "failed"}
      <4>1. \A i \in DOMAIN calls' : calls'[i].visit < visit
        BY <1>2, <3>1, <3>4 DEF Progress, n
      <4> QED BY <1>1, <3>1, <3>4, <4>1 DEF Progress
    <3>5. CASE sync = "email"
      <4>1. calls[n] = OwnCall("email") /\ ~confirming
        BY <3>1, <3>5 DEF Progress, n
      <4>2. n # 1
        BY <1>2, <3>1, <4>1 DEF OwnCall
      <4>3. n - 1 \in 1..n - 1 /\ (n - 1) + 1 = n
        BY <1>2, <4>2
      <4>4. Len(calls') = n - 1 /\ calls'[n - 1] = OwnCall("email")
        BY <1>2, <3>1, <4>1, <4>3
      <4>5. calls' # <<>>
        BY <4>3, <4>4
      <4> QED BY <1>1, <2>0, <3>1, <3>5, <4>1, <4>4, <4>5 DEF Progress
    <3> QED BY <3>3, <3>4, <3>5
  <2> QED BY <2>1, <2>2, <2>3
<1> QED BY <1>12, <1>13, <1>14, <1>15, <1>16, <1>17, <1>18 DEF FormInv

LEMMA NextFormInv ==
  ASSUME PayForm!PaymentFormAssumption, FormInv, [PayForm!Next]_(PayForm!vars)
  PROVE  FormInv'
<1>1. CASE PayForm!Next
  BY <1>1, ArriveFormInv, PageFormInv, ProviderFormInv, SubmitFormInv, StripeTakesFormInv
     DEF PayForm!Next
<1>2. CASE UNCHANGED PayForm!vars
  <2> USE <1>2 DEF PayForm!vars, PayForm!form, PayForm!stripe
  <2>1. FormTypes' /\ FormFlags'
    BY DEF FormInv, FormTypes, FormFlags, StripeCalls
  <2>2. AgreedIsShown' /\ CallsInOrder' /\ ConfirmIsNext' /\ PayForm!PaidAsShown'
    BY DEF FormInv, AgreedIsShown, CallsInOrder, ConfirmIsNext, PayForm!PaidAsShown
  <2>3. page' = "form" => Progress'
    BY DEF FormInv, Progress, OwnCall
  <2> QED BY <2>1, <2>2, <2>3 DEF FormInv
<1> QED BY <1>1, <1>2

LEMMA FormInvariance ==
  ASSUME PayForm!PaymentFormAssumption
  PROVE  PayForm!Spec => []FormInv
<1>1. PayForm!Init => FormInv
  BY InitFormInv
<1>2. FormInv /\ [PayForm!Next]_(PayForm!vars) => FormInv'
  BY NextFormInv
<1> QED BY <1>1, <1>2, PTL DEF PayForm!Spec

\* The form's invariant has its type invariant in it.
LEMMA FormTyped ==
  ASSUME PayForm!PaymentFormAssumption, FormInv
  PROVE  PayForm!TypeOK
  BY TypesAreTypeOK DEF FormInv, PayForm!PaymentFormAssumption

\* The payment form's variables have their types.
THEOREM FormTypeCorrect ==
  ASSUME PayForm!PaymentFormAssumption
  PROVE  PayForm!Spec => []PayForm!TypeOK
<1>1. FormInv => PayForm!TypeOK
  BY FormTyped
<1> QED BY <1>1, FormInvariance, PTL

\* However often the customer leaves and returns with other details, and whichever
\* calls fail, Stripe takes the money for the details he saw at the button.
THEOREM PaidForWhatWasShown ==
  ASSUME PayForm!PaymentFormAssumption
  PROVE  PayForm!Spec => []PayForm!PaidAsShown
<1>1. FormInv => PayForm!PaidAsShown
  BY DEF FormInv
<1> QED BY <1>1, FormInvariance, PTL

\* The calls that wait are of one form each.
LEMMA OneCallEach ==
  ASSUME PayForm!PaymentFormAssumption, FormInv
  PROVE  PayForm!OneCallAtATime
<1> SUFFICES ASSUME FormInv, NEW i \in DOMAIN calls, NEW j \in DOMAIN calls,
                    calls[i].visit = calls[j].visit
             PROVE  i = j
  BY DEF PayForm!OneCallAtATime
<1>1. calls \in Seq(StripeCalls)
  BY DEF FormInv, FormTypes
<1>2. i \in Nat /\ j \in Nat /\ calls[i] \in StripeCalls /\ calls[j] \in StripeCalls /\ visit \in Nat
  BY <1>1 DEF FormInv, FormTypes
<1>3. calls[i].visit \in Int /\ calls[j].visit \in Int
  BY <1>2 DEF StripeCalls
<1>4. ~(i < j) /\ ~(j < i)
  BY <1>3 DEF FormInv, CallsInOrder
<1> QED BY <1>2, <1>4

\* No form has two calls under way, so none can overtake another.
THEOREM CallsDoNotOvertake ==
  ASSUME PayForm!PaymentFormAssumption
  PROVE  PayForm!Spec => []PayForm!OneCallAtATime
<1>1. FormInv => PayForm!OneCallAtATime
  BY OneCallEach
<1> QED BY <1>1, FormInvariance, PTL

-----------------------------------------------------------------------------
(* SharedBrowser *)

OneOrNone == {{}} \union {{s} : s \in Shared!Session}
Asked == [n : 1..MaxAsks, as : Account \union {Out}, attempt : 1..MaxAsks, cart : 1..MaxCart]
ReturnRecord == [session : Shared!Session, user : Account, cart : Shared!Carts, lag : BOOLEAN]

BrowserTypes ==
  /\ cookie \in Account \union {Out} /\ seen \in Account \union {Out} /\ cart \in Shared!Carts
  /\ saved \in [Account -> [id : 0..MaxAsks, cart : Shared!Carts]]
  /\ memo \subseteq ReturnRecord
  /\ page \in {"shop", "pay", "return"}
  /\ sent \subseteq Asked
  /\ session \in [Shared!Session -> [cart : Shared!Carts, status : {"none", "open", "paid"}]]
  /\ asks \in 0..MaxAsks
StepTypes ==
  form \in [asked : 0..MaxAsks, lag : BOOLEAN, shown : OneOrNone, error : BOOLEAN]
BackRow ==
  [of : OneOrNone, phase : {"asked", "waits", "done"}, as : Account \union {Out}, lag : BOOLEAN,
   polls : 0..MaxPolls, status : {"processing", "paid", "unpaid", "unavailable"},
   details : OneOrNone]
BackTypes == back \in BackRow

\* The answer the payment step waits for is for the account and the cart it
\* shows; a change of either asks anew.
AskedAsShown ==
  /\ page # "pay" => form = Shared!NoForm
  /\ form.asked # 0 => seen # Out
  /\ \A r \in sent : r.n <= asks /\ (r.n = form.asked => r.cart = cart /\ (r.as = seen \/ form.lag))
  /\ \A s \in form.shown : s[1] = seen \/ form.lag

\* A return record tells the cart its session was opened for.
MemoIsTrue ==
  \A m \in memo : /\ session[m.session].status # "none"
                  /\ session[m.session].cart = m.cart
                  /\ m.session[1] = m.user \/ m.lag

SessionsHaveCarts == \A s \in Shared!Session : session[s].status = "none" <=> session[s].cart = 0

\* What the return page shows is its visitor's, and it knows when to stop asking.
BackIsOwn ==
  /\ page = "return" => \A s \in back.details : s[1] = seen \/ back.lag
  /\ back.phase = "waits" => back.polls < MaxPolls

SharedInv ==
  /\ BrowserTypes /\ StepTypes /\ BackTypes
  /\ AskedAsShown /\ MemoIsTrue /\ SessionsHaveCarts /\ BackIsOwn

LEMMA InitSharedInv ==
  ASSUME Shared!SharedBrowserAssumption, Shared!Init
  PROVE  SharedInv
<1> USE DEF Shared!Init
<1>0. MaxAsks \in Nat /\ MaxCart \in Nat /\ MaxPolls \in Nat
  BY DEF Shared!SharedBrowserAssumption
<1>1. {} \in OneOrNone
  BY DEF OneOrNone
<1>2. BrowserTypes
  BY <1>0 DEF BrowserTypes, Shared!Carts, Shared!NoAttempt
<1>3. StepTypes
  BY <1>0, <1>1 DEF StepTypes, Shared!NoForm
<1>4. BackTypes
  BY <1>0, <1>1 DEF BackTypes, BackRow, Shared!NoBack
<1>5. AskedAsShown /\ MemoIsTrue /\ SessionsHaveCarts /\ BackIsOwn
  BY DEF AskedAsShown, MemoIsTrue, SessionsHaveCarts, BackIsOwn, Shared!NoForm, Shared!NoBack
<1> QED BY <1>2, <1>3, <1>4, <1>5 DEF SharedInv

\* The effect of the payment step asks for the account and the cart it shows, or
\* waits for nothing.
LEMMA EffectAsks ==
  ASSUME Shared!SharedBrowserAssumption, SharedInv,
         NEW user \in Account \union {Out}, NEW c \in Shared!Carts, Shared!Effect(user, c),
         seen' = user, cart' = c, page' = "pay"
  PROVE  /\ AskedAsShown' /\ StepTypes'
         /\ saved' \in [Account -> [id : 0..MaxAsks, cart : Shared!Carts]]
         /\ sent' \subseteq Asked /\ asks' \in 0..MaxAsks
<1>0. /\ MaxAsks \in Nat /\ MaxCart \in Nat /\ asks \in Nat /\ asks <= MaxAsks
      /\ saved \in [Account -> [id : 0..MaxAsks, cart : Shared!Carts]]
      /\ sent \subseteq Asked /\ cookie \in Account \union {Out}
      /\ {} \in OneOrNone
  BY DEF SharedInv, BrowserTypes, Shared!SharedBrowserAssumption, OneOrNone
<1>1. CASE user # Out /\ c # 0
  <2>0. Shared!Ask(user, c) /\ user \in Account
    BY <1>1 DEF Shared!Effect
  <2>1. /\ asks' = asks + 1 /\ asks' \in 1..MaxAsks
        /\ form' = [Shared!NoForm EXCEPT !.asked = asks', !.lag = cookie # user]
    BY <1>0, <2>0 DEF Shared!Ask
  <2> DEFINE old == saved[user].cart = c /\ saved[user].id # 0
  <2>2. PICK id \in 1..MaxAsks :
          /\ saved' = [saved EXCEPT ![user] = [id |-> id, cart |-> c]]
          /\ sent' = sent \union {[n |-> asks', as |-> cookie, attempt |-> id, cart |-> c]}
    <3>1. (IF old THEN saved[user].id ELSE asks') \in 1..MaxAsks
      BY <1>0, <2>0, <2>1
    <3> QED BY <2>0, <3>1 DEF Shared!Ask
  <2>3. /\ form'.asked = asks' /\ form'.shown = {} /\ form'.lag = (cookie # user)
        /\ form'.error = FALSE
        /\ form' \in [asked : 0..MaxAsks, lag : BOOLEAN, shown : OneOrNone, error : BOOLEAN]
    <3>1. PICK lag \in BOOLEAN : lag = (cookie # user)
      OBVIOUS
    <3>2. form' = [asked |-> asks', lag |-> lag, shown |-> {}, error |-> FALSE]
      BY <2>1, <3>1 DEF Shared!NoForm
    <3>3. form' \in [asked : 0..MaxAsks, lag : BOOLEAN, shown : OneOrNone, error : BOOLEAN]
      <4>1. asks' \in 0..MaxAsks /\ FALSE \in BOOLEAN
        BY <1>0, <2>1
      <4> QED BY <1>0, <3>1, <3>2, <4>1, Zenon
    <3> QED BY <3>1, <3>2, <3>3
  <2>4. c \in 1..MaxCart
    BY <1>0, <1>1 DEF Shared!Carts
  <2>5. sent' \subseteq Asked
    BY <1>0, <2>1, <2>2, <2>4 DEF Asked
  <2>6. saved' \in [Account -> [id : 0..MaxAsks, cart : Shared!Carts]]
    BY <1>0, <2>0, <2>2
  <2>7. AskedAsShown'
    <3>1. \A r \in sent' : r.n <= asks' /\ (r.n = form'.asked => r.cart = cart' /\ (r.as = seen' \/ form'.lag))
      <4> SUFFICES ASSUME NEW r \in sent'
                   PROVE  r.n <= asks' /\ (r.n = form'.asked => r.cart = cart' /\ (r.as = seen' \/ form'.lag))
        OBVIOUS
      <4>1. CASE r \in sent
        <5>1. r.n \in Nat /\ r.n <= asks
          BY <1>0, <4>1 DEF SharedInv, AskedAsShown, Asked
        <5> QED BY <1>0, <2>1, <2>3, <5>1
      <4>2. CASE r = [n |-> asks', as |-> cookie, attempt |-> id, cart |-> c]
        <5>1. r.n = asks' /\ r.cart = c /\ r.as = cookie
          BY <4>2
        <5>2. asks' \in Int /\ asks' <= asks'
          BY <2>1
        <5> QED BY <2>3, <5>1, <5>2
      <4> QED BY <2>2, <4>1, <4>2
    <3> QED BY <1>1, <2>3, <3>1 DEF AskedAsShown
  <2>8. asks' \in 0..MaxAsks
    BY <1>0, <2>1
  <2> QED BY <2>3, <2>5, <2>6, <2>7, <2>8 DEF StepTypes
<1>2. CASE ~(user # Out /\ c # 0)
  <2>1. form' = Shared!NoForm /\ UNCHANGED <<saved, sent, asks>>
    BY <1>2 DEF Shared!Effect
  <2>2. StepTypes' /\ form'.asked = 0 /\ form'.shown = {}
    BY <1>0, <2>1 DEF StepTypes, Shared!NoForm
  <2>3. \A r \in sent' : r.n <= asks' /\ r.n # 0
    BY <1>0, <2>1 DEF SharedInv, AskedAsShown, Asked
  <2>4. AskedAsShown'
    BY <2>2, <2>3 DEF AskedAsShown
  <2> QED BY <1>0, <2>1, <2>2, <2>4
<1> QED BY <1>1, <1>2

\* Where it is not mounted, it waits for nothing.
LEMMA NoStepAsks ==
  ASSUME Shared!SharedBrowserAssumption, SharedInv, form' = Shared!NoForm, UNCHANGED <<sent, asks>>
  PROVE  AskedAsShown' /\ StepTypes'
<1>0. MaxAsks \in Nat /\ {} \in OneOrNone
  BY DEF Shared!SharedBrowserAssumption, OneOrNone
<1>1. StepTypes' /\ form'.asked = 0 /\ form'.shown = {}
  BY <1>0 DEF StepTypes, Shared!NoForm
<1>2. \A r \in sent' : r.n <= asks' /\ r.n # 0
  BY DEF SharedInv, BrowserTypes, AskedAsShown, Asked
<1> QED BY <1>1, <1>2 DEF AskedAsShown

\* Nothing of the payment step changes.
LEMMA SameStepAsks ==
  ASSUME SharedInv, UNCHANGED <<form, sent, asks, seen, cart, page>>
  PROVE  AskedAsShown' /\ StepTypes'
BY DEF SharedInv, AskedAsShown, StepTypes

\* Steps that leave the records of a session and the return page alone.
LEMMA SameMemo ==
  ASSUME SharedInv, UNCHANGED <<memo, session>>
  PROVE  MemoIsTrue' /\ SessionsHaveCarts'
BY DEF SharedInv, MemoIsTrue, SessionsHaveCarts

\* Opening the payment step, trying again, changing the cart.
LEMMA PayStepSharedInv ==
  ASSUME Shared!SharedBrowserAssumption, SharedInv,
         \/ Shared!OpenPayment \/ Shared!RetryCheckout
         \/ \E c \in Shared!Carts : Shared!ChangeCart(c)
  PROVE  SharedInv'
<1>0. seen \in Account \union {Out} /\ cart \in Shared!Carts
  BY DEF SharedInv, BrowserTypes
<1>1. CASE Shared!OpenPayment \/ Shared!RetryCheckout
  <2>1. /\ Shared!Effect(seen, cart) /\ page' = "pay"
        /\ UNCHANGED <<cookie, seen, cart, memo, back, session>>
    BY <1>1 DEF Shared!OpenPayment, Shared!RetryCheckout
  <2>2. /\ AskedAsShown' /\ StepTypes' /\ sent' \subseteq Asked /\ asks' \in 0..MaxAsks
        /\ saved' \in [Account -> [id : 0..MaxAsks, cart : Shared!Carts]]
    BY <1>0, <2>1, EffectAsks
  <2>3. BrowserTypes' /\ BackTypes' /\ BackIsOwn'
    BY <2>1, <2>2 DEF SharedInv, BrowserTypes, BackTypes, BackIsOwn
  <2> QED BY <2>1, <2>2, <2>3, SameMemo DEF SharedInv
<1>2. ASSUME NEW c \in Shared!Carts, Shared!ChangeCart(c)
      PROVE  SharedInv'
  <2>1. UNCHANGED <<cookie, seen, memo, page, back, session>> /\ cart' = c /\ page # "return"
    BY <1>2 DEF Shared!ChangeCart
  <2>2. CASE page = "pay"
    <3>1. Shared!Effect(seen, c)
      BY <1>2, <2>2 DEF Shared!ChangeCart
    <3>2. /\ AskedAsShown' /\ StepTypes' /\ sent' \subseteq Asked /\ asks' \in 0..MaxAsks
          /\ saved' \in [Account -> [id : 0..MaxAsks, cart : Shared!Carts]]
      BY <1>0, <2>1, <2>2, <3>1, EffectAsks
    <3>3. BrowserTypes' /\ BackTypes' /\ BackIsOwn'
      BY <2>1, <3>2 DEF SharedInv, BrowserTypes, BackTypes, BackIsOwn
    <3> QED BY <2>1, <3>2, <3>3, SameMemo DEF SharedInv
  <2>3. CASE page # "pay"
    <3>1. UNCHANGED <<form, saved, sent, asks>> /\ form = Shared!NoForm
      BY <1>2, <2>3 DEF Shared!ChangeCart, SharedInv, AskedAsShown
    <3>2. BrowserTypes' /\ BackTypes' /\ BackIsOwn'
      BY <2>1, <3>1 DEF SharedInv, BrowserTypes, BackTypes, BackIsOwn
    <3> QED BY <2>1, <3>1, <3>2, NoStepAsks, SameMemo DEF SharedInv
  <2> QED BY <2>2, <2>3
<1> QED BY <1>1, <1>2

\* The answer came, or it did not.
LEMMA StepRow ==
  ASSUME Shared!SharedBrowserAssumption,
         NEW row \in [asked : 0..MaxAsks, lag : BOOLEAN, shown : OneOrNone, error : BOOLEAN]
  PROVE  /\ LET late == [row EXCEPT !.asked = 0, !.error = TRUE]
            IN  /\ late \in [asked : 0..MaxAsks, lag : BOOLEAN, shown : OneOrNone, error : BOOLEAN]
                /\ late.asked = 0 /\ late.shown = row.shown /\ late.lag = row.lag
         /\ \A once \in OneOrNone :
              LET heard == [row EXCEPT !.asked = 0, !.shown = once]
              IN  /\ heard \in [asked : 0..MaxAsks, lag : BOOLEAN, shown : OneOrNone, error : BOOLEAN]
                  /\ heard.asked = 0 /\ heard.shown = once /\ heard.lag = row.lag
<1>1. 0 \in 0..MaxAsks
  BY DEF Shared!SharedBrowserAssumption
<1> QED BY <1>1

\* Leaving, waiting too long, and the changes of account in another tab.
LEMMA PlainSharedInv ==
  ASSUME Shared!SharedBrowserAssumption, SharedInv,
         \/ Shared!GoShopping \/ Shared!TimeOut
         \/ \E u \in Account \union {Out} : Shared!SwitchAccount(u)
  PROVE  SharedInv'
<1>1. CASE Shared!GoShopping
  <2>1. /\ page' = "shop" /\ form' = Shared!NoForm /\ back' = Shared!NoBack
        /\ UNCHANGED <<cookie, seen, cart, saved, memo, sent, session, asks>>
    BY <1>1 DEF Shared!GoShopping, Shared!bounds
  <2>2. BrowserTypes'
    BY <2>1 DEF SharedInv, BrowserTypes
  <2>3. BackTypes' /\ BackIsOwn'
    <3>1. {} \in OneOrNone /\ MaxPolls \in Nat
      BY DEF OneOrNone, Shared!SharedBrowserAssumption
    <3> QED BY <2>1, <3>1 DEF BackTypes, BackRow, BackIsOwn, Shared!NoBack
  <2> QED BY <2>1, <2>2, <2>3, NoStepAsks, SameMemo DEF SharedInv
<1>2. CASE Shared!TimeOut
  <2>1. /\ form' = [form EXCEPT !.asked = 0, !.error = TRUE] /\ form.asked # 0
        /\ UNCHANGED <<cookie, seen, cart, saved, memo, page, back, sent, session, asks>>
    BY <1>2 DEF Shared!TimeOut, Shared!GivesUp, Shared!bounds
  <2>2. BrowserTypes' /\ BackTypes' /\ BackIsOwn'
    BY <2>1 DEF SharedInv, BrowserTypes, BackTypes, BackIsOwn
  <2>3. StepTypes' /\ form'.asked = 0 /\ form'.shown = form.shown /\ form'.lag = form.lag
    BY <2>1, StepRow DEF SharedInv, StepTypes
  <2>4. page = "pay"
    BY <2>1 DEF SharedInv, AskedAsShown, Shared!NoForm
  <2>5. \A r \in sent' : r.n <= asks' /\ r.n # 0
    BY <2>1 DEF SharedInv, BrowserTypes, AskedAsShown, Asked
  <2>6. AskedAsShown'
    BY <2>1, <2>3, <2>4, <2>5 DEF SharedInv, AskedAsShown
  <2> QED BY <2>1, <2>2, <2>3, <2>6, SameMemo DEF SharedInv
<1>3. ASSUME NEW u \in Account \union {Out}, Shared!SwitchAccount(u)
      PROVE  SharedInv'
  <2>1. /\ cookie' = u
        /\ UNCHANGED <<seen, cart, saved, memo, page, form, back, sent, session, asks>>
    BY <1>3 DEF Shared!SwitchAccount
  <2>2. BrowserTypes' /\ BackTypes' /\ BackIsOwn'
    BY <2>1 DEF SharedInv, BrowserTypes, BackTypes, BackIsOwn
  <2> QED BY <2>1, <2>2, SameStepAsks, SameMemo DEF SharedInv
<1> QED BY <1>1, <1>2, <1>3

\* The tab learns of a change of account: both pages begin anew.
LEMMA NoticeSharedInv ==
  ASSUME Shared!SharedBrowserAssumption, SharedInv, Shared!NoticeAccount
  PROVE  SharedInv'
<1>0. /\ cookie \in Account \union {Out} /\ cart \in Shared!Carts /\ {} \in OneOrNone
      /\ back.of \in OneOrNone /\ MaxPolls \in Nat /\ 1 \in 0..MaxPolls
  BY DEF SharedInv, BrowserTypes, BackTypes, BackRow, OneOrNone, Shared!SharedBrowserAssumption
<1>1. /\ seen' = cookie /\ back' = IF page = "return" THEN Shared!Rekeyed ELSE back
      /\ UNCHANGED <<cookie, cart, memo, page, session>>
  BY DEF Shared!NoticeAccount
<1>2. BackTypes' /\ BackIsOwn'
  <2>1. CASE page = "return"
    <3>1. back' = [of |-> back.of, phase |-> "asked", as |-> cookie, lag |-> FALSE, polls |-> 1,
                   status |-> "processing", details |-> {}]
      BY <1>1, <2>1 DEF Shared!Rekeyed, Shared!Verify
    <3> QED BY <1>0, <3>1 DEF BackTypes, BackRow, BackIsOwn
  <2>2. CASE page # "return"
    BY <1>1, <2>2 DEF SharedInv, BackTypes, BackIsOwn
  <2> QED BY <2>1, <2>2
<1>3. /\ AskedAsShown' /\ StepTypes' /\ sent' \subseteq Asked /\ asks' \in 0..MaxAsks
      /\ saved' \in [Account -> [id : 0..MaxAsks, cart : Shared!Carts]]
  <2>1. CASE page = "pay"
    BY <1>0, <1>1, <2>1, EffectAsks DEF Shared!NoticeAccount
  <2>2. CASE page # "pay"
    <3>1. UNCHANGED <<form, saved, sent, asks>> /\ form = Shared!NoForm
      BY <2>2 DEF Shared!NoticeAccount, SharedInv, AskedAsShown
    <3> QED BY <3>1, NoStepAsks DEF SharedInv, BrowserTypes
  <2> QED BY <2>1, <2>2
<1>4. BrowserTypes'
  BY <1>0, <1>1, <1>3 DEF SharedInv, BrowserTypes
<1> QED BY <1>1, <1>2, <1>3, <1>4, SameMemo DEF SharedInv

\* An answer to a request: only the one in hand is heard, and its session is for
\* the account and the cart that are shown.
LEMMA CheckoutSharedInv ==
  ASSUME Shared!SharedBrowserAssumption, SharedInv, NEW r \in sent, Shared!Checkout(r)
  PROVE  SharedInv'
<1>0. /\ r \in Asked /\ r.n \in 1..MaxAsks /\ r.as \in Account \union {Out}
      /\ r.attempt \in 1..MaxAsks /\ r.cart \in 1..MaxCart /\ MaxCart \in Nat /\ MaxAsks \in Nat
  BY DEF SharedInv, BrowserTypes, Asked, Shared!SharedBrowserAssumption
<1>1. /\ sent' = sent \ {r}
      /\ UNCHANGED <<cookie, seen, cart, saved, page, back, asks>>
  BY DEF Shared!Checkout, Shared!bounds
<1>2. BackTypes' /\ BackIsOwn'
  BY <1>1 DEF SharedInv, BackTypes, BackIsOwn
<1>3. form \in [asked : 0..MaxAsks, lag : BOOLEAN, shown : OneOrNone, error : BOOLEAN]
  BY DEF SharedInv, StepTypes
<1>4. \A q \in sent' : q.n <= asks' /\ q.n # 0
  BY <1>1 DEF SharedInv, BrowserTypes, AskedAsShown, Asked
<1>5. ASSUME form' = form
      PROVE  AskedAsShown' /\ StepTypes'
  BY <1>1, <1>5 DEF SharedInv, AskedAsShown, StepTypes
<1>6. CASE Shared!Refused(r)
  <2>1. UNCHANGED <<memo, session>>
    BY <1>6 DEF Shared!Refused
  <2>2. BrowserTypes'
    BY <1>1, <2>1 DEF SharedInv, BrowserTypes
  <2>3. CASE Shared!Heard(r)
    <3>1. form' = [form EXCEPT !.asked = 0, !.error = TRUE] /\ form.asked # 0
      BY <1>0, <1>6, <2>3 DEF Shared!Refused, Shared!Heard
    <3>2. StepTypes' /\ form'.asked = 0 /\ form'.shown = form.shown /\ form'.lag = form.lag
      BY <1>3, <3>1, StepRow DEF StepTypes
    <3>3. page = "pay"
      BY <3>1 DEF SharedInv, AskedAsShown, Shared!NoForm
    <3>4. AskedAsShown'
      BY <1>1, <1>4, <3>2, <3>3 DEF SharedInv, AskedAsShown
    <3> QED BY <1>2, <2>1, <2>2, <3>2, <3>4, SameMemo DEF SharedInv
  <2>4. CASE ~Shared!Heard(r)
    <3>1. form' = form
      BY <1>6, <2>4 DEF Shared!Refused
    <3> QED BY <1>2, <1>5, <2>1, <2>2, <3>1, SameMemo DEF SharedInv
  <2> QED BY <2>3, <2>4
<1>7. CASE Shared!Opened(r)
  <2> DEFINE own == <<r.as, r.attempt>>
  <2>1. /\ r.as # Out /\ own \in Shared!Session
        /\ session[own].status = "none" \/ (session[own].status = "open" /\ session[own].cart = r.cart)
        /\ session' = [session EXCEPT ![own] = [cart |-> r.cart, status |-> "open"]]
    BY <1>0, <1>7 DEF Shared!Opened, Shared!Session
  <2>2. /\ session \in [Shared!Session -> [cart : Shared!Carts, status : {"none", "open", "paid"}]]
        /\ session'[own].cart = r.cart /\ session'[own].status = "open" /\ r.cart # 0
        /\ \A s \in Shared!Session : s # own => session'[s] = session[s]
        /\ session' \in [Shared!Session -> [cart : Shared!Carts, status : {"none", "open", "paid"}]]
    BY <1>0, <2>1 DEF SharedInv, BrowserTypes, Shared!Carts
  <2> HIDE DEF own
  <2>3. SessionsHaveCarts'
    BY <2>2 DEF SharedInv, SessionsHaveCarts
  <2>4. \A m \in memo : /\ session'[m.session].status # "none"
                        /\ session'[m.session].cart = m.cart
                        /\ m.session[1] = m.user \/ m.lag
    <3> SUFFICES ASSUME NEW m \in memo
                 PROVE  /\ session'[m.session].status # "none"
                        /\ session'[m.session].cart = m.cart
                        /\ m.session[1] = m.user \/ m.lag
      OBVIOUS
    <3>1. /\ m.session \in Shared!Session /\ session[m.session].status # "none"
          /\ session[m.session].cart = m.cart /\ (m.session[1] = m.user \/ m.lag)
      BY DEF SharedInv, BrowserTypes, ReturnRecord, MemoIsTrue
    <3> QED BY <2>1, <2>2, <3>1
  <2>5. CASE UNCHANGED <<memo, form>>
    <3>1. BrowserTypes'
      BY <1>1, <2>2, <2>5 DEF SharedInv, BrowserTypes
    <3>2. MemoIsTrue'
      BY <2>4, <2>5 DEF MemoIsTrue
    <3> QED BY <1>2, <1>5, <2>3, <2>5, <3>1, <3>2 DEF SharedInv
  <2>6. ASSUME Shared!Heard(r), form' = [form EXCEPT !.asked = 0, !.shown = {own}],
               memo' = memo \union {[session |-> own, user |-> seen, cart |-> cart, lag |-> form.lag]}
        PROVE  SharedInv'
    <3>1. form.asked = r.n /\ form.asked # 0 /\ page = "pay" /\ seen \in Account
      BY <1>0, <2>6 DEF SharedInv, BrowserTypes, AskedAsShown, Shared!Heard, Shared!NoForm
    <3>2. r.cart = cart /\ (r.as = seen \/ form.lag)
      BY <3>1 DEF SharedInv, AskedAsShown
    <3>3. own[1] = r.as
      BY DEF own
    <3>4. {own} \in OneOrNone
      BY <2>1 DEF OneOrNone
    <3>5. StepTypes' /\ form'.asked = 0 /\ form'.shown = {own} /\ form'.lag = form.lag
      BY <1>3, <2>6, <3>4, StepRow DEF StepTypes
    <3>6. AskedAsShown'
      BY <1>1, <1>4, <3>1, <3>2, <3>3, <3>5 DEF AskedAsShown
    <3>7. PICK m : m = [session |-> own, user |-> seen, cart |-> cart, lag |-> form.lag]
      OBVIOUS
    <3>8. /\ m \in ReturnRecord /\ m.session = own /\ m.cart = cart /\ m.user = seen
          /\ m.lag = form.lag
      BY <1>3, <2>1, <3>1, <3>7 DEF SharedInv, BrowserTypes, ReturnRecord
    <3>9. memo' = memo \union {m}
      BY <2>6, <3>7
    <3>10. BrowserTypes'
      BY <1>1, <2>2, <3>8, <3>9 DEF SharedInv, BrowserTypes
    <3>11. MemoIsTrue'
      BY <2>2, <2>4, <3>2, <3>3, <3>8, <3>9 DEF MemoIsTrue
    <3> QED BY <1>2, <2>3, <3>5, <3>6, <3>10, <3>11 DEF SharedInv
  <2> QED BY <1>7, <2>5, <2>6 DEF Shared!Opened, own
<1> QED BY <1>6, <1>7 DEF Shared!Checkout

\* A visit to the return page begins with nothing of a payment, or with what it
\* showed before.
LEMMA VerifyTyped ==
  ASSUME Shared!SharedBrowserAssumption, SharedInv, NEW s \in OneOrNone, NEW d \in OneOrNone
  PROVE  /\ Shared!Verify(s, d) \in BackRow
         /\ Shared!Verify(s, d).phase = "asked" /\ Shared!Verify(s, d).details = d
         /\ Shared!Verify(s, d).of = s
<1>1. 1 \in 0..MaxPolls /\ cookie \in Account \union {Out} /\ FALSE \in BOOLEAN
  BY DEF SharedInv, BrowserTypes, Shared!SharedBrowserAssumption
<1> QED BY <1>1 DEF Shared!Verify, BackRow

\* Arriving on the return page, from Stripe or from the browser's history.
LEMMA ArriveBackSharedInv ==
  ASSUME Shared!SharedBrowserAssumption, SharedInv,
         Shared!Confirm \/ \E s \in Shared!Session : Shared!OpenReturn(s)
  PROVE  SharedInv'
<1>0. {} \in OneOrNone
  BY DEF OneOrNone
<1>1. CASE Shared!Confirm
  <2>1. PICK s \in Shared!FormShown : /\ session[s].status = "open"
                                      /\ session' = [session EXCEPT ![s].status = "paid"]
    BY <1>1 DEF Shared!Confirm
  <2>2. /\ page = "pay" /\ s \in form.shown /\ form.shown \in OneOrNone
    BY <2>1 DEF Shared!FormShown, SharedInv, StepTypes
  <2>3. s \in Shared!Session /\ form.shown = {s}
    BY <2>2 DEF OneOrNone
  <2>4. UNCHANGED <<cookie, seen, cart, saved, memo, sent, asks>>
    BY <1>1 DEF Shared!Confirm, Shared!bounds
  <2>5. /\ session \in [Shared!Session -> [cart : Shared!Carts, status : {"none", "open", "paid"}]]
        /\ session' \in [Shared!Session -> [cart : Shared!Carts, status : {"none", "open", "paid"}]]
        /\ session'[s].status = "paid" /\ session'[s].cart = session[s].cart
        /\ \A q \in Shared!Session : q # s => session'[q] = session[q]
    BY <2>1, <2>3 DEF SharedInv, BrowserTypes
  <2>6. MemoIsTrue'
    <3> SUFFICES ASSUME NEW m \in memo
                 PROVE  /\ session'[m.session].status # "none"
                        /\ session'[m.session].cart = m.cart
                        /\ m.session[1] = m.user \/ m.lag
      BY <2>4 DEF MemoIsTrue
    <3>1. /\ m.session \in Shared!Session /\ session[m.session].status # "none"
          /\ session[m.session].cart = m.cart /\ (m.session[1] = m.user \/ m.lag)
      BY DEF SharedInv, BrowserTypes, ReturnRecord, MemoIsTrue
    <3> QED BY <2>5, <3>1
  <2>7. SessionsHaveCarts'
    BY <2>1, <2>3, <2>5 DEF SharedInv, SessionsHaveCarts
  <2>8. CASE page' = "return" /\ back' = Shared!Verify(form.shown, {}) /\ form' = Shared!NoForm
    <3>1. BackTypes' /\ BackIsOwn'
      BY <1>0, <2>2, <2>8, VerifyTyped DEF BackTypes, BackIsOwn
    <3>2. BrowserTypes'
      BY <2>4, <2>5, <2>8 DEF SharedInv, BrowserTypes
    <3> QED BY <2>4, <2>6, <2>7, <2>8, <3>1, <3>2, NoStepAsks DEF SharedInv
  <2>9. CASE UNCHANGED <<page, back, form>>
    <3>1. BrowserTypes' /\ BackTypes' /\ BackIsOwn'
      BY <2>4, <2>5, <2>9 DEF SharedInv, BrowserTypes, BackTypes, BackIsOwn
    <3> QED BY <2>4, <2>6, <2>7, <2>9, <3>1, SameStepAsks DEF SharedInv
  <2> QED BY <1>1, <2>8, <2>9 DEF Shared!Confirm
<1>2. ASSUME NEW s \in Shared!Session, Shared!OpenReturn(s)
      PROVE  SharedInv'
  <2>1. /\ page' = "return" /\ back' = Shared!Verify({s}, {}) /\ form' = Shared!NoForm
        /\ UNCHANGED <<cookie, seen, cart, saved, memo, sent, session, asks>>
    BY <1>2 DEF Shared!OpenReturn
  <2>2. {s} \in OneOrNone
    BY DEF OneOrNone
  <2>3. BackTypes' /\ BackIsOwn'
    BY <1>0, <2>1, <2>2, VerifyTyped DEF BackTypes, BackIsOwn
  <2>4. BrowserTypes'
    BY <2>1 DEF SharedInv, BrowserTypes
  <2> QED BY <2>1, <2>3, <2>4, NoStepAsks, SameMemo DEF SharedInv
<1> QED BY <1>1, <1>2

\* A step of the return page that shows no more than before.
LEMMA BackSharedInv ==
  ASSUME SharedInv, UNCHANGED <<cookie, seen, cart, saved, memo, page, form, sent, session, asks>>,
         back' \in BackRow, back'.details = back.details, back'.lag = back.lag,
         back'.phase = "waits" => back'.polls < MaxPolls
  PROVE  SharedInv'
<1>1. BrowserTypes' /\ BackTypes' /\ BackIsOwn'
  BY DEF SharedInv, BrowserTypes, BackTypes, BackIsOwn
<1> QED BY <1>1, SameStepAsks, SameMemo DEF SharedInv

\* The return page asks on, gives up, or begins again: what it shows stays.
LEMMA PollSharedInv ==
  ASSUME Shared!SharedBrowserAssumption, SharedInv,
         Shared!StatusFails \/ Shared!Poll \/ Shared!VerifyAgain
  PROVE  SharedInv'
<1>0. /\ back \in BackRow /\ cookie \in Account \union {Out} /\ MaxPolls \in Nat
      /\ page = "return" => \A s \in back.details : s[1] = seen \/ back.lag
      /\ back.phase = "waits" => back.polls < MaxPolls
      /\ 1 \in 0..MaxPolls
  BY DEF SharedInv, BackTypes, BrowserTypes, BackIsOwn, Shared!SharedBrowserAssumption
<1>1. UNCHANGED <<cookie, seen, cart, saved, memo, page, form, sent, session, asks>>
  BY DEF Shared!StatusFails, Shared!Poll, Shared!VerifyAgain, Shared!bounds
<1>2. CASE Shared!StatusFails
  <2>1. back' = [back EXCEPT !.status = "unavailable", !.phase = "done"]
    BY <1>2 DEF Shared!StatusFails
  <2>2. /\ back' \in BackRow /\ back'.phase = "done"
        /\ back'.details = back.details /\ back'.lag = back.lag
    BY <1>0, <2>1 DEF BackRow
  <2> QED BY <1>1, <2>2, BackSharedInv
<1>3. CASE Shared!Poll
  <2>1. back' = [back EXCEPT !.phase = "asked", !.as = cookie, !.polls = back.polls + 1]
        /\ back.phase = "waits"
    BY <1>3 DEF Shared!Poll
  <2>2. back.polls + 1 \in 0..MaxPolls
    BY <1>0, <2>1 DEF BackRow
  <2>3. /\ back' \in BackRow /\ back'.phase = "asked"
        /\ back'.details = back.details /\ back'.lag = back.lag
    BY <1>0, <2>1, <2>2 DEF BackRow
  <2> QED BY <1>1, <2>3, BackSharedInv
<1>4. CASE Shared!VerifyAgain
  <2>1. back' = [Shared!Verify(back.of, back.details) EXCEPT !.lag = back.lag]
    BY <1>4 DEF Shared!VerifyAgain
  <2>2. back.of \in OneOrNone /\ back.details \in OneOrNone /\ back.lag \in BOOLEAN
    BY <1>0 DEF BackRow
  <2>3. /\ Shared!Verify(back.of, back.details) \in BackRow
        /\ Shared!Verify(back.of, back.details).phase = "asked"
        /\ Shared!Verify(back.of, back.details).details = back.details
    BY <2>2, VerifyTyped
  <2>4. /\ back' \in BackRow /\ back'.phase = "asked"
        /\ back'.details = back.details /\ back'.lag = back.lag
    BY <2>1, <2>2, <2>3 DEF BackRow
  <2> QED BY <1>1, <2>4, BackSharedInv
<1> QED BY <1>2, <1>3, <1>4

\* The owner is told of the payment; the page consumes the return record of a paid
\* session, if it is for this account.
LEMMA StatusSharedInv ==
  ASSUME Shared!SharedBrowserAssumption, SharedInv, Shared!Status
  PROVE  SharedInv'
<1>0. /\ back \in BackRow /\ MaxPolls \in Nat /\ back.polls \in 0..MaxPolls
      /\ page = "return" /\ form = Shared!NoForm /\ seen \in Account \union {Out}
      /\ saved \in [Account -> [id : 0..MaxAsks, cart : Shared!Carts]]
  BY DEF SharedInv, BackTypes, BackRow, BrowserTypes, AskedAsShown, Shared!Status,
         Shared!SharedBrowserAssumption, Shared!NoForm
<1>1. UNCHANGED <<cookie, seen, page, form, sent, session, asks>>
  BY DEF Shared!Status, Shared!bounds
<1>2. PICK s \in back.of :
        IF back.as = s[1] THEN
          LET paid_ == session[s].status = "paid" IN
          /\ back' = [back EXCEPT !.status = IF paid_ THEN "paid" ELSE "unpaid",
                                  !.details = {s}, !.lag = back.as # seen,
                                  !.phase = IF paid_ \/ Shared!PollsUsedUp THEN "done" ELSE "waits"]
          /\ IF paid_ /\ seen # Out THEN Shared!Consume ELSE UNCHANGED <<memo, cart, saved>>
        ELSE /\ back' = [back EXCEPT !.status = "unavailable", !.phase = "done"]
             /\ UNCHANGED <<memo, cart, saved>>
  BY DEF Shared!Status
<1>3. /\ memo' \subseteq memo /\ cart' \in Shared!Carts
      /\ saved' \in [Account -> [id : 0..MaxAsks, cart : Shared!Carts]]
  <2>1. CASE UNCHANGED <<memo, cart, saved>>
    BY <1>0, <2>1 DEF SharedInv, BrowserTypes
  <2>2. CASE seen # Out /\ Shared!Consume
    <3>1. Shared!NoAttempt \in [id : 0..MaxAsks, cart : Shared!Carts] /\ 0 \in Shared!Carts
      BY DEF Shared!NoAttempt, Shared!Carts, Shared!SharedBrowserAssumption
    <3>2. seen \in Account
      BY <1>0, <2>2
    <3>3. cart' = 0 \/ cart' = cart
      BY <2>2 DEF Shared!Consume
    <3>4. saved' = saved \/ saved' = [saved EXCEPT ![seen] = Shared!NoAttempt]
      BY <2>2 DEF Shared!Consume
    <3> QED BY <1>0, <2>2, <3>1, <3>2, <3>3, <3>4 DEF Shared!Consume, SharedInv, BrowserTypes
  <2> QED BY <1>2, <2>1, <2>2
<1>4. BackTypes' /\ BackIsOwn'
  <2>1. CASE back.as = s[1]
    <3>1. PICK st \in {"paid", "unpaid"}, lag_ \in BOOLEAN, ph \in {"done", "waits"} :
            /\ back' = [back EXCEPT !.status = st, !.details = {s}, !.lag = lag_, !.phase = ph]
            /\ lag_ = (back.as # seen) /\ (ph = "waits" => ~Shared!PollsUsedUp)
      BY <1>2, <2>1
    <3>2. {s} \in OneOrNone
      BY <1>0 DEF BackRow, OneOrNone
    <3>3. /\ back' \in BackRow /\ back'.details = {s} /\ back'.lag = lag_ /\ back'.phase = ph
          /\ back'.polls = back.polls
      BY <1>0, <3>1, <3>2 DEF BackRow
    <3>4. \A q \in back'.details : q[1] = seen \/ back'.lag
      BY <2>1, <3>1, <3>3
    <3>5. back'.phase = "waits" => back'.polls < MaxPolls
      BY <1>0, <3>1, <3>3 DEF Shared!PollsUsedUp
    <3> QED BY <1>1, <3>3, <3>4, <3>5 DEF BackTypes, BackIsOwn
  <2>2. CASE back.as # s[1]
    <3>1. back' = [back EXCEPT !.status = "unavailable", !.phase = "done"]
      BY <1>2, <2>2
    <3>2. /\ back' \in BackRow /\ back'.details = back.details /\ back'.lag = back.lag
          /\ back'.phase = "done"
      BY <1>0, <3>1 DEF BackRow
    <3> QED BY <1>1, <3>2 DEF SharedInv, BackTypes, BackIsOwn
  <2> QED BY <2>1, <2>2
<1>5. BrowserTypes'
  BY <1>1, <1>3 DEF SharedInv, BrowserTypes
<1>6. MemoIsTrue' /\ SessionsHaveCarts'
  BY <1>1, <1>3 DEF SharedInv, MemoIsTrue, SessionsHaveCarts
<1>7. AskedAsShown' /\ StepTypes'
  BY <1>0, <1>1, NoStepAsks
<1> QED BY <1>4, <1>5, <1>6, <1>7 DEF SharedInv

LEMMA NextSharedInv ==
  ASSUME Shared!SharedBrowserAssumption, SharedInv, [Shared!Next]_(Shared!vars)
  PROVE  SharedInv'
<1>1. CASE Shared!Next
  BY <1>1, PayStepSharedInv, PlainSharedInv, NoticeSharedInv, CheckoutSharedInv,
     ArriveBackSharedInv, PollSharedInv, StatusSharedInv DEF Shared!Next
<1>2. CASE UNCHANGED Shared!vars
  <2> USE <1>2 DEF Shared!vars
  <2>1. BrowserTypes' /\ BackTypes' /\ BackIsOwn'
    BY DEF SharedInv, BrowserTypes, BackTypes, BackIsOwn
  <2> QED BY <2>1, SameStepAsks, SameMemo DEF SharedInv
<1> QED BY <1>1, <1>2

LEMMA SharedInvariance ==
  ASSUME Shared!SharedBrowserAssumption
  PROVE  Shared!Spec => []SharedInv
<1>1. Shared!Init => SharedInv
  BY InitSharedInv
<1>2. SharedInv /\ [Shared!Next]_(Shared!vars) => SharedInv'
  BY NextSharedInv
<1> QED BY <1>1, <1>2, PTL DEF Shared!Spec

LEMMA OneOrNoneIsSmall == \A few \in OneOrNone : Shared!Cardinality(few) <= 1
<1>1. Cardinality({}) = 0
  BY FS_EmptySet
<1>2. \A s \in Shared!Session : Cardinality({s}) = 1
  BY FS_Singleton
<1>3. \A few : Shared!Cardinality(few) = Cardinality(few)
  BY DEF Cardinality, Shared!Cardinality
<1> QED BY <1>1, <1>2, <1>3 DEF OneOrNone

\* The tab's invariant has its type invariant in it.
LEMMA SharedTyped ==
  ASSUME Shared!SharedBrowserAssumption, SharedInv
  PROVE  Shared!TypeOK
<1>1. form.asked \in 0..MaxAsks /\ form.shown \in OneOrNone
  BY DEF SharedInv, StepTypes
<1>2. back.polls \in 0..MaxPolls /\ back.details \in OneOrNone
  BY DEF SharedInv, BackTypes, BackRow
<1>3. Shared!Cardinality(form.shown) <= 1 /\ Shared!Cardinality(back.details) <= 1
  BY <1>1, <1>2, OneOrNoneIsSmall
<1>4. memo \subseteq [session : Shared!Session, user : Account, cart : Shared!Carts, lag : BOOLEAN]
  BY DEF SharedInv, BrowserTypes, ReturnRecord
<1>5. /\ {cookie, seen} \subseteq Account \union {Out} /\ cart \in Shared!Carts
      /\ saved \in [Account -> [id : 0..MaxAsks, cart : Shared!Carts]]
      /\ page \in {"shop", "pay", "return"}
  BY DEF SharedInv, BrowserTypes
<1>6. \A s \in Shared!Session : session[s].status = "none" <=> session[s].cart = 0
  BY DEF SharedInv, SessionsHaveCarts
<1> QED BY <1>1, <1>2, <1>3, <1>4, <1>5, <1>6 DEF Shared!TypeOK

\* The variables of the browser's tab have their types.
THEOREM SharedTypeCorrect ==
  ASSUME Shared!SharedBrowserAssumption
  PROVE  Shared!Spec => []Shared!TypeOK
<1>1. SharedInv => Shared!TypeOK
  BY SharedTyped
<1> QED BY <1>1, SharedInvariance, PTL

\* And shows a form, or a payment, to its account alone.
LEMMA FormIsOwn ==
  ASSUME Shared!SharedBrowserAssumption, SharedInv
  PROVE  Shared!FormIsForItsAccount
  BY DEF SharedInv, AskedAsShown, Shared!FormIsForItsAccount, Shared!FormShown

\* A payment form stands before the account that owns its session, whatever
\* requests, answers, timeouts and changes of account overlap (the request sent
\* before the tab has noticed a change aside).
THEOREM FormIsTheOwners ==
  ASSUME Shared!SharedBrowserAssumption
  PROVE  Shared!Spec => []Shared!FormIsForItsAccount
<1>1. SharedInv => Shared!FormIsForItsAccount
  BY FormIsOwn
<1> QED BY <1>1, SharedInvariance, PTL

LEMMA PaymentIsOwn ==
  ASSUME Shared!SharedBrowserAssumption, SharedInv
  PROVE  Shared!PaymentShownToItsBuyer
  BY DEF SharedInv, BackIsOwn, Shared!PaymentShownToItsBuyer, Shared!PaymentShown

\* The return page shows a payment to the account that made it.
THEOREM PaymentIsTheBuyers ==
  ASSUME Shared!SharedBrowserAssumption
  PROVE  Shared!Spec => []Shared!PaymentShownToItsBuyer
<1>1. SharedInv => Shared!PaymentShownToItsBuyer
  BY PaymentIsOwn
<1> QED BY <1>1, SharedInvariance, PTL

\* A cart is emptied on the return page alone, by a record of its payment.
LEMMA CartLeaves ==
  ASSUME Shared!SharedBrowserAssumption, SharedInv, Shared!Next
  PROVE  Shared!CartLeavesWithItsBuyer
<1> SUFFICES ASSUME page = "return", cart # 0, cart' = 0
             PROVE  \E m \in memo : /\ {m.session} = back.of
                                    /\ session[m.session].status = "paid"
                                    /\ session[m.session].cart = cart
                                    /\ m.session[1] = seen \/ m.lag
  BY DEF Shared!CartLeavesWithItsBuyer
<1>1. Shared!Status
  BY DEF Shared!Next, Shared!OpenPayment, Shared!RetryCheckout, Shared!GoShopping, Shared!TimeOut,
         Shared!Confirm, Shared!StatusFails, Shared!Poll, Shared!VerifyAgain, Shared!NoticeAccount,
         Shared!ChangeCart, Shared!Checkout, Shared!OpenReturn, Shared!SwitchAccount
<1>2. PICK s \in back.of : session[s].status = "paid" /\ Shared!Consume
  BY <1>1 DEF Shared!Status
<1>3. PICK m \in memo : {m.session} = back.of /\ m.user = seen /\ m.cart = cart
  BY <1>2 DEF Shared!Consume, Shared!Consumable, Shared!SameCart
<1>4. m.session = s
  BY <1>2, <1>3
<1> QED BY <1>2, <1>3, <1>4 DEF SharedInv, MemoIsTrue

\* The return page empties the cart only for the account that paid for just
\* this cart.
THEOREM CartIsTheBuyers ==
  ASSUME Shared!SharedBrowserAssumption
  PROVE  Shared!Spec => [][Shared!CartLeavesWithItsBuyer]_(Shared!vars)
<1>1. SharedInv /\ Shared!Next => Shared!CartLeavesWithItsBuyer
  BY CartLeaves
<1> QED BY <1>1, SharedInvariance, PTL DEF Shared!Spec

-----------------------------------------------------------------------------
(* CheckoutAttempt *)

TabFields == {"page", "cart", "form", "saved", "memo", "back", "pay"}
PayFields == {"asked", "shown", "refused", "synced", "stuck"}
RecordFields == {"by", "cart", "status", "email", "address", "acknowledged"}

\* Which fields there are, and which attempts they may name.  Nothing is asked of
\* what a cart holds: the properties compare signatures only.
AttemptTypes ==
  /\ used \in 0..MaxAttempts
  /\ DOMAIN tab = CustomerTab
  /\ \A t \in CustomerTab :
       /\ DOMAIN tab[t] = TabFields /\ DOMAIN tab[t].pay = PayFields
       /\ tab[t].page \in {"shop", "pay", "return"}
       /\ tab[t].saved.id \in 0..used /\ tab[t].pay.synced \in 0..2
  /\ DOMAIN session = Tabs!Attempt
  /\ \A a \in Tabs!Attempt : DOMAIN session[a] = RecordFields
  /\ \A r \in sent : /\ r.by \in CustomerTab /\ r.attempt \in 1..used /\ r.cart # <<>>
                     /\ session[r.attempt].by = r.by

\* What a tab waits for and shows is of its saved attempt; the return page of a
\* tab is of the attempt it saved last.
PagesAgree ==
  \A t \in CustomerTab :
    /\ tab[t].page # "pay" => tab[t].pay = Tabs!Quiet
    /\ tab[t].page = "pay" => tab[t].cart # <<>>
    /\ tab[t].page = "return" => tab[t].back \in 1..used /\ tab[t].saved.id \in {0, tab[t].back}
    /\ tab[t].pay.asked \in {0, tab[t].saved.id}
    /\ tab[t].pay.shown \in {0, tab[t].saved.id}
    /\ tab[t].pay.asked # 0 => tab[t].pay.shown = 0 /\ tab[t].pay.synced = 0

\* The details that Stripe has by now are those of the form.
DetailsSynced ==
  \A t \in CustomerTab : tab[t].pay.shown # 0 =>
    /\ tab[t].pay.synced # 0 => session[tab[t].pay.shown].email = tab[t].form
    /\ tab[t].pay.synced = 2 => session[tab[t].pay.shown].address = tab[t].form

\* A tab saves its last attempt until that has been acknowledged.
LastOf(t, a) == session[a].by = t /\ \A c \in 1..used : a < c => session[c].by # t
SavedIsLast ==
  \A t \in CustomerTab :
    /\ tab[t].saved.id # 0 => LastOf(t, tab[t].saved.id)
    /\ tab[t].saved.id = 0 => \A a \in 1..used : LastOf(t, a) => session[a].acknowledged

\* A record holds a cart from its first request on.
RecordsHoldCarts ==
  \A a \in Tabs!Attempt : /\ session[a].status = "none" <=> session[a].cart = <<>>
                          /\ used < a => session[a].status = "none"

\* A return record tells the cart of its session.
MemoTells ==
  \A t \in CustomerTab : \A m \in tab[t].memo :
    /\ m.session \in 1..used /\ session[m.session].status # "none"
    /\ m.signature = Tabs!Signature(session[m.session].cart)

\* The carts an attempt is known for: in requests, at payment-service, in a tab.
\* They have one signature, and the next attempt of a tab has another.
Signatures(a) ==
  {Tabs!Signature(r.cart) : r \in {q \in sent : q.attempt = a}}
  \union {Tabs!Signature(session[b].cart) : b \in {c \in {a} : session[c].status # "none"}}
  \union {tab[t].saved.signature : t \in {u \in CustomerTab : tab[u].saved.id = a}}
OneSignature == \A a \in 1..used : \A x, y \in Signatures(a) : x = y
NextDiffers ==
  \A a, b \in 1..used : Tabs!NextOf(a, b) =>
    \/ session[a].acknowledged \/ a \in lapsed
    \/ \A x \in Signatures(a) : x \notin Signatures(b)

AttemptInv ==
  /\ AttemptTypes /\ PagesAgree /\ DetailsSynced /\ SavedIsLast /\ RecordsHoldCarts /\ MemoTells
  /\ OneSignature /\ NextDiffers

LEMMA InitAttemptInv ==
  ASSUME Tabs!CheckoutAttemptAssumption, Tabs!Init
  PROVE  AttemptInv
<1> USE DEF Tabs!Init
<1>0. MaxAttempts \in Nat /\ used = 0 /\ sent = {}
  BY DEF Tabs!CheckoutAttemptAssumption
<1>1. \A t \in CustomerTab : tab[t] = Tabs!Shop
  OBVIOUS
<1>2. AttemptTypes
  BY <1>0, <1>1 DEF AttemptTypes, Tabs!Shop, Tabs!Quiet, Tabs!NoAttempt, Tabs!NoRecord, TabFields, PayFields,
     RecordFields
<1>3. PagesAgree /\ DetailsSynced /\ MemoTells
  BY <1>0, <1>1 DEF PagesAgree, DetailsSynced, MemoTells, Tabs!Shop, Tabs!Quiet, Tabs!NoAttempt
<1>4. SavedIsLast
  BY <1>0, <1>1 DEF SavedIsLast, Tabs!Shop, Tabs!NoAttempt
<1>5. RecordsHoldCarts
  BY DEF RecordsHoldCarts, Tabs!NoRecord
<1>6. OneSignature /\ NextDiffers
  BY <1>0 DEF OneSignature, NextDiffers
<1> QED BY <1>2, <1>3, <1>4, <1>5, <1>6 DEF AttemptInv

\* What an attempt is known for, without the set.
LEMMA KnownFor ==
  ASSUME NEW a, NEW x
  PROVE  x \in Signatures(a) <=>
           \/ \E r \in sent : r.attempt = a /\ x = Tabs!Signature(r.cart)
           \/ session[a].status # "none" /\ x = Tabs!Signature(session[a].cart)
           \/ \E t \in CustomerTab : tab[t].saved.id = a /\ x = tab[t].saved.signature
BY DEF Signatures

\* A step that makes no attempt and lets none be known for another cart.
LEMMA SignaturesKept ==
  ASSUME AttemptInv, used' = used,
         \A a \in 1..used : /\ session'[a].by = session[a].by
                            /\ session[a].acknowledged => session'[a].acknowledged
                            /\ a \in lapsed => a \in lapsed'
                            /\ \A x \in Signatures(a)' : x \in Signatures(a)
  PROVE  OneSignature' /\ NextDiffers'
<1>1. OneSignature'
  BY DEF AttemptInv, OneSignature
<1>2. ASSUME NEW a \in 1..used, NEW b \in 1..used, Tabs!NextOf(a, b)'
      PROVE  Tabs!NextOf(a, b)
  <2>1. \A c \in (a + 1)..(b - 1) : c \in 1..used
    BY DEF AttemptInv, AttemptTypes
  <2> QED BY <1>2, <2>1 DEF Tabs!NextOf
<1>3. NextDiffers'
  BY <1>2 DEF AttemptInv, NextDiffers
<1> QED BY <1>1, <1>3

\* The same of a step that only loses requests and records carts from them.
LEMMA NothingNewKnown ==
  ASSUME AttemptInv, used' = used, sent' \subseteq sent,
         \A u \in CustomerTab : tab'[u].saved = tab[u].saved \/ tab'[u].saved.id = 0,
         \A a \in 1..used : /\ session'[a].by = session[a].by
                            /\ session[a].acknowledged => session'[a].acknowledged
                            /\ a \in lapsed => a \in lapsed'
                            /\ session'[a].status # "none" =>
                                 \/ session[a].status # "none" /\ session'[a].cart = session[a].cart
                                 \/ \E r \in sent : r.attempt = a /\ r.cart = session'[a].cart
  PROVE  OneSignature' /\ NextDiffers'
<1>1. ASSUME NEW a \in 1..used, NEW x \in Signatures(a)'
      PROVE  x \in Signatures(a)
  <2>0. a # 0
    BY DEF AttemptInv, AttemptTypes
  <2>1. \/ \E r \in sent' : r.attempt = a /\ x = Tabs!Signature(r.cart)
        \/ session'[a].status # "none" /\ x = Tabs!Signature(session'[a].cart)
        \/ \E t \in CustomerTab : tab'[t].saved.id = a /\ x = tab'[t].saved.signature
    BY DEF Signatures, Tabs!Signature
  <2> QED BY <2>0, <2>1, KnownFor
<1> QED BY <1>1, SignaturesKept

\* A step of payment-service or of the pages that makes no attempt: it changes a
\* record only by a request for it, and forgets a saved attempt only when it has
\* been acknowledged.
LEMMA QuietStep ==
  ASSUME Tabs!CheckoutAttemptAssumption, AttemptInv, used' = used, sent' \subseteq sent,
         AttemptTypes', PagesAgree', DetailsSynced',
         \A a \in 1..used : a \in lapsed => a \in lapsed',
         \A a \in Tabs!Attempt :
           /\ session'[a].by = session[a].by
           /\ session[a].acknowledged => session'[a].acknowledged
           /\ \/ /\ session'[a].status = "none" <=> session[a].status = "none"
                 /\ session'[a].cart = session[a].cart
              \/ /\ session[a].status = "none" /\ session'[a].status # "none"
                 /\ \E r \in sent : r.attempt = a /\ r.cart = session'[a].cart,
         \A u \in CustomerTab :
           /\ \/ tab'[u].saved = tab[u].saved
              \/ /\ tab'[u].saved.id = 0
                 /\ \A a \in 1..used : LastOf(u, a) => session'[a].acknowledged
           /\ \A m \in tab'[u].memo :
                \/ m \in tab[u].memo
                \/ /\ m.session \in 1..used /\ session'[m.session].status # "none"
                   /\ m.signature = Tabs!Signature(session'[m.session].cart)
  PROVE  AttemptInv'
<1>0. \A a \in 1..used : a \in Tabs!Attempt
  BY DEF AttemptInv, AttemptTypes, Tabs!Attempt, Tabs!CheckoutAttemptAssumption
<1>1. OneSignature' /\ NextDiffers'
  BY <1>0, NothingNewKnown
<1>2. RecordsHoldCarts'
  BY DEF AttemptInv, AttemptTypes, RecordsHoldCarts
<1>3. MemoTells'
  BY <1>0 DEF AttemptInv, MemoTells
<1>4. \A u : \A a \in 1..used : LastOf(u, a)' <=> LastOf(u, a)
  BY <1>0 DEF LastOf
<1>5. ASSUME NEW u \in CustomerTab
      PROVE  /\ tab'[u].saved.id # 0 => LastOf(u, tab[u].saved.id)'
             /\ tab'[u].saved.id = 0 => \A a \in 1..used : LastOf(u, a)' => session'[a].acknowledged
  <2>1. CASE tab'[u].saved = tab[u].saved
    <3>1. tab[u].saved.id \in 0..used
      BY DEF AttemptInv, AttemptTypes
    <3>2. tab[u].saved.id # 0 => LastOf(u, tab[u].saved.id)'
      <4>1. ASSUME tab[u].saved.id # 0
            PROVE  LastOf(u, tab[u].saved.id)'
        <5>1. PICK i : i = tab[u].saved.id /\ tab'[u].saved.id = i
          BY <2>1
        <5>2. LastOf(u, i)
          BY <4>1, <5>1 DEF AttemptInv, SavedIsLast
        <5>3. i \in 1..used
          BY <3>1, <4>1, <5>1 DEF AttemptInv, AttemptTypes
        <5>4. LastOf(u, i)'
          BY <1>4, <5>2, <5>3
        <5> QED BY <5>1, <5>4 DEF LastOf
      <4> QED BY <4>1
    <3> QED BY <1>0, <1>4, <2>1, <3>2 DEF AttemptInv, SavedIsLast
  <2>2. CASE /\ tab'[u].saved.id = 0
             /\ \A a \in 1..used : LastOf(u, a) => session'[a].acknowledged
    BY <1>4, <2>2
  <2> QED BY <2>1, <2>2
<1>6. SavedIsLast'
  BY <1>5 DEF SavedIsLast
<1> QED BY <1>1, <1>2, <1>3, <1>6 DEF AttemptInv

\* A step of one tab.
PageAgrees(row) ==
  /\ DOMAIN row = TabFields /\ DOMAIN row.pay = PayFields
  /\ row.page \in {"shop", "pay", "return"} /\ row.pay.synced \in 0..2
  /\ row.page # "pay" => row.pay = Tabs!Quiet
  /\ row.page = "pay" => row.cart # <<>>
  /\ row.page = "return" => row.back \in 1..used /\ row.saved.id \in {0, row.back}
  /\ row.saved.id \in 0..used
  /\ row.pay.asked \in {0, row.saved.id} /\ row.pay.shown \in {0, row.saved.id}
  /\ row.pay.asked # 0 => row.pay.shown = 0 /\ row.pay.synced = 0

LEMMA TabAgrees ==
  ASSUME AttemptInv, NEW t \in CustomerTab
  PROVE  PageAgrees(tab[t])
BY DEF AttemptInv, AttemptTypes, PagesAgree, PageAgrees

LEMMA TabStep ==
  ASSUME Tabs!CheckoutAttemptAssumption, AttemptInv, used' = used, sent' \subseteq sent,
         NEW t \in CustomerTab, NEW row, PageAgrees(row),
         DOMAIN tab' = CustomerTab, tab'[t] = row, \A u \in CustomerTab : u # t => tab'[u] = tab[u],
         DOMAIN session' = Tabs!Attempt,
         \A a \in Tabs!Attempt : DOMAIN session'[a] = RecordFields /\ session'[a].by = session[a].by
  PROVE  AttemptTypes' /\ PagesAgree'
<1>1. tab'[t] = row /\ DOMAIN tab' = CustomerTab /\ \A u \in CustomerTab : u # t => tab'[u] = tab[u]
  OBVIOUS
<1>2. AttemptTypes'
  <2>1. \A a \in 1..used : a \in Tabs!Attempt
    BY DEF AttemptInv, AttemptTypes, Tabs!Attempt, Tabs!CheckoutAttemptAssumption
  <2>2. \A r \in sent' : /\ r.by \in CustomerTab /\ r.attempt \in 1..used /\ r.cart # <<>>
                        /\ session'[r.attempt].by = r.by
    BY <2>1 DEF AttemptInv, AttemptTypes
  <2> QED BY <1>1, <2>2 DEF AttemptInv, AttemptTypes, PageAgrees
<1>3. PagesAgree'
  BY <1>1 DEF AttemptInv, PagesAgree, PageAgrees
<1> QED BY <1>1, <1>2, <1>3

\* The details Stripe has are of the tab's own session: another tab's step leaves
\* them alone.
LEMMA ShownIsOwn ==
  ASSUME AttemptInv, NEW t \in CustomerTab, tab[t].pay.shown # 0
  PROVE  /\ tab[t].page = "pay" /\ tab[t].pay.shown = tab[t].saved.id
         /\ tab[t].pay.shown \in 1..used /\ session[tab[t].pay.shown].by = t
BY DEF AttemptInv, AttemptTypes, PagesAgree, SavedIsLast, LastOf, Tabs!Quiet

\* Filling the cart and the delivery form, leaving, reloading a page that asks
\* for nothing.
LEMMA ShopAttemptInv ==
  ASSUME Tabs!CheckoutAttemptAssumption, AttemptInv, NEW t \in CustomerTab, NEW row, PageAgrees(row),
         tab' = [tab EXCEPT ![t] = row], row.saved = tab[t].saved, row.memo = tab[t].memo,
         row.pay.shown = 0,
         UNCHANGED <<sent, session, used, lapsed>>
  PROVE  AttemptInv'
<1>0. tab'[t] = row /\ DOMAIN tab' = CustomerTab /\ \A u \in CustomerTab : u # t => tab'[u] = tab[u]
  BY DEF AttemptInv, AttemptTypes
<1>1. /\ AttemptTypes' /\ PagesAgree'
      /\ tab'[t] = row /\ \A u \in CustomerTab : u # t => tab'[u] = tab[u]
  BY <1>0, TabStep DEF AttemptInv, AttemptTypes
<1>2. DetailsSynced'
  BY <1>1 DEF AttemptInv, DetailsSynced
<1>3. \A u \in CustomerTab : tab'[u].saved = tab[u].saved /\ tab'[u].memo = tab[u].memo
  BY <1>1
<1> QED BY <1>1, <1>2, <1>3, QuietStep

LEMMA EditAttemptInv ==
  ASSUME Tabs!CheckoutAttemptAssumption, AttemptInv, NEW t \in CustomerTab,
         \/ \E i \in Item : Tabs!AddToCart(t, i) \/ Tabs!RemoveFromCart(t, i)
         \/ \E f \in Form : Tabs!SetShippingForm(t, f)
         \/ Tabs!GoShopping(t)
  PROVE  AttemptInv'
<1>0. PageAgrees(tab[t]) /\ "cart" \in TabFields /\ "form" \in TabFields /\ "page" \in TabFields
      /\ "pay" \in TabFields
  BY TabAgrees DEF TabFields
<1>1. ASSUME NEW lines, Tabs!SetCart(t, lines)
      PROVE  AttemptInv'
  <2>1. PICK row : row = [tab[t] EXCEPT !.cart = lines]
    OBVIOUS
  <2>2. tab' = [tab EXCEPT ![t] = row] /\ tab[t].page = "shop" /\ UNCHANGED <<sent, session, used, lapsed>>
    BY <1>1, <2>1 DEF Tabs!SetCart
  <2>3. /\ DOMAIN row = TabFields /\ row.page = "shop" /\ row.saved = tab[t].saved /\ row.memo = tab[t].memo
        /\ row.pay = tab[t].pay /\ row.pay = Tabs!Quiet
    BY <1>0, <2>1, <2>2 DEF PageAgrees
  <2>4. PageAgrees(row) /\ row.pay.shown = 0
    BY <1>0, <2>3 DEF PageAgrees, Tabs!Quiet
  <2> QED BY <2>2, <2>3, <2>4, ShopAttemptInv
<1>2. ASSUME NEW f \in Form, Tabs!SetShippingForm(t, f)
      PROVE  AttemptInv'
  <2>1. PICK row : row = [tab[t] EXCEPT !.form = f]
    OBVIOUS
  <2>2. tab' = [tab EXCEPT ![t] = row] /\ tab[t].page = "shop" /\ UNCHANGED <<sent, session, used, lapsed>>
    BY <1>2, <2>1 DEF Tabs!SetShippingForm
  <2>3. /\ DOMAIN row = TabFields /\ row.page = "shop" /\ row.saved = tab[t].saved /\ row.memo = tab[t].memo
        /\ row.pay = tab[t].pay /\ row.pay = Tabs!Quiet
    BY <1>0, <2>1, <2>2 DEF PageAgrees
  <2>4. PageAgrees(row) /\ row.pay.shown = 0
    BY <1>0, <2>3 DEF PageAgrees, Tabs!Quiet
  <2> QED BY <2>2, <2>3, <2>4, ShopAttemptInv
<1>3. CASE Tabs!GoShopping(t)
  <2>1. PICK row : row = [tab[t] EXCEPT !.page = "shop", !.pay = Tabs!Quiet]
    OBVIOUS
  <2>2. tab' = [tab EXCEPT ![t] = row] /\ UNCHANGED <<sent, session, used, lapsed>>
    BY <1>3, <2>1 DEF Tabs!GoShopping, AttemptInv, AttemptTypes
  <2>3. /\ DOMAIN row = TabFields /\ row.page = "shop" /\ row.saved = tab[t].saved /\ row.memo = tab[t].memo
        /\ row.pay = Tabs!Quiet
    BY <1>0, <2>1 DEF PageAgrees
  <2>4. PageAgrees(row) /\ row.pay.shown = 0
    BY <1>0, <2>3 DEF PageAgrees, Tabs!Quiet, PayFields
  <2> QED BY <2>2, <2>3, <2>4, ShopAttemptInv
<1> QED BY <1>1, <1>2, <1>3 DEF Tabs!AddToCart, Tabs!RemoveFromCart

\* The payment step asks: for the saved attempt again, or for the tab's next one,
\* when the saved one has lapsed, is acknowledged or was for another cart.
LEMMA AskAttemptInv ==
  ASSUME Tabs!CheckoutAttemptAssumption, AttemptInv, NEW t \in CustomerTab, NEW state,
         DOMAIN state = TabFields, state.cart # <<>>, state.saved = tab[t].saved,
         state.memo = tab[t].memo, Tabs!Ask(t, state)
  PROVE  AttemptInv'
<1> DEFINE again == Tabs!Reusable(state)
           sig == Tabs!Signature(state.cart)
<1>0. /\ used \in 0..MaxAttempts /\ MaxAttempts \in Nat /\ tab[t].saved.id \in 0..used
      /\ DOMAIN tab = CustomerTab /\ DOMAIN session = Tabs!Attempt
      /\ \A a \in 1..used : a \in Tabs!Attempt
  BY DEF AttemptInv, AttemptTypes, Tabs!Attempt, Tabs!CheckoutAttemptAssumption
<1>1. PICK id, row :
        /\ id = IF again THEN tab[t].saved.id ELSE used + 1
        /\ row = [state EXCEPT !.page = "pay", !.saved = [id |-> id, signature |-> sig],
                               !.pay = [Tabs!Quiet EXCEPT !.asked = id]]
        /\ tab' = [tab EXCEPT ![t] = row]
        /\ sent' = sent \union {[by |-> t, attempt |-> id, cart |-> state.cart]}
        /\ used' = IF again THEN used ELSE id
        /\ session' = [session EXCEPT ![id].by = t]
  BY DEF Tabs!Ask
<1>2. lapsed' = lapsed /\ (again \/ used < MaxAttempts)
  BY DEF Tabs!Ask
<1>3. again => id \in 1..used /\ tab[t].saved.signature = sig
  BY <1>0, <1>1 DEF Tabs!Reusable
<1>4. id \in 1..used' /\ used' \in 0..MaxAttempts /\ used <= used' /\ id \in Tabs!Attempt
  BY <1>0, <1>1, <1>2, <1>3 DEF Tabs!Attempt
<1>5. /\ DOMAIN row = TabFields /\ row.page = "pay" /\ row.saved = [id |-> id, signature |-> sig]
      /\ row.pay = [Tabs!Quiet EXCEPT !.asked = id] /\ row.cart = state.cart /\ row.memo = tab[t].memo
  BY <1>1 DEF TabFields
<1>6. /\ row.saved.id = id /\ row.saved.signature = sig
      /\ DOMAIN row.pay = PayFields /\ row.pay.asked = id /\ row.pay.shown = 0 /\ row.pay.synced = 0
  BY <1>5 DEF Tabs!Quiet, PayFields
<1>7. tab'[t] = row /\ DOMAIN tab' = CustomerTab /\ \A u \in CustomerTab : u # t => tab'[u] = tab[u]
  BY <1>0, <1>1
<1>8. /\ DOMAIN session' = Tabs!Attempt /\ session'[id].by = t
      /\ \A a \in Tabs!Attempt : /\ a # id => session'[a].by = session[a].by
                                 /\ DOMAIN session'[a] = RecordFields
                                 /\ session'[a].cart = session[a].cart
                                 /\ session'[a].status = session[a].status
                                 /\ session'[a].email = session[a].email
                                 /\ session'[a].address = session[a].address
                                 /\ session'[a].acknowledged = session[a].acknowledged
  BY <1>1, <1>4 DEF AttemptInv, AttemptTypes, RecordFields
<1> HIDE DEF again, sig
<1>9. again => session[id].by = t
  BY <1>0, <1>1, <1>3 DEF AttemptInv, SavedIsLast, LastOf
<1>10. \A a \in 1..used : session'[a].by = session[a].by
  BY <1>0, <1>1, <1>8, <1>9
<1>11. AttemptTypes'
  <2>1. \A r \in sent' : r.by \in CustomerTab /\ r.attempt \in 1..used' /\ r.cart # <<>>
                         /\ session'[r.attempt].by = r.by
    <3>1. \A r \in sent : r.by \in CustomerTab /\ r.attempt \in 1..used' /\ r.cart # <<>>
                          /\ session'[r.attempt].by = r.by
      BY <1>0, <1>4, <1>10 DEF AttemptInv, AttemptTypes
    <3>2. PICK q : q = [by |-> t, attempt |-> id, cart |-> state.cart]
      OBVIOUS
    <3>3. q.by \in CustomerTab /\ q.attempt \in 1..used' /\ q.cart # <<>> /\ session'[q.attempt].by = q.by
      BY <1>4, <1>8, <3>2
    <3> QED BY <1>1, <3>1, <3>2, <3>3
  <2>2. \A u \in CustomerTab : /\ DOMAIN tab'[u] = TabFields /\ DOMAIN tab'[u].pay = PayFields
                       /\ tab'[u].page \in {"shop", "pay", "return"}
                       /\ tab'[u].saved.id \in 0..used' /\ tab'[u].pay.synced \in 0..2
    <3> SUFFICES ASSUME NEW u \in CustomerTab
                 PROVE  /\ DOMAIN tab'[u] = TabFields /\ DOMAIN tab'[u].pay = PayFields
                        /\ tab'[u].page \in {"shop", "pay", "return"}
                        /\ tab'[u].saved.id \in 0..used' /\ tab'[u].pay.synced \in 0..2
      OBVIOUS
    <3>1. CASE u = t
      <4>1. id \in 0..used'
        BY <1>4
      <4>2. tab'[u] = row
        BY <1>7, <3>1
      <4>3. DOMAIN row = TabFields /\ DOMAIN row.pay = PayFields /\ row.page = "pay"
        BY <1>5, <1>6
      <4>4. row.saved.id \in 0..used' /\ row.pay.synced \in 0..2
        BY <1>6, <4>1
      <4> QED BY <4>2, <4>3, <4>4
    <3>2. CASE u # t
      <4>1. tab[u].saved.id \in 0..used'
        BY <1>0, <1>4 DEF AttemptInv, AttemptTypes
      <4> QED BY <1>7, <3>2, <4>1 DEF AttemptInv, AttemptTypes
    <3> QED BY <3>1, <3>2
  <2> QED BY <1>4, <1>7, <1>8, <2>1, <2>2 DEF AttemptTypes
<1>12. PagesAgree'
  <2> SUFFICES ASSUME NEW u \in CustomerTab
               PROVE  /\ tab'[u].page # "pay" => tab'[u].pay = Tabs!Quiet
                      /\ tab'[u].page = "pay" => tab'[u].cart # <<>>
                      /\ tab'[u].page = "return" =>
                           tab'[u].back \in 1..used' /\ tab'[u].saved.id \in {0, tab'[u].back}
                      /\ tab'[u].pay.asked \in {0, tab'[u].saved.id}
                      /\ tab'[u].pay.shown \in {0, tab'[u].saved.id}
                      /\ tab'[u].pay.asked # 0 => tab'[u].pay.shown = 0 /\ tab'[u].pay.synced = 0
    BY DEF PagesAgree
  <2>1. CASE u = t
    BY <1>5, <1>6, <1>7, <2>1
  <2>2. CASE u # t
    <3>1. tab[u].page = "return" => tab[u].back \in 1..used'
      BY <1>0, <1>4 DEF AttemptInv, PagesAgree
    <3> QED BY <1>7, <2>2, <3>1 DEF AttemptInv, PagesAgree
  <2> QED BY <2>1, <2>2
<1>13. DetailsSynced'
  <2> SUFFICES ASSUME NEW u \in CustomerTab, tab'[u].pay.shown # 0
               PROVE  /\ tab'[u].pay.synced # 0 => session'[tab'[u].pay.shown].email = tab'[u].form
                      /\ tab'[u].pay.synced = 2 => session'[tab'[u].pay.shown].address = tab'[u].form
    BY DEF DetailsSynced
  <2>1. u # t /\ tab'[u] = tab[u]
    BY <1>6, <1>7
  <2>2. tab[u].pay.shown \in Tabs!Attempt
    BY <1>0, <2>1, ShownIsOwn
  <2> QED BY <1>8, <2>1, <2>2 DEF AttemptInv, DetailsSynced
<1>14. RecordsHoldCarts'
  BY <1>0, <1>4, <1>8 DEF AttemptInv, RecordsHoldCarts, Tabs!Attempt
<1>15. MemoTells'
  <2>1. \A u \in CustomerTab : tab'[u].memo = tab[u].memo
    BY <1>5, <1>7
  <2> QED BY <1>0, <1>4, <1>8, <2>1 DEF AttemptInv, MemoTells
<1>16. ASSUME NEW a \in 1..used, NEW x \in Signatures(a)'
       PROVE  x \in Signatures(a)
  <2>1. \/ \E r \in sent' : r.attempt = a /\ x = Tabs!Signature(r.cart)
        \/ session'[a].status # "none" /\ x = Tabs!Signature(session'[a].cart)
        \/ \E u \in CustomerTab : tab'[u].saved.id = a /\ x = tab'[u].saved.signature
    BY DEF Signatures, Tabs!Signature
  <2>2. id = a => again /\ tab[t].saved.id = a /\ tab[t].saved.signature = sig
    BY <1>0, <1>1, <1>3
  <2>3. CASE \E r \in sent' : r.attempt = a /\ x = Tabs!Signature(r.cart)
    <3>1. PICK r \in sent' : r.attempt = a /\ x = Tabs!Signature(r.cart)
      BY <2>3
    <3>2. CASE r \in sent
      BY <3>1, <3>2, KnownFor
    <3>3. CASE r = [by |-> t, attempt |-> id, cart |-> state.cart]
      <4>1. id = a /\ x = sig
        BY <3>1, <3>3 DEF sig
      <4> QED BY <2>2, <4>1, KnownFor
    <3> QED BY <1>1, <3>2, <3>3
  <2>4. CASE session'[a].status # "none" /\ x = Tabs!Signature(session'[a].cart)
    BY <1>0, <1>8, <2>4, KnownFor
  <2>5. CASE \E u \in CustomerTab : tab'[u].saved.id = a /\ x = tab'[u].saved.signature
    <3>1. PICK u \in CustomerTab : tab'[u].saved.id = a /\ x = tab'[u].saved.signature
      BY <2>5
    <3>2. CASE u # t
      BY <1>7, <3>1, <3>2, KnownFor
    <3>3. CASE u = t
      BY <1>6, <1>7, <2>2, <3>1, <3>3, KnownFor
    <3> QED BY <3>2, <3>3
  <2> QED BY <2>1, <2>3, <2>4, <2>5
<1>17. CASE again
  <2>1. used' = used
    BY <1>1, <1>17
  <2>2. OneSignature' /\ NextDiffers'
    <3>1. \A a \in 1..used : /\ session'[a].by = session[a].by
                             /\ session[a].acknowledged => session'[a].acknowledged
                             /\ a \in lapsed => a \in lapsed'
      BY <1>0, <1>2, <1>8, <1>10
    <3>2. \A a \in 1..used : \A x \in Signatures(a)' : x \in Signatures(a)
      BY <1>16
    <3> QED BY <2>1, <3>1, <3>2, SignaturesKept
  <2>3. \A u, a : LastOf(u, a) => (a \in 1..used => LastOf(u, a)')
    BY <1>10, <2>1 DEF LastOf
  <2>4. \A u : \A a \in 1..used : LastOf(u, a)' => LastOf(u, a)
    BY <1>10, <2>1 DEF LastOf
  <2>5. \A u \in CustomerTab : tab'[u].saved.id = tab[u].saved.id
    BY <1>1, <1>6, <1>7, <1>17
  <2>6. SavedIsLast'
    BY <1>0, <1>8, <1>10, <2>1, <2>5 DEF AttemptInv, AttemptTypes, SavedIsLast, LastOf
  <2> QED BY <1>11, <1>12, <1>13, <1>14, <1>15, <2>2, <2>6 DEF AttemptInv
<1>18. CASE ~again
  <2>1. id = used + 1 /\ used' = used + 1
    BY <1>1, <1>18
  <2>2. SavedIsLast'
    <3> SUFFICES ASSUME NEW u \in CustomerTab
                 PROVE  /\ tab'[u].saved.id # 0 => LastOf(u, tab[u].saved.id)'
                        /\ tab'[u].saved.id = 0 => \A a \in 1..used' : LastOf(u, a)' => session'[a].acknowledged
      BY DEF SavedIsLast
    <3>1. CASE u = t
      BY <1>0, <1>6, <1>7, <1>8, <2>1, <3>1 DEF LastOf
    <3>2. CASE u # t
      <4>1. /\ tab'[u].saved = tab[u].saved /\ session'[id].by # u /\ tab[u].saved.id \in 0..used
        BY <1>7, <1>8, <3>2 DEF AttemptInv, AttemptTypes
      <4>2. \A a \in 1..used : LastOf(u, a) <=> LastOf(u, a)'
        BY <1>0, <1>10, <2>1, <4>1 DEF LastOf
      <4>3. ~LastOf(u, id)'
        BY <4>1 DEF LastOf
      <4>4. PICK i : i = tab[u].saved.id /\ i = tab'[u].saved.id
        BY <4>1
      <4>5. i # 0 => LastOf(u, i)'
        BY <1>0, <4>1, <4>2, <4>4 DEF AttemptInv, SavedIsLast
      <4>6. i = 0 => \A a \in 1..used' : LastOf(u, a)' => session'[a].acknowledged
        <5> SUFFICES ASSUME i = 0, NEW a \in 1..used', LastOf(u, a)'
                     PROVE  session'[a].acknowledged
          OBVIOUS
        <5>1. a \in 1..used
          BY <1>0, <2>1, <4>3
        <5>2. session[a].acknowledged
          BY <4>2, <4>4, <5>1 DEF AttemptInv, SavedIsLast
        <5> QED BY <1>0, <1>8, <5>1, <5>2
      <4> QED BY <4>4, <4>5, <4>6 DEF LastOf
    <3> QED BY <3>1, <3>2
  <2>3. ASSUME NEW x \in Signatures(id)'
        PROVE  x = sig
    <3>1. \/ \E r \in sent' : r.attempt = id /\ x = Tabs!Signature(r.cart)
          \/ session'[id].status # "none" /\ x = Tabs!Signature(session'[id].cart)
          \/ \E u \in CustomerTab : tab'[u].saved.id = id /\ x = tab'[u].saved.signature
      BY <2>3 DEF Signatures, Tabs!Signature
    <3>2. session'[id].status = "none"
      BY <1>0, <1>4, <1>8, <2>1 DEF AttemptInv, RecordsHoldCarts
    <3>3. \A r \in sent : r.attempt # id
      BY <1>0, <2>1 DEF AttemptInv, AttemptTypes
    <3>4. \A u \in CustomerTab : u # t => tab'[u].saved.id # id
      BY <1>0, <1>7, <2>1 DEF AttemptInv, AttemptTypes
    <3>5. CASE \E r \in sent' : r.attempt = id /\ x = Tabs!Signature(r.cart)
      BY <1>1, <3>3, <3>5 DEF sig
    <3>6. CASE \E u \in CustomerTab : tab'[u].saved.id = id /\ x = tab'[u].saved.signature
      BY <1>6, <1>7, <3>4, <3>6
    <3> QED BY <3>1, <3>2, <3>5, <3>6
  <2>4. OneSignature'
    <3> SUFFICES ASSUME NEW a \in 1..used', NEW x \in Signatures(a)', NEW y \in Signatures(a)'
                 PROVE  x = y
      BY DEF OneSignature
    <3>1. CASE a = id
      BY <2>3, <3>1
    <3>2. CASE a # id
      <4>1. a \in 1..used
        BY <1>0, <2>1, <3>2
      <4> QED BY <1>16, <4>1 DEF AttemptInv, OneSignature
    <3> QED BY <3>1, <3>2
  <2>5. NextDiffers'
    <3> SUFFICES ASSUME NEW a \in 1..used', NEW b \in 1..used', Tabs!NextOf(a, b)',
                        ~session'[a].acknowledged, a \notin lapsed',
                        NEW x \in Signatures(a)', x \in Signatures(b)'
                 PROVE  FALSE
      BY DEF NextDiffers
    <3>0. a \notin lapsed
      BY <1>2
    <3>1. /\ a < b /\ session'[a].by = session'[b].by
          /\ \A c \in (a + 1)..(b - 1) : session'[c].by # session'[a].by
      BY DEF Tabs!NextOf
    <3>2. a \in 1..used
      BY <1>0, <2>1, <3>1
    <3>3. ~session[a].acknowledged /\ x \in Signatures(a)
      BY <1>0, <1>8, <1>16, <3>2
    <3>4. CASE b # id
      <4>1. b \in 1..used
        BY <1>0, <2>1, <3>4
      <4>2. \A c \in (a + 1)..(b - 1) : c \in 1..used
        BY <1>0, <3>2, <4>1
      <4>3. Tabs!NextOf(a, b)
        BY <1>10, <3>1, <3>2, <4>1, <4>2 DEF Tabs!NextOf
      <4>4. x \in Signatures(b)
        BY <1>16, <4>1
      <4> QED BY <3>0, <3>2, <3>3, <4>1, <4>3, <4>4 DEF AttemptInv, NextDiffers
    <3>5. CASE b = id
      <4>1. x = sig
        BY <2>3, <3>5
      <4>2. LastOf(t, a)
        <5>1. session[a].by = t
          BY <1>8, <1>10, <3>1, <3>2, <3>5
        <5>2. \A c \in 1..used : a < c => c \in (a + 1)..(b - 1)
          BY <1>0, <2>1, <3>2, <3>5
        <5> QED BY <1>10, <3>1, <3>2, <5>1, <5>2 DEF LastOf
      <4>3. tab[t].saved.id # 0
        BY <3>2, <3>3, <4>2 DEF AttemptInv, SavedIsLast
      <4>4. LastOf(t, tab[t].saved.id)
        BY <4>3 DEF AttemptInv, SavedIsLast
      <4>5. tab[t].saved.id = a
        BY <1>0, <3>2, <4>2, <4>3, <4>4 DEF LastOf
      <4>6. tab[t].saved.signature # sig
        BY <1>18, <3>0, <4>3, <4>5 DEF Tabs!Reusable, again, sig
      <4>7. tab[t].saved.signature \in Signatures(a)
        BY <4>5, KnownFor
      <4> QED BY <3>2, <3>3, <4>1, <4>6, <4>7 DEF AttemptInv, OneSignature
    <3> QED BY <3>4, <3>5
  <2> QED BY <1>11, <1>12, <1>13, <1>14, <1>15, <2>2, <2>4, <2>5 DEF AttemptInv
<1> QED BY <1>17, <1>18

LEMMA PayAttemptInv ==
  ASSUME Tabs!CheckoutAttemptAssumption, AttemptInv, NEW t \in CustomerTab,
         Tabs!OpenPayment(t) \/ Tabs!RetryCheckout(t) \/ Tabs!Reload(t)
  PROVE  AttemptInv'
<1>0. PageAgrees(tab[t]) /\ {"page", "cart", "pay", "saved", "memo", "form", "back"} \subseteq TabFields
  BY TabAgrees DEF TabFields
<1>1. CASE Tabs!OpenPayment(t) \/ Tabs!RetryCheckout(t)
  <2>1. PICK state : state = tab[t]
    OBVIOUS
  <2>2. state.cart # <<>>
    BY <1>0, <1>1, <2>1 DEF Tabs!OpenPayment, Tabs!RetryCheckout, Tabs!MayPay, PageAgrees
  <2>3. Tabs!Ask(t, state)
    BY <1>1, <2>1 DEF Tabs!OpenPayment, Tabs!RetryCheckout
  <2>4. DOMAIN state = TabFields
    BY <1>0, <2>1 DEF PageAgrees
  <2> QED BY <2>1, <2>2, <2>3, <2>4, AskAttemptInv
<1>2. CASE Tabs!Reload(t)
  <2>1. PICK state : state = [tab[t] EXCEPT !.cart = disk, !.pay = Tabs!Quiet]
    OBVIOUS
  <2>2. /\ DOMAIN state = TabFields /\ state.cart = disk /\ state.pay = Tabs!Quiet
        /\ state.saved = tab[t].saved /\ state.memo = tab[t].memo /\ state.page = tab[t].page
        /\ state.back = tab[t].back
    BY <1>0, <2>1 DEF PageAgrees
  <2>3. CASE tab[t].page = "pay" /\ Tabs!MayPay(state)
    <3>1. Tabs!Ask(t, state) /\ state.cart # <<>>
      BY <1>2, <2>1, <2>3 DEF Tabs!Reload, Tabs!MayPay
    <3> QED BY <2>2, <3>1, AskAttemptInv
  <2>4. CASE ~(tab[t].page = "pay" /\ Tabs!MayPay(state))
    <3>1. PICK row : row = [state EXCEPT !.page = IF tab[t].page = "pay" THEN "shop" ELSE tab[t].page]
      OBVIOUS
    <3>2. tab' = [tab EXCEPT ![t] = row] /\ UNCHANGED <<sent, session, used, lapsed>>
      BY <1>0, <1>2, <2>1, <2>2, <2>4, <3>1 DEF Tabs!Reload
    <3>3. /\ DOMAIN row = TabFields /\ row.page \in {"shop", "return"} /\ row.pay = Tabs!Quiet
          /\ row.saved = tab[t].saved /\ row.memo = tab[t].memo /\ row.back = tab[t].back
          /\ row.page = "return" => tab[t].page = "return"
      BY <1>0, <2>2, <3>1 DEF PageAgrees
    <3>4. PageAgrees(row) /\ row.pay.shown = 0
      BY <1>0, <3>3 DEF PageAgrees, Tabs!Quiet, PayFields
    <3> QED BY <3>2, <3>3, <3>4, ShopAttemptInv
  <2> QED BY <2>3, <2>4
<1> QED BY <1>1, <1>2

\* Time passes: for a tab's attempt, and for a session.
LEMMA TimeAttemptInv ==
  ASSUME Tabs!CheckoutAttemptAssumption, AttemptInv,
         \/ \E t \in CustomerTab : Tabs!AttemptExpires(t)
         \/ \E a \in Tabs!Attempt : Tabs!SessionExpires(a)
  PROVE  AttemptInv'
<1>0. tab' = tab /\ sent' = sent /\ used' = used /\ \A a \in 1..used : a \in lapsed => a \in lapsed'
  BY DEF Tabs!AttemptExpires, Tabs!SessionExpires
<1>1. /\ DOMAIN session' = Tabs!Attempt
      /\ \A a \in Tabs!Attempt : /\ DOMAIN session'[a] = RecordFields
                                 /\ session'[a].by = session[a].by /\ session'[a].cart = session[a].cart
                                 /\ session'[a].status = "none" <=> session[a].status = "none"
                                 /\ session'[a].email = session[a].email
                                 /\ session'[a].address = session[a].address
                                 /\ session'[a].acknowledged = session[a].acknowledged
  <2>1. CASE session' = session
    BY <2>1 DEF AttemptInv, AttemptTypes
  <2>2. ASSUME NEW b \in Tabs!Attempt, Tabs!SessionExpires(b)
        PROVE  <1>1
    BY <2>2 DEF Tabs!SessionExpires, AttemptInv, AttemptTypes, RecordFields
  <2> QED BY <2>1, <2>2 DEF Tabs!AttemptExpires
<1>2. AttemptTypes' /\ PagesAgree'
  <2>1. \A a \in 1..used : a \in Tabs!Attempt
    BY DEF AttemptInv, AttemptTypes, Tabs!Attempt, Tabs!CheckoutAttemptAssumption
  <2> QED BY <1>0, <1>1, <2>1 DEF AttemptInv, AttemptTypes, PagesAgree
<1>3. DetailsSynced'
  <2>1. \A u \in CustomerTab : tab[u].pay.shown # 0 => tab[u].pay.shown \in Tabs!Attempt
    BY ShownIsOwn DEF AttemptInv, AttemptTypes, Tabs!Attempt, Tabs!CheckoutAttemptAssumption
  <2> QED BY <1>0, <1>1, <2>1 DEF AttemptInv, DetailsSynced
<1>4. \A a \in Tabs!Attempt : session[a].acknowledged => session'[a].acknowledged
  BY <1>1
<1> QED BY <1>0, <1>1, <1>2, <1>3, <1>4, QuietStep

\* payment-service answers: the record of an attempt takes the cart of its first
\* request, and the tab that still waits remembers the session with this cart.
LEMMA AnswerAttemptInv ==
  ASSUME Tabs!CheckoutAttemptAssumption, AttemptInv, NEW r \in sent, Tabs!CreateCheckoutSession(r)
  PROVE  AttemptInv'
<1>0. /\ r.by \in CustomerTab /\ r.attempt \in 1..used /\ r.attempt \in Tabs!Attempt /\ r.cart # <<>>
      /\ DOMAIN tab = CustomerTab /\ DOMAIN session = Tabs!Attempt /\ r.attempt # 0
  BY DEF AttemptInv, AttemptTypes, Tabs!Attempt, Tabs!CheckoutAttemptAssumption
<1>a. PICK t, id, record : t = r.by /\ id = r.attempt /\ record = session[id]
  OBVIOUS
<1>1. t \in CustomerTab /\ id \in 1..used /\ t = r.by /\ id = r.attempt /\ record = session[id]
  BY <1>0, <1>a
<1>2. PICK o \in Tabs!Outcomes(r, record) :
        /\ session' = [session EXCEPT ![id] =
             [record EXCEPT !.cart = IF o[1] = "none" \/ record.cart # <<>> THEN record.cart ELSE r.cart,
                            !.status = o[1]]]
        /\ \/ tab[t].pay.asked = id /\ tab' = Tabs!Answered(t, r, o[2])
           \/ tab[t].pay.asked = id /\ tab' = Tabs!Answered(t, r, "failed")
           \/ UNCHANGED tab
  BY <1>1 DEF Tabs!CreateCheckoutSession
<1>3. sent' \subseteq sent /\ used' = used /\ lapsed' = lapsed
  BY DEF Tabs!CreateCheckoutSession
<1>4. /\ DOMAIN record = RecordFields /\ (record.status = "none" <=> record.cart = <<>>)
      /\ id \in Tabs!Attempt
  BY <1>0, <1>1 DEF AttemptInv, AttemptTypes, RecordsHoldCarts
<1>5. /\ record.status # "none" => o[1] # "none"
      /\ o[2] = "no" => o[1] # "none" /\ (record.status = "none" \/ record.cart = r.cart)
  <2>1. CASE record.status # "none" /\ record.cart # r.cart
    <3>1. o = <<record.status, "otherCart">>
      BY <2>1 DEF Tabs!Outcomes
    <3> QED BY <2>1, <3>1
  <2>2. CASE record.status = "none"
    <3>1. o \in {<<"none", "failed">>, <<"saved", "failed">>, <<"open", "no">>}
      BY <2>2 DEF Tabs!Outcomes
    <3> QED BY <2>2, <3>1
  <2>3. CASE record.status # "none" /\ record.cart = r.cart
    <3>1. o[1] # "none"
      <4>1. CASE record.status \in {"saved", "open"}
        <5>1. o \in {<<record.status, "failed">>, <<"open", "no">>}
          BY <2>3, <4>1 DEF Tabs!Outcomes
        <5> QED BY <2>3, <5>1
      <4>2. CASE record.status \notin {"saved", "open"}
        <5>1. o = <<record.status, "ended">>
          BY <2>3, <4>2 DEF Tabs!Outcomes
        <5> QED BY <2>3, <5>1
      <4> QED BY <4>1, <4>2
    <3> QED BY <2>3, <3>1
  <2> QED BY <2>1, <2>2, <2>3
<1>6. /\ DOMAIN session' = Tabs!Attempt
      /\ \A a \in Tabs!Attempt : a # id => session'[a] = session[a]
      /\ DOMAIN session'[id] = RecordFields /\ session'[id].status = o[1]
      /\ session'[id].by = record.by /\ session'[id].email = record.email
      /\ session'[id].address = record.address
      /\ session'[id].acknowledged = record.acknowledged
      /\ session'[id].cart = IF o[1] = "none" \/ record.cart # <<>> THEN record.cart ELSE r.cart
  BY <1>0, <1>2, <1>4 DEF RecordFields
<1>7. /\ record.status # "none" => session'[id].status # "none" /\ session'[id].cart = record.cart
      /\ record.status = "none" => \/ session'[id].status = "none" /\ session'[id].cart = record.cart
                                   \/ session'[id].status # "none" /\ session'[id].cart = r.cart
      /\ o[2] = "no" => session'[id].status # "none" /\ session'[id].cart = r.cart
  BY <1>4, <1>5, <1>6
<1>8. \A a \in Tabs!Attempt :
        /\ DOMAIN session'[a] = RecordFields /\ session'[a].by = session[a].by
        /\ session'[a].email = session[a].email /\ session'[a].address = session[a].address
        /\ \/ /\ session'[a].status = "none" <=> session[a].status = "none"
              /\ session'[a].cart = session[a].cart
           \/ /\ session[a].status = "none" /\ session'[a].status # "none"
              /\ \E q \in sent : q.attempt = a /\ q.cart = session'[a].cart
  BY <1>1, <1>6, <1>7 DEF AttemptInv, AttemptTypes
<1>9. \A a \in Tabs!Attempt : session'[a].acknowledged = session[a].acknowledged
  BY <1>1, <1>6
<1>10. \A a \in Tabs!Attempt : session[a].acknowledged => session'[a].acknowledged
  BY <1>9
<1>11. PageAgrees(tab[t])
  BY <1>1, TabAgrees
<1>12. ASSUME AttemptTypes', PagesAgree', DetailsSynced',
              \A u \in CustomerTab : tab'[u].saved = tab[u].saved,
              \A u \in CustomerTab : \A m \in tab'[u].memo :
                \/ m \in tab[u].memo
                \/ /\ m.session \in 1..used /\ session'[m.session].status # "none"
                   /\ m.signature = Tabs!Signature(session'[m.session].cart)
       PROVE  AttemptInv'
  BY <1>3, <1>8, <1>10, <1>12, QuietStep
<1>13. ASSUME NEW row, PageAgrees(row), DOMAIN tab' = CustomerTab, tab'[t] = row,
              \A u \in CustomerTab : u # t => tab'[u] = tab[u], row.saved = tab[t].saved,
              row.pay.shown # 0 => \/ row.pay.synced = 0
                                   \/ row.pay = tab[t].pay /\ row.form = tab[t].form,
              \A m \in row.memo :
                \/ m \in tab[t].memo
                \/ /\ m.session \in 1..used /\ session'[m.session].status # "none"
                   /\ m.signature = Tabs!Signature(session'[m.session].cart)
       PROVE  AttemptInv'
  <2>1. AttemptTypes' /\ PagesAgree'
    BY <1>1, <1>3, <1>6, <1>8, <1>13, TabStep
  <2>2. DetailsSynced'
    <3>1. \A u \in CustomerTab : tab[u].pay.shown # 0 => tab[u].pay.shown \in Tabs!Attempt
      BY ShownIsOwn DEF AttemptInv, AttemptTypes, Tabs!Attempt, Tabs!CheckoutAttemptAssumption
    <3> QED BY <1>8, <1>13, <3>1 DEF AttemptInv, DetailsSynced
  <2> QED BY <1>12, <1>13, <2>1, <2>2
<1>14. CASE tab' = tab
  <2>1. PICK row : row = tab[t]
    OBVIOUS
  <2> QED BY <1>0, <1>11, <1>13, <1>14, <2>1
<1>15. ASSUME NEW told, tab[t].pay.asked = id, tab' = Tabs!Answered(t, r, told),
              told # "no" \/ o[2] = "no"
       PROVE  AttemptInv'
  <2>1. PICK row : row = tab'[t]
    OBVIOUS
  <2>2. /\ tab[t].saved.id = id /\ tab[t].pay.shown = 0 /\ tab[t].pay.synced = 0
        /\ tab[t].page = "pay" /\ id # 0
    BY <1>0, <1>1, <1>15 DEF AttemptInv, PagesAgree, Tabs!Quiet
  <2>3. CASE told = "no"
    <3>1. PICK m : m = [session |-> id, signature |-> Tabs!Signature(r.cart)]
      OBVIOUS
    <3>2. tab' = [tab EXCEPT ![t].memo = tab[t].memo \union {m},
                             ![t].pay.shown = id, ![t].pay.asked = 0]
      BY <1>1, <1>15, <2>3, <3>1 DEF Tabs!Answered
    <3>3. /\ DOMAIN tab' = CustomerTab /\ \A u \in CustomerTab : u # t => tab'[u] = tab[u]
          /\ DOMAIN row = TabFields /\ DOMAIN row.pay = PayFields /\ row.page = "pay"
          /\ row.saved = tab[t].saved /\ row.cart = tab[t].cart
          /\ row.pay.shown = id /\ row.pay.asked = 0 /\ row.pay.synced = 0
          /\ row.memo = tab[t].memo \union {m}
      BY <1>0, <1>1, <1>11, <2>1, <2>2, <3>2 DEF PageAgrees, TabFields, PayFields
    <3>4. PageAgrees(row)
      BY <1>11, <2>2, <3>3 DEF PageAgrees
    <3>5. /\ m.session \in 1..used /\ session'[m.session].status # "none"
          /\ m.signature = Tabs!Signature(session'[m.session].cart)
      BY <1>1, <1>7, <1>15, <2>3, <3>1
    <3> QED BY <1>13, <2>1, <3>3, <3>4, <3>5
  <2>4. CASE told # "no"
    <3>2. tab' = [tab EXCEPT ![t].pay.refused = told, ![t].pay.asked = 0]
      BY <1>15, <2>4 DEF Tabs!Answered
    <3>3. /\ DOMAIN tab' = CustomerTab /\ \A u \in CustomerTab : u # t => tab'[u] = tab[u]
          /\ DOMAIN row = TabFields /\ DOMAIN row.pay = PayFields /\ row.page = "pay"
          /\ row.saved = tab[t].saved /\ row.cart = tab[t].cart
          /\ row.pay.shown = 0 /\ row.pay.asked = 0 /\ row.pay.synced = 0
          /\ row.memo = tab[t].memo
      BY <1>0, <1>1, <1>11, <2>1, <2>2, <3>2 DEF PageAgrees, TabFields, PayFields
    <3>4. PageAgrees(row)
      BY <1>11, <2>2, <3>3 DEF PageAgrees
    <3> QED BY <1>13, <2>1, <3>3, <3>4
  <2> QED BY <2>3, <2>4
<1>16. "failed" # "no"
  OBVIOUS
<1> QED BY <1>2, <1>14, <1>15, <1>16

\* Stripe is told the details of the form, one call after the other.
LEMMA SyncAttemptInv ==
  ASSUME Tabs!CheckoutAttemptAssumption, AttemptInv, NEW t \in CustomerTab, Tabs!SyncDetails(t)
  PROVE  AttemptInv'
<1>1. PICK id, row : id = tab[t].pay.shown /\ row = tab'[t]
  OBVIOUS
<1>2. /\ id # 0 /\ tab[t].pay.synced < 2 /\ UNCHANGED <<sent, used, lapsed>>
  BY <1>1 DEF Tabs!SyncDetails
<1>3. /\ tab[t].page = "pay" /\ id = tab[t].saved.id /\ id \in 1..used /\ session[id].by = t
      /\ id \in Tabs!Attempt /\ tab[t].pay.asked = 0
      /\ \A u \in CustomerTab : u # t => tab[u].pay.shown # id
  BY <1>1, <1>2, ShownIsOwn
     DEF AttemptInv, AttemptTypes, PagesAgree, Tabs!Attempt, Tabs!CheckoutAttemptAssumption
<1>4. PageAgrees(tab[t])
  BY TabAgrees
<1>5. \/ /\ tab' = [tab EXCEPT ![t].pay.synced = tab[t].pay.synced + 1]
         /\ \/ tab[t].pay.synced = 0 /\ session' = [session EXCEPT ![id].email = tab[t].form]
            \/ tab[t].pay.synced # 0 /\ session' = [session EXCEPT ![id].address = tab[t].form]
      \/ tab' = [tab EXCEPT ![t].pay.stuck = TRUE] /\ UNCHANGED session
  BY <1>1 DEF Tabs!SyncDetails
<1>6. /\ DOMAIN tab' = CustomerTab /\ \A u \in CustomerTab : u # t => tab'[u] = tab[u]
      /\ DOMAIN row = TabFields /\ DOMAIN row.pay = PayFields /\ row.page = "pay"
      /\ row.saved = tab[t].saved /\ row.cart = tab[t].cart /\ row.form = tab[t].form
      /\ row.pay.shown = id /\ row.pay.asked = 0 /\ row.memo = tab[t].memo
      /\ row.pay.synced \in {tab[t].pay.synced, tab[t].pay.synced + 1}
  <2>0. DOMAIN tab = CustomerTab /\ DOMAIN tab[t] = TabFields /\ DOMAIN tab[t].pay = PayFields
    BY <1>4 DEF PageAgrees, AttemptInv, AttemptTypes
  <2>1. CASE tab' = [tab EXCEPT ![t].pay.synced = tab[t].pay.synced + 1]
    BY <1>1, <1>3, <2>0, <2>1 DEF TabFields, PayFields
  <2>2. CASE tab' = [tab EXCEPT ![t].pay.stuck = TRUE]
    BY <1>1, <1>3, <2>0, <2>2 DEF TabFields, PayFields
  <2> QED BY <1>5, <2>1, <2>2
<1>7. PageAgrees(row)
  <2>1. row.pay.synced \in 0..2
    BY <1>2, <1>4, <1>5, <1>6 DEF PageAgrees
  <2> QED BY <1>1, <1>3, <1>4, <1>6, <2>1 DEF PageAgrees
<1>8. /\ DOMAIN session' = Tabs!Attempt
      /\ \A a \in Tabs!Attempt : /\ DOMAIN session'[a] = RecordFields
                                 /\ session'[a].by = session[a].by /\ session'[a].cart = session[a].cart
                                 /\ session'[a].status = session[a].status
                                 /\ session'[a].acknowledged = session[a].acknowledged
                                 /\ a # id => session'[a] = session[a]
  BY <1>3, <1>5 DEF AttemptInv, AttemptTypes, RecordFields
<1>9. AttemptTypes' /\ PagesAgree'
  BY <1>1, <1>2, <1>6, <1>7, <1>8, TabStep
<1>10. DetailsSynced'
  <2>1. \A u \in CustomerTab : u # t /\ tab[u].pay.shown # 0 => tab[u].pay.shown \in Tabs!Attempt
    BY ShownIsOwn DEF AttemptInv, AttemptTypes, Tabs!Attempt, Tabs!CheckoutAttemptAssumption
  <2>2. /\ row.pay.synced # 0 => session'[id].email = row.form
        /\ row.pay.synced = 2 => session'[id].address = row.form
    <3>0. /\ DOMAIN tab = CustomerTab /\ DOMAIN tab[t] = TabFields /\ DOMAIN tab[t].pay = PayFields
          /\ DOMAIN session = Tabs!Attempt /\ DOMAIN session[id] = RecordFields
          /\ tab[t].pay.synced \in 0..2
      BY <1>3, <1>4 DEF PageAgrees, AttemptInv, AttemptTypes
    <3>1. /\ tab[t].pay.synced # 0 => session[id].email = tab[t].form
          /\ tab[t].pay.synced = 2 => session[id].address = tab[t].form
      BY <1>1, <1>2 DEF AttemptInv, DetailsSynced
    <3>2. CASE tab' = [tab EXCEPT ![t].pay.synced = tab[t].pay.synced + 1]
               /\ tab[t].pay.synced = 0 /\ session' = [session EXCEPT ![id].email = tab[t].form]
      <4>1. row.pay.synced = 1
        BY <1>1, <3>0, <3>2 DEF TabFields, PayFields
      <4>2. session'[id].email = tab[t].form
        BY <1>3, <3>0, <3>2 DEF RecordFields
      <4> QED BY <1>6, <4>1, <4>2
    <3>3. CASE tab[t].pay.synced # 0 /\ session' = [session EXCEPT ![id].address = tab[t].form]
      <4>1. session'[id].address = tab[t].form /\ session'[id].email = session[id].email
        BY <1>3, <3>0, <3>3 DEF RecordFields
      <4> QED BY <1>6, <3>1, <3>3, <4>1
    <3>4. CASE tab' = [tab EXCEPT ![t].pay.stuck = TRUE] /\ session' = session
      <4>1. row.pay.synced = tab[t].pay.synced
        BY <1>1, <3>0, <3>4 DEF TabFields, PayFields
      <4> QED BY <1>6, <3>1, <3>4, <4>1
    <3> QED BY <1>5, <3>2, <3>3, <3>4
  <2> SUFFICES ASSUME NEW u \in CustomerTab, tab'[u].pay.shown # 0
               PROVE  /\ tab'[u].pay.synced # 0 => session'[tab'[u].pay.shown].email = tab'[u].form
                      /\ tab'[u].pay.synced = 2 => session'[tab'[u].pay.shown].address = tab'[u].form
    BY DEF DetailsSynced
  <2>3. CASE u = t
    BY <1>1, <1>6, <2>2, <2>3
  <2>4. CASE u # t
    <3>1. tab'[u] = tab[u] /\ session'[tab[u].pay.shown] = session[tab[u].pay.shown]
      BY <1>3, <1>6, <1>8, <2>1, <2>4
    <3> QED BY <3>1 DEF AttemptInv, DetailsSynced
  <2> QED BY <2>3, <2>4
<1>11. \A a \in Tabs!Attempt : session[a].acknowledged => session'[a].acknowledged
  BY <1>8
<1>12. \A u \in CustomerTab : tab'[u].saved = tab[u].saved /\ tab'[u].memo = tab[u].memo
  BY <1>1, <1>6
<1> QED BY <1>2, <1>8, <1>9, <1>10, <1>11, <1>12, QuietStep

\* Stripe takes the money, and the tab lands on the return page of the session it
\* saved, or stays.
LEMMA ConfirmAttemptInv ==
  ASSUME Tabs!CheckoutAttemptAssumption, AttemptInv, NEW t \in CustomerTab, Tabs!Confirm(t)
  PROVE  AttemptInv'
<1>1. PICK id, row : id = tab[t].pay.shown /\ row = tab'[t]
  OBVIOUS
<1>2. /\ id # 0 /\ session[id].status = "open" /\ UNCHANGED <<sent, used, lapsed>>
      /\ session' = [session EXCEPT ![id].status = "paid"] \/ session' = session
      /\ \/ tab' = tab
         \/ tab' = [tab EXCEPT ![t].page = "return", ![t].back = id,
                               ![t].cart = disk, ![t].pay = Tabs!Quiet]
  BY <1>1 DEF Tabs!Confirm, Tabs!Land
<1>3. /\ tab[t].page = "pay" /\ id = tab[t].saved.id /\ id \in 1..used
      /\ id \in Tabs!Attempt
      /\ DOMAIN tab = CustomerTab /\ DOMAIN tab[t] = TabFields
  BY <1>1, <1>2, ShownIsOwn
     DEF AttemptInv, AttemptTypes, PagesAgree, Tabs!Attempt, Tabs!CheckoutAttemptAssumption
<1>4. PageAgrees(tab[t])
  BY TabAgrees
<1>5. /\ DOMAIN session' = Tabs!Attempt
      /\ \A a \in Tabs!Attempt : /\ DOMAIN session'[a] = RecordFields
                                 /\ session'[a].by = session[a].by /\ session'[a].cart = session[a].cart
                                 /\ session'[a].status = "none" <=> session[a].status = "none"
                                 /\ session'[a].email = session[a].email
                                 /\ session'[a].address = session[a].address
                                 /\ session'[a].acknowledged = session[a].acknowledged
  <2>1. CASE session' = session
    BY <2>1 DEF AttemptInv, AttemptTypes
  <2>2. CASE session' = [session EXCEPT ![id].status = "paid"]
    BY <1>2, <1>3, <2>2 DEF AttemptInv, AttemptTypes, RecordFields
  <2> QED BY <1>2, <2>1, <2>2
<1>6. /\ DOMAIN tab' = CustomerTab /\ \A u \in CustomerTab : u # t => tab'[u] = tab[u]
      /\ row.saved = tab[t].saved /\ row.memo = tab[t].memo
      /\ row = tab[t] \/ row.pay = Tabs!Quiet
      /\ PageAgrees(row)
  <2>1. CASE tab' = tab
    BY <1>1, <1>3, <1>4, <2>1
  <2>2. CASE tab' = [tab EXCEPT ![t].page = "return", ![t].back = id,
                                ![t].cart = disk, ![t].pay = Tabs!Quiet]
    <3>1. /\ DOMAIN tab' = CustomerTab /\ \A u \in CustomerTab : u # t => tab'[u] = tab[u]
          /\ DOMAIN row = TabFields /\ row.page = "return" /\ row.back = id /\ row.pay = Tabs!Quiet
          /\ row.saved = tab[t].saved /\ row.memo = tab[t].memo
      BY <1>1, <1>3, <2>2 DEF TabFields
    <3>2. PageAgrees(row)
      BY <1>3, <1>4, <3>1 DEF PageAgrees, Tabs!Quiet, PayFields
    <3> QED BY <3>1, <3>2
  <2> QED BY <1>2, <2>1, <2>2
<1>7. AttemptTypes' /\ PagesAgree'
  BY <1>1, <1>2, <1>5, <1>6, TabStep
<1>8. DetailsSynced'
  <2>1. \A u \in CustomerTab : tab[u].pay.shown # 0 => tab[u].pay.shown \in Tabs!Attempt
    BY ShownIsOwn DEF AttemptInv, AttemptTypes, Tabs!Attempt, Tabs!CheckoutAttemptAssumption
  <2>2. Tabs!Quiet.shown = 0
    BY DEF Tabs!Quiet
  <2> QED BY <1>1, <1>5, <1>6, <2>1, <2>2 DEF AttemptInv, DetailsSynced
<1>9. \A a \in Tabs!Attempt : session[a].acknowledged => session'[a].acknowledged
  BY <1>5
<1>10. \A u \in CustomerTab : tab'[u].saved = tab[u].saved /\ tab'[u].memo = tab[u].memo
  BY <1>1, <1>6
<1> QED BY <1>2, <1>5, <1>7, <1>8, <1>9, <1>10, QuietStep

\* The return page uses up its record, and what it empties and forgets is
\* acknowledged.
LEMMA VerifyAttemptInv ==
  ASSUME Tabs!CheckoutAttemptAssumption, AttemptInv, NEW t \in CustomerTab, Tabs!VerifySession(t)
  PROVE  AttemptInv'
<1>1. PICK id, row : id = tab[t].back /\ row = tab'[t]
  OBVIOUS
<1>2. /\ tab[t].page = "return" /\ UNCHANGED <<sent, used, lapsed>>
  BY DEF Tabs!VerifySession
<1>3. PICK m \in tab[t].memo :
        IF Tabs!Matches(t, m)
        THEN /\ tab' = [tab EXCEPT ![t].memo = tab[t].memo \ {m}, ![t].saved = Tabs!NoAttempt,
                                   ![t].cart = <<>>, ![t].form = NoDelivery]
             /\ session' = [session EXCEPT ![id].acknowledged = TRUE]
        ELSE /\ tab' = [tab EXCEPT ![t].memo = tab[t].memo \ {m}]
             /\ session' = session
  BY <1>1 DEF Tabs!VerifySession
<1>4. /\ PageAgrees(tab[t]) /\ tab[t].pay = Tabs!Quiet /\ DOMAIN tab = CustomerTab /\ DOMAIN tab[t] = TabFields
      /\ id \in 1..used /\ tab[t].saved.id \in {0, id} /\ id \in Tabs!Attempt
      /\ DOMAIN session = Tabs!Attempt /\ DOMAIN session[id] = RecordFields
  BY <1>1, <1>2, TabAgrees
     DEF AttemptInv, AttemptTypes, PagesAgree, Tabs!Attempt, Tabs!CheckoutAttemptAssumption
<1>5. /\ DOMAIN tab' = CustomerTab /\ \A u \in CustomerTab : u # t => tab'[u] = tab[u]
      /\ DOMAIN row = TabFields /\ row.page = "return" /\ row.back = id /\ row.pay = Tabs!Quiet
      /\ row.memo = tab[t].memo \ {m}
      /\ row.saved \in {tab[t].saved, Tabs!NoAttempt}
      /\ ~Tabs!Matches(t, m) => row.saved = tab[t].saved
  <2>1. CASE Tabs!Matches(t, m)
    BY <1>1, <1>2, <1>3, <1>4, <2>1 DEF TabFields
  <2>2. CASE ~Tabs!Matches(t, m)
    BY <1>1, <1>2, <1>3, <1>4, <2>2 DEF TabFields
  <2> QED BY <2>1, <2>2
<1>6. PageAgrees(row)
  <2>1. /\ Tabs!Quiet.asked = 0 /\ Tabs!Quiet.shown = 0 /\ Tabs!Quiet.synced = 0
        /\ DOMAIN Tabs!Quiet = PayFields
    BY DEF Tabs!Quiet, PayFields
  <2>2. row.saved.id \in {0, id} /\ row.saved.id \in 0..used
    BY <1>4, <1>5 DEF Tabs!NoAttempt, AttemptInv, AttemptTypes
  <2>3. row.pay.synced \in 0..2
    BY <1>5, <2>1
  <2> QED BY <1>4, <1>5, <2>1, <2>2, <2>3 DEF PageAgrees
<1>7. /\ DOMAIN session' = Tabs!Attempt
      /\ \A a \in Tabs!Attempt : /\ DOMAIN session'[a] = RecordFields
                                 /\ session'[a].by = session[a].by /\ session'[a].cart = session[a].cart
                                 /\ session'[a].status = session[a].status
                                 /\ session'[a].email = session[a].email
                                 /\ session'[a].address = session[a].address
                                 /\ a # id => session'[a] = session[a]
  BY <1>3, <1>4 DEF AttemptInv, AttemptTypes, RecordFields
<1>8. Tabs!Matches(t, m) => session'[id].acknowledged
  BY <1>3, <1>4 DEF RecordFields
<1>9. ~Tabs!Matches(t, m) => session' = session
  BY <1>3
<1>10. \A a \in Tabs!Attempt : session[a].acknowledged => session'[a].acknowledged
  BY <1>7, <1>8, <1>9
<1>11. AttemptTypes' /\ PagesAgree'
  BY <1>1, <1>2, <1>5, <1>6, <1>7, TabStep
<1>12. DetailsSynced'
  <2>1. \A u \in CustomerTab : tab[u].pay.shown # 0 => tab[u].pay.shown \in Tabs!Attempt
    BY ShownIsOwn DEF AttemptInv, AttemptTypes, Tabs!Attempt, Tabs!CheckoutAttemptAssumption
  <2>2. Tabs!Quiet.shown = 0
    BY DEF Tabs!Quiet
  <2> QED BY <1>1, <1>5, <1>7, <2>1, <2>2 DEF AttemptInv, DetailsSynced
<1>13. ASSUME row.saved # tab[t].saved
       PROVE  row.saved.id = 0 /\ \A a \in 1..used : LastOf(t, a) => session'[a].acknowledged
  <2>1. Tabs!Matches(t, m) /\ row.saved.id = 0
    BY <1>5, <1>13 DEF Tabs!NoAttempt
  <2>2. ASSUME NEW a \in 1..used, LastOf(t, a)
        PROVE  session'[a].acknowledged
    <3>0. a \in Tabs!Attempt
      BY DEF AttemptInv, AttemptTypes, Tabs!Attempt, Tabs!CheckoutAttemptAssumption
    <3>1. CASE tab[t].saved.id = 0
      BY <1>10, <2>2, <3>0, <3>1 DEF AttemptInv, SavedIsLast
    <3>2. CASE tab[t].saved.id = id
      <4>1. LastOf(t, id)
        BY <1>4, <3>2 DEF AttemptInv, AttemptTypes, SavedIsLast
      <4>2. a = id
        BY <1>4, <2>2, <4>1 DEF LastOf, AttemptInv, AttemptTypes
      <4> QED BY <1>8, <2>1, <4>2
    <3> QED BY <1>4, <3>1, <3>2
  <2> QED BY <2>1, <2>2
<1>14. \A u \in CustomerTab : \/ tab'[u].saved = tab[u].saved
                      \/ /\ tab'[u].saved.id = 0
                         /\ \A a \in 1..used : LastOf(u, a) => session'[a].acknowledged
  <2>1. CASE row.saved = tab[t].saved
    BY <1>1, <1>5, <2>1
  <2>2. CASE row.saved # tab[t].saved
    BY <1>1, <1>5, <1>13, <2>2
  <2> QED BY <2>1, <2>2
<1>15. \A u \in CustomerTab : \A q \in tab'[u].memo : q \in tab[u].memo
  BY <1>1, <1>5
<1> QED BY <1>2, <1>7, <1>10, <1>11, <1>12, <1>14, <1>15, QuietStep

LEMMA NextAttemptInv ==
  ASSUME Tabs!CheckoutAttemptAssumption, AttemptInv, [Tabs!Next]_(Tabs!vars)
  PROVE  AttemptInv'
<1>1. CASE Tabs!Next
  BY <1>1, EditAttemptInv, PayAttemptInv, TimeAttemptInv, AnswerAttemptInv, SyncAttemptInv,
     ConfirmAttemptInv, VerifyAttemptInv DEF Tabs!Next
<1>2. CASE UNCHANGED Tabs!vars
  <2> USE <1>2 DEF Tabs!vars
  <2>1. AttemptTypes' /\ PagesAgree' /\ DetailsSynced'
    BY DEF AttemptInv, AttemptTypes, PagesAgree, DetailsSynced
  <2>2. \A a \in Tabs!Attempt : session[a].acknowledged => session'[a].acknowledged
    OBVIOUS
  <2> QED BY <2>1, <2>2, QuietStep
<1> QED BY <1>1, <1>2

LEMMA AttemptInvariance ==
  ASSUME Tabs!CheckoutAttemptAssumption
  PROVE  Tabs!Spec => []AttemptInv
<1>1. Tabs!Init => AttemptInv
  BY InitAttemptInv
<1>2. AttemptInv /\ [Tabs!Next]_(Tabs!vars) => AttemptInv'
  BY NextAttemptInv
<1> QED BY <1>1, <1>2, PTL DEF Tabs!Spec

\* Two paid attempts that follow each other are of different carts.
LEMMA PaidOnce ==
  ASSUME Tabs!CheckoutAttemptAssumption, AttemptInv
  PROVE  Tabs!NotPaidTwice
<1> SUFFICES ASSUME NEW a \in Tabs!Attempt, NEW b \in Tabs!Attempt,
                    Tabs!NextOf(a, b), Tabs!Paid(a), Tabs!Paid(b),
                    Tabs!Signature(session[a].cart) = Tabs!Signature(session[b].cart)
             PROVE  session[a].acknowledged \/ a \in lapsed
  BY DEF Tabs!NotPaidTwice
<1>1. a \in 1..used /\ b \in 1..used
  BY DEF AttemptInv, AttemptTypes, RecordsHoldCarts, Tabs!Paid, Tabs!Attempt
<1>2. /\ Tabs!Signature(session[a].cart) \in Signatures(a)
      /\ Tabs!Signature(session[a].cart) \in Signatures(b)
  BY KnownFor DEF Tabs!Paid
<1> QED BY <1>1, <1>2 DEF AttemptInv, NextDiffers

\* No tab pays twice for a cart it has not changed, in any number of tabs, attempts,
\* reloads, retries and lost answers, until the first payment is acknowledged or
\* the hour of its attempt is over.
THEOREM NobodyPaysTwice ==
  ASSUME Tabs!CheckoutAttemptAssumption
  PROVE  Tabs!Spec => []Tabs!NotPaidTwice
<1>1. AttemptInv => Tabs!NotPaidTwice
  BY PaidOnce
<1> QED BY <1>1, AttemptInvariance, PTL

\* A tab empties the cart that its return record was written for.
LEMMA ClearsPaid ==
  ASSUME Tabs!CheckoutAttemptAssumption, AttemptInv, Tabs!Next
  PROVE  Tabs!ClearedCopyWasPaid
<1> SUFFICES ASSUME NEW t \in CustomerTab, tab[t].page = "return", tab[t].cart # <<>>,
                    tab'[t].cart = <<>>, disk # <<>>, disk' = <<>>
             PROVE  Tabs!Signature(tab[t].cart) = Tabs!Signature(session[tab[t].back].cart)
  BY DEF Tabs!ClearedCopyWasPaid
<1>0. DOMAIN tab = CustomerTab /\ DOMAIN tab[t] = TabFields
  BY DEF AttemptInv, AttemptTypes
<1>1. PICK u \in CustomerTab : \/ \E lines : Tabs!SetCart(u, lines)
                       \/ Tabs!VerifySession(u)
  BY DEF Tabs!Next, Tabs!AddToCart, Tabs!RemoveFromCart, Tabs!SetShippingForm, Tabs!OpenPayment,
         Tabs!RetryCheckout, Tabs!GoShopping, Tabs!Reload, Tabs!Ask, Tabs!SyncDetails, Tabs!Confirm,
         Tabs!AttemptExpires, Tabs!CreateCheckoutSession, Tabs!SessionExpires
<1>2. CASE u # t
  <2>1. tab'[t] = tab[t]
    BY <1>0, <1>1, <1>2 DEF Tabs!SetCart, Tabs!VerifySession
  <2> QED BY <2>1
<1>3. CASE u = t
  <2>1. Tabs!VerifySession(t)
    BY <1>1, <1>3 DEF Tabs!SetCart
  <2>2. PICK m \in tab[t].memo : /\ m.session = tab[t].back
                                 /\ Tabs!Matches(t, m) \/ tab' = [tab EXCEPT ![t].memo = tab[t].memo \ {m}]
    BY <2>1 DEF Tabs!VerifySession
  <2>3. Tabs!Matches(t, m)
    BY <1>0, <2>2 DEF TabFields
  <2>4. m.signature = Tabs!Signature(session[m.session].cart)
    BY DEF AttemptInv, MemoTells
  <2>5. m.signature = Tabs!Signature(tab[t].cart)
    BY <2>3 DEF Tabs!Matches
  <2>6. m.session = tab[t].back
    BY <2>2
  <2> QED BY <2>4, <2>5, <2>6
<1> QED BY <1>2, <1>3

\* The copy of the cart that a tab empties after a payment is the cart that was priced
\* and charged.
THEOREM ClearedIsPaid ==
  ASSUME Tabs!CheckoutAttemptAssumption
  PROVE  Tabs!Spec => [][Tabs!ClearedCopyWasPaid]_(Tabs!vars)
<1>1. AttemptInv /\ Tabs!Next => Tabs!ClearedCopyWasPaid
  BY ClearsPaid
<1> QED BY <1>1, AttemptInvariance, PTL DEF Tabs!Spec

\* A confirmation is accepted from a form that has synced what it shows.
LEMMA DetailsPaid ==
  ASSUME Tabs!CheckoutAttemptAssumption, AttemptInv, Tabs!Next
  PROVE  Tabs!PaidWithTheDetailsShown
<1> SUFFICES ASSUME NEW a \in Tabs!Attempt, session[a].status = "open",
                    session'[a].status = "paid"
             PROVE  \E t \in CustomerTab : /\ tab[t].pay.shown = a
                                   /\ session[a].email = tab[t].form /\ session[a].address = tab[t].form
  BY DEF Tabs!PaidWithTheDetailsShown
<1>0. DOMAIN session = Tabs!Attempt /\ \A b \in Tabs!Attempt : DOMAIN session[b] = RecordFields
  BY DEF AttemptInv, AttemptTypes
<1>1. CASE session' = session
  BY <1>1
<1>2. ASSUME NEW t \in CustomerTab, NEW state, Tabs!Ask(t, state)
      PROVE  FALSE
  BY <1>0, <1>2 DEF Tabs!Ask, RecordFields
<1>3. ASSUME NEW r \in sent, Tabs!CreateCheckoutSession(r)
      PROVE  FALSE
  <2>0. PICK o \in Tabs!Outcomes(r, session[r.attempt]) : \E lines :
          session' = [session EXCEPT ![r.attempt] =
                        [session[r.attempt] EXCEPT !.cart = lines, !.status = o[1]]]
    BY <1>3 DEF Tabs!CreateCheckoutSession
  <2>1. PICK lines : session' = [session EXCEPT ![r.attempt] =
                        [session[r.attempt] EXCEPT !.cart = lines, !.status = o[1]]]
    BY <2>0
  <2>2. r.attempt = a
    BY <1>0, <2>1
  <2>3. session'[a].status = o[1]
    BY <1>0, <2>1, <2>2 DEF RecordFields
  <2>4. o \in {<<"open", "otherCart">>, <<"open", "failed">>, <<"open", "no">>}
    BY <2>1, <2>2 DEF Tabs!Outcomes
  <2>5. o[1] = "open"
    <3>1. \/ o = <<"open", "otherCart">> \/ o = <<"open", "failed">> \/ o = <<"open", "no">>
      BY <2>4
    <3>2. CASE o = <<"open", "otherCart">>
      BY <3>2
    <3>3. CASE o = <<"open", "failed">>
      BY <3>3
    <3>4. CASE o = <<"open", "no">>
      BY <3>4
    <3> QED BY <3>1, <3>2, <3>3, <3>4
  <2> QED BY <2>3, <2>5
<1>4. ASSUME NEW t \in CustomerTab, Tabs!SyncDetails(t)
      PROVE  FALSE
  BY <1>0, <1>4 DEF Tabs!SyncDetails, RecordFields
<1>5. ASSUME NEW t \in CustomerTab, Tabs!VerifySession(t)
      PROVE  FALSE
  BY <1>0, <1>5 DEF Tabs!VerifySession, RecordFields
<1>6. ASSUME NEW b \in Tabs!Attempt, Tabs!SessionExpires(b)
      PROVE  FALSE
  BY <1>0, <1>6 DEF Tabs!SessionExpires, RecordFields
<1>7. ASSUME NEW t \in CustomerTab, Tabs!Confirm(t)
      PROVE  tab[t].pay.shown = a /\ session[a].email = tab[t].form /\ session[a].address = tab[t].form
  <2>1. tab[t].pay.shown = a
    BY <1>0, <1>7 DEF Tabs!Confirm, RecordFields
  <2> QED BY <1>7, <2>1 DEF Tabs!Confirm, AttemptInv, DetailsSynced
<1> QED BY <1>1, <1>2, <1>3, <1>4, <1>5, <1>6, <1>7
        DEF Tabs!Next, Tabs!AddToCart, Tabs!RemoveFromCart, Tabs!SetCart, Tabs!SetShippingForm,
            Tabs!OpenPayment, Tabs!RetryCheckout, Tabs!GoShopping, Tabs!Reload, Tabs!AttemptExpires

\* Who pays, pays for a session with both halves of the delivery details he sees.
THEOREM PaidWithDetails ==
  ASSUME Tabs!CheckoutAttemptAssumption
  PROVE  Tabs!Spec => [][Tabs!PaidWithTheDetailsShown]_(Tabs!vars)
<1>1. AttemptInv /\ Tabs!Next => Tabs!PaidWithTheDetailsShown
  BY DetailsPaid
<1> QED BY <1>1, AttemptInvariance, PTL DEF Tabs!Spec

-----------------------------------------------------------------------------
(* The types of CheckoutAttempt *)

\* Nobody lists an item twice in a cart, so none is longer than there are items.
LEMMA CartsAre ==
  ASSUME Tabs!CheckoutAttemptAssumption, NEW c
  PROVE  c \in Tabs!Carts <=> /\ c \in Seq(Item)
                              /\ \A j, k \in 1..Len(c) : c[j] = c[k] => j = k
<1>0. IsFiniteSet(Item) /\ Tabs!Cardinality(Item) = Cardinality(Item)
  <2>1. Tabs!IsFiniteSet(Item) <=> IsFiniteSet(Item)
    BY DEF Tabs!IsFiniteSet, IsFiniteSet
  <2>2. Tabs!Cardinality(Item) = Cardinality(Item)
    BY DEF Tabs!Cardinality, Cardinality
  <2> QED BY <2>1, <2>2 DEF Tabs!CheckoutAttemptAssumption
<1>1. PICK most \in Nat : most = Cardinality(Item)
  BY <1>0, FS_CardinalityType
<1>2. c \in Tabs!Carts <=> /\ \E n \in 0..most : c \in [1..n -> Item]
                           /\ \A j, k \in DOMAIN c : c[j] = c[k] => j = k
  BY <1>0, <1>1 DEF Tabs!Carts, Tabs!IsInjective
<1>3. ASSUME NEW n \in 0..most, c \in [1..n -> Item]
      PROVE  c \in Seq(Item) /\ DOMAIN c = 1..Len(c)
  BY <1>1, <1>3
<1>4. ASSUME c \in Seq(Item), \A j, k \in 1..Len(c) : c[j] = c[k] => j = k
      PROVE  c \in [1..Len(c) -> Item] /\ Len(c) \in 0..most
  <2>1. c \in [1..Len(c) -> Item] /\ Len(c) \in Nat
    BY <1>4
  <2>2. IsFiniteSet(1..Len(c)) /\ Cardinality(1..Len(c)) = Len(c)
    <3>1. PICK n : n \in Nat /\ n = Len(c)
      BY <2>1
    <3>4. 1 \in Int /\ n \in Int
      BY <3>1
    <3>2. IsFiniteSet(1..n) /\ Cardinality(1..n) = IF 1 > n THEN 0 ELSE n - 1 + 1
      BY ONLY <3>4, FS_Interval, Zenon
    <3>3. Cardinality(1..n) = n
      BY <3>1, <3>2
    <3> QED BY <3>1, <3>2, <3>3
  <2>3. ~(most < Len(c))
    <3>1. ASSUME most < Len(c) PROVE \E j, k \in 1..Len(c) : j # k /\ c[j] = c[k]
      BY <1>0, <1>1, <2>1, <2>2, <3>1, FS_PigeonHole
    <3> QED BY <1>4, <3>1
  <2> QED BY <1>1, <2>1, <2>3
<1>5. ASSUME c \in Seq(Item), \A j, k \in 1..Len(c) : c[j] = c[k] => j = k
      PROVE  c \in Tabs!Carts
  <2>1. c \in [1..Len(c) -> Item] /\ Len(c) \in 0..most
    BY <1>4, <1>5
  <2>2. DOMAIN c = 1..Len(c)
    BY <1>5
  <2>3. \A j, k \in DOMAIN c : c[j] = c[k] => j = k
    BY <1>5, <2>2
  <2>4. PICK n : n = Len(c)
    OBVIOUS
  <2>5. n \in 0..most /\ c \in [1..n -> Item]
    BY <2>1, <2>4
  <2> QED BY ONLY <1>2, <2>3, <2>5
<1> QED BY <1>2, <1>3, <1>5

LEMMA CartsChange ==
  ASSUME Tabs!CheckoutAttemptAssumption, NEW c \in Tabs!Carts
  PROVE  /\ <<>> \in Tabs!Carts /\ Tabs!Signature(c) \in SUBSET Item
         /\ \A i \in Item : i \notin Tabs!ToSet(c) => Append(c, i) \in Tabs!Carts
         /\ \A k \in DOMAIN c : Tabs!RemoveAt(c, k) \in Tabs!Carts
<1>1. c \in Seq(Item) /\ (\A j, k \in 1..Len(c) : c[j] = c[k] => j = k) /\ DOMAIN c = 1..Len(c)
  BY CartsAre
<1>2. <<>> \in Tabs!Carts
  <2>1. <<>> \in Seq(Item) /\ Len(<<>>) = 0 /\ 1..0 = {}
    OBVIOUS
  <2> QED BY <2>1, CartsAre
<1>3. Tabs!Signature(c) \in SUBSET Item
  BY <1>1 DEF Tabs!Signature, Tabs!ToSet
<1>4. ASSUME NEW i \in Item, i \notin Tabs!ToSet(c)
      PROVE  Append(c, i) \in Tabs!Carts
  <2>1. \A k \in 1..Len(c) : c[k] # i
    BY <1>1, <1>4 DEF Tabs!ToSet
  <2>2. PICK d : d = Append(c, i)
    OBVIOUS
  <2>3. /\ d \in Seq(Item) /\ Len(d) = Len(c) + 1 /\ Len(c) \in Nat
        /\ \A k \in 1..Len(d) : d[k] = IF k = Len(c) + 1 THEN i ELSE c[k]
    BY <1>1, <2>2
  <2>4. \A j, k \in 1..Len(d) : d[j] = d[k] => j = k
    BY <1>1, <2>1, <2>3
  <2> QED BY <2>2, <2>3, <2>4, CartsAre
<1>5. ASSUME NEW k \in DOMAIN c
      PROVE  Tabs!RemoveAt(c, k) \in Tabs!Carts
  <2>1. k \in 1..Len(c) /\ Len(c) \in Nat
    BY <1>1
  <2>2. PICK a, b : a = SubSeq(c, 1, k - 1) /\ b = SubSeq(c, k + 1, Len(c))
    OBVIOUS
  <2>3. /\ a \in Seq(Item) /\ Len(a) = k - 1 /\ \A j \in 1..Len(a) : a[j] = c[j]
    BY <1>1, <2>1, <2>2
  <2>4. /\ b \in Seq(Item) /\ Len(b) = Len(c) - k /\ \A j \in 1..Len(b) : b[j] = c[k + j]
    BY <1>1, <2>1, <2>2
  <2>5. PICK d : d = a \o b
    OBVIOUS
  <2>0. a \in Seq(Item) /\ b \in Seq(Item)
    BY <2>3, <2>4
  <2>6. /\ d \in Seq(Item) /\ Len(d) = Len(a) + Len(b)
        /\ \A j \in 1..Len(d) : d[j] = IF j <= Len(a) THEN a[j] ELSE b[j - Len(a)]
    BY ONLY <2>0, <2>5
  <2>7. Len(d) = Len(c) - 1 /\ \A j \in 1..Len(d) : d[j] = c[IF j < k THEN j ELSE j + 1]
    <3>1. Len(d) = Len(c) - 1
      BY <2>1, <2>3, <2>4, <2>6
    <3>2. ASSUME NEW j \in 1..Len(d), j < k PROVE d[j] = c[j]
      BY <2>1, <2>3, <2>6, <3>1, <3>2
    <3>3. ASSUME NEW j \in 1..Len(d), ~(j < k) PROVE d[j] = c[j + 1]
      <4>1. j - Len(a) \in 1..Len(b) /\ ~(j <= Len(a)) /\ k + (j - Len(a)) = j + 1
        BY <2>1, <2>3, <2>4, <3>1, <3>3
      <4> QED BY <2>4, <2>6, <4>1
    <3> QED BY <3>1, <3>2, <3>3
  <2>8. \A j, m \in 1..Len(d) : d[j] = d[m] => j = m
    <3>1. ASSUME NEW j \in 1..Len(d), NEW m \in 1..Len(d), d[j] = d[m]
          PROVE  j = m
      <4>1. PICK j1, m1 : j1 = (IF j < k THEN j ELSE j + 1) /\ m1 = (IF m < k THEN m ELSE m + 1)
        OBVIOUS
      <4>2. j1 \in 1..Len(c) /\ m1 \in 1..Len(c)
        BY <2>1, <2>7, <4>1
      <4>3. c[j1] = c[m1]
        BY <2>7, <3>1, <4>1
      <4>4. j1 = m1
        BY <1>1, <4>2, <4>3
      <4> QED BY <2>1, <2>7, <4>1, <4>4
    <3> QED BY <3>1
  <2>9. d \in Tabs!Carts
    BY <2>6, <2>8, CartsAre
  <2> QED BY <2>2, <2>5, <2>9 DEF Tabs!RemoveAt
<1> QED BY <1>2, <1>3, <1>4, <1>5

\* A tab, and a record of payment-service.
PayRow == [asked : Tabs!Ids, shown : Tabs!Ids, synced : 0..2, stuck : BOOLEAN,
           refused : {"no", "failed", "otherCart", "ended"}]
RowTyped(row) ==
  /\ row.page \in {"shop", "pay", "return"} /\ row.cart \in Tabs!Carts
  /\ row.form \in Form \union {NoDelivery}
  /\ row.saved \in [id : Tabs!Ids, signature : SUBSET Item]
  /\ row.memo \in SUBSET [session : Tabs!Attempt, signature : SUBSET Item]
  /\ row.back \in Tabs!Ids /\ row.pay \in PayRow
RecordRow == [by : CustomerTab \union {"none"}, cart : Tabs!Carts,
           status : {"none", "saved", "open", "paid", "expired"},
           email : Form \union {NoDelivery}, address : Form \union {NoDelivery}, acknowledged : BOOLEAN]
SentRow == [by : CustomerTab, attempt : Tabs!Attempt, cart : Tabs!Carts]

LEMMA AttemptTyped ==
  ASSUME Tabs!TypeOK
  PROVE  /\ disk \in Tabs!Carts /\ \A t \in CustomerTab : RowTyped(tab[t])
         /\ sent \in SUBSET SentRow /\ session \in [Tabs!Attempt -> RecordRow]
         /\ used \in Tabs!Ids /\ lapsed \in SUBSET Tabs!Attempt /\ edits \in 0..MaxEdits
<1>1. ASSUME NEW t \in CustomerTab PROVE RowTyped(tab[t])
  BY DEF Tabs!TypeOK, RowTyped, PayRow
<1>2. sent \in SUBSET SentRow
  BY DEF Tabs!TypeOK, SentRow
<1>3. session \in [Tabs!Attempt -> RecordRow]
  BY DEF Tabs!TypeOK, RecordRow, Tabs!NoTab
<1> QED BY <1>1, <1>2, <1>3 DEF Tabs!TypeOK

LEMMA AttemptConstants ==
  /\ Tabs!Carts' = Tabs!Carts /\ Tabs!Ids' = Tabs!Ids /\ Tabs!Attempt' = Tabs!Attempt
  /\ RecordRow' = RecordRow /\ SentRow' = SentRow /\ PayRow' = PayRow
<1>1. Tabs!Carts' = Tabs!Carts /\ Tabs!Ids' = Tabs!Ids /\ Tabs!Attempt' = Tabs!Attempt
  BY DEF Tabs!Carts, Tabs!Ids, Tabs!Attempt
<1> QED BY <1>1 DEF RecordRow, SentRow, PayRow

LEMMA TypedAfter ==
  ASSUME disk' \in Tabs!Carts, \A t \in CustomerTab : RowTyped(tab'[t]),
         sent' \in SUBSET SentRow, session' \in [Tabs!Attempt -> RecordRow],
         used' \in Tabs!Ids, lapsed' \in SUBSET Tabs!Attempt, edits' \in 0..MaxEdits
  PROVE  Tabs!TypeOK'
<1> USE AttemptConstants
<1>1. ASSUME NEW t \in CustomerTab
      PROVE  (/\ tab[t].page \in {"shop", "pay", "return"}
              /\ tab[t].cart \in Tabs!Carts
              /\ tab[t].form \in Form \union {NoDelivery}
              /\ tab[t].saved \in [id : Tabs!Ids, signature : SUBSET Item]
              /\ tab[t].memo \subseteq [session : Tabs!Attempt, signature : SUBSET Item]
              /\ tab[t].back \in Tabs!Ids
              /\ tab[t].pay \in [asked : Tabs!Ids, shown : Tabs!Ids, synced : 0..2, stuck : BOOLEAN,
                                   refused : {"no", "failed", "otherCart", "ended"}])'
  BY DEF RowTyped, PayRow
<1>2. sent' \subseteq [by : CustomerTab, attempt : Tabs!Attempt', cart : Tabs!Carts']
  BY DEF SentRow
<1>3. session' \in [Tabs!Attempt' -> [by : CustomerTab \union {Tabs!NoTab'}, cart : Tabs!Carts',
                      status : {"none", "saved", "open", "paid", "expired"},
                      email : Form \union {NoDelivery}, address : Form \union {NoDelivery},
                      acknowledged : BOOLEAN]]
  BY DEF RecordRow, Tabs!NoTab
<1> QED BY <1>1, <1>2, <1>3 DEF Tabs!TypeOK

LEMMA QuietTyped ==
  ASSUME Tabs!CheckoutAttemptAssumption
  PROVE  Tabs!Quiet \in PayRow /\ DOMAIN Tabs!Quiet = PayFields
<1>1. 0 \in Tabs!Ids /\ 0 \in 0..2 /\ FALSE \in BOOLEAN
  BY DEF Tabs!Ids, Tabs!CheckoutAttemptAssumption
<1>2. [asked |-> 0, shown |-> 0, refused |-> "no", synced |-> 0, stuck |-> FALSE]
        \in [asked : Tabs!Ids, shown : Tabs!Ids, synced : 0..2, stuck : BOOLEAN,
             refused : {"no", "failed", "otherCart", "ended"}]
  BY ONLY <1>1
<1> QED BY <1>2 DEF PayRow, Tabs!Quiet, PayFields

\* A step of one tab.
LEMMA RowTypedAfter ==
  ASSUME Tabs!TypeOK, NEW t \in CustomerTab, NEW row, RowTyped(row),
         tab'[t] = row, \A u \in CustomerTab : u # t => tab'[u] = tab[u],
         disk' \in Tabs!Carts, sent' \in SUBSET SentRow,
         session' \in [Tabs!Attempt -> RecordRow], used' \in Tabs!Ids, lapsed' = lapsed, edits' \in 0..MaxEdits
  PROVE  Tabs!TypeOK'
<1>1. (\A u \in CustomerTab : RowTyped(tab[u])) /\ lapsed \in SUBSET Tabs!Attempt
  BY AttemptTyped
<1>2. ASSUME NEW u \in CustomerTab PROVE RowTyped(tab'[u])
  <2>1. tab'[u] = IF u = t THEN row ELSE tab[u]
    OBVIOUS
  <2> QED BY <1>1, <2>1
<1> QED BY <1>1, <1>2, TypedAfter

LEMMA TabTyped ==
  ASSUME AttemptInv, Tabs!TypeOK, NEW t \in CustomerTab, NEW row, RowTyped(row),
         tab' = [tab EXCEPT ![t] = row], disk' \in Tabs!Carts, sent' \in SUBSET SentRow,
         session' \in [Tabs!Attempt -> RecordRow], used' \in Tabs!Ids, lapsed' = lapsed, edits' \in 0..MaxEdits
  PROVE  Tabs!TypeOK'
<1>1. tab'[t] = row /\ \A u \in CustomerTab : u # t => tab'[u] = tab[u]
  BY DEF AttemptInv, AttemptTypes
<1> QED BY <1>1, RowTypedAfter

LEMMA InitAttemptTyped ==
  ASSUME Tabs!CheckoutAttemptAssumption, Tabs!Init
  PROVE  Tabs!TypeOK
<1>0. MaxAttempts \in Nat /\ MaxEdits \in Nat
  BY DEF Tabs!CheckoutAttemptAssumption
<1>1. <<>> \in Tabs!Carts
  <2>1. <<>> \in Seq(Item) /\ Len(<<>>) = 0 /\ 1..0 = {}
    OBVIOUS
  <2> QED BY <2>1, CartsAre
<1>2. /\ disk = <<>> /\ used = 0 /\ edits = 0 /\ sent = {} /\ lapsed = {}
      /\ \A t \in CustomerTab :
           tab[t] = [page |-> "shop", cart |-> <<>>, form |-> NoDelivery, saved |-> [id |-> 0, signature |-> {}],
                     memo |-> {}, back |-> 0,
                     pay |-> [asked |-> 0, shown |-> 0, refused |-> "no", synced |-> 0, stuck |-> FALSE]]
      /\ session = [a \in Tabs!Attempt |-> [by |-> "none", cart |-> <<>>, status |-> "none", email |-> NoDelivery,
                                            address |-> NoDelivery, acknowledged |-> FALSE]]
  BY DEF Tabs!Init, Tabs!Shop, Tabs!NoAttempt, Tabs!Quiet, Tabs!NoRecord, Tabs!NoTab
<1>3. ASSUME NEW t \in CustomerTab
      PROVE  /\ tab[t].page \in {"shop", "pay", "return"} /\ tab[t].cart \in Tabs!Carts
             /\ tab[t].form \in Form \union {NoDelivery}
             /\ tab[t].saved \in [id : Tabs!Ids, signature : SUBSET Item]
             /\ tab[t].memo \in SUBSET [session : Tabs!Attempt, signature : SUBSET Item]
             /\ tab[t].back \in Tabs!Ids
             /\ tab[t].pay \in [asked : Tabs!Ids, shown : Tabs!Ids, synced : 0..2, stuck : BOOLEAN,
                                 refused : {"no", "failed", "otherCart", "ended"}]
  <2>1. 0 \in Tabs!Ids /\ 0 \in 0..2 /\ FALSE \in BOOLEAN
    BY <1>0 DEF Tabs!Ids
  <2>3. [id |-> 0, signature |-> {}] \in [id : Tabs!Ids, signature : SUBSET Item]
    BY <2>1
  <2>4. [asked |-> 0, shown |-> 0, refused |-> "no", synced |-> 0, stuck |-> FALSE]
          \in [asked : Tabs!Ids, shown : Tabs!Ids, synced : 0..2, stuck : BOOLEAN,
               refused : {"no", "failed", "otherCart", "ended"}]
    BY QuietTyped DEF Tabs!Quiet, PayRow
  <2>5. /\ tab[t].page = "shop" /\ tab[t].cart = <<>> /\ tab[t].form = NoDelivery
        /\ tab[t].saved = [id |-> 0, signature |-> {}] /\ tab[t].memo = {} /\ tab[t].back = 0
        /\ tab[t].pay = [asked |-> 0, shown |-> 0, refused |-> "no", synced |-> 0, stuck |-> FALSE]
    <3>1. tab[t] = [page |-> "shop", cart |-> <<>>, form |-> NoDelivery, saved |-> [id |-> 0, signature |-> {}],
                    memo |-> {}, back |-> 0,
                    pay |-> [asked |-> 0, shown |-> 0, refused |-> "no", synced |-> 0, stuck |-> FALSE]]
      BY <1>2
    <3> QED BY ONLY <3>1
  <2> QED BY <1>1, <2>1, <2>3, <2>4, <2>5
<1>4. session \in [Tabs!Attempt -> RecordRow]
  BY <1>1, <1>2 DEF RecordRow
<1>5. used \in Tabs!Ids /\ edits \in 0..MaxEdits
  BY <1>0, <1>2 DEF Tabs!Ids
<1> QED BY <1>1, <1>2, <1>3, <1>4, <1>5 DEF Tabs!TypeOK, RecordRow, Tabs!NoTab

\* What a tab does in the shop.
LEMMA EditTyped ==
  ASSUME Tabs!CheckoutAttemptAssumption, AttemptInv, Tabs!TypeOK, NEW t \in CustomerTab,
         \/ \E i \in Item : Tabs!AddToCart(t, i) \/ Tabs!RemoveFromCart(t, i)
         \/ \E f \in Form : Tabs!SetShippingForm(t, f)
         \/ Tabs!GoShopping(t)
  PROVE  Tabs!TypeOK'
<1>0. /\ RowTyped(tab[t]) /\ disk \in Tabs!Carts /\ sent \in SUBSET SentRow
      /\ session \in [Tabs!Attempt -> RecordRow] /\ used \in Tabs!Ids /\ edits \in 0..MaxEdits
      /\ DOMAIN tab[t] = TabFields /\ MaxEdits \in Nat /\ tab[t].cart \in Tabs!Carts
  BY AttemptTyped DEF AttemptInv, AttemptTypes, Tabs!CheckoutAttemptAssumption, RowTyped
<1>1. ASSUME NEW lines \in Tabs!Carts, Tabs!SetCart(t, lines)
      PROVE  Tabs!TypeOK'
  <2>1. PICK row : row = [tab[t] EXCEPT !.cart = lines]
    OBVIOUS
  <2>2. /\ tab' = [tab EXCEPT ![t] = row] /\ disk' = lines /\ edits' = edits + 1 /\ edits < MaxEdits
        /\ UNCHANGED <<sent, session, used, lapsed>>
    BY <1>1, <2>1 DEF Tabs!SetCart, Tabs!Edit
  <2>3. RowTyped(row)
    BY <1>0, <2>1 DEF RowTyped, TabFields
  <2>4. edits' \in 0..MaxEdits
    BY <1>0, <2>2
  <2> QED BY <1>0, <2>2, <2>3, <2>4, TabTyped
<1>2. ASSUME NEW i \in Item, Tabs!AddToCart(t, i)
      PROVE  Tabs!TypeOK'
  <2>1. i \notin Tabs!ToSet(tab[t].cart) /\ Tabs!SetCart(t, Append(tab[t].cart, i))
    BY <1>2 DEF Tabs!AddToCart
  <2>2. Append(tab[t].cart, i) \in Tabs!Carts
    BY <1>0, <2>1, CartsChange
  <2> QED BY <1>1, <2>1, <2>2
<1>3. ASSUME NEW i \in Item, Tabs!RemoveFromCart(t, i)
      PROVE  Tabs!TypeOK'
  <2>1. PICK k \in DOMAIN tab[t].cart : Tabs!SetCart(t, Tabs!RemoveAt(tab[t].cart, k))
    BY <1>3 DEF Tabs!RemoveFromCart
  <2>2. Tabs!RemoveAt(tab[t].cart, k) \in Tabs!Carts
    BY <1>0, <2>1, CartsChange
  <2> QED BY <1>1, <2>1, <2>2
<1>4. ASSUME NEW f \in Form, Tabs!SetShippingForm(t, f)
      PROVE  Tabs!TypeOK'
  <2>1. PICK row : row = [tab[t] EXCEPT !.form = f]
    OBVIOUS
  <2>2. /\ tab' = [tab EXCEPT ![t] = row] /\ edits' = edits + 1 /\ edits < MaxEdits
        /\ UNCHANGED <<disk, sent, session, used, lapsed>>
    BY <1>4, <2>1 DEF Tabs!SetShippingForm, Tabs!Edit
  <2>3. RowTyped(row)
    BY <1>0, <2>1 DEF RowTyped, TabFields
  <2>4. edits' \in 0..MaxEdits
    BY <1>0, <2>2
  <2> QED BY <1>0, <2>2, <2>3, <2>4, TabTyped
<1>5. CASE Tabs!GoShopping(t)
  <2>1. PICK row : row = [tab[t] EXCEPT !.page = "shop", !.pay = Tabs!Quiet]
    OBVIOUS
  <2>2. tab' = [tab EXCEPT ![t] = row] /\ UNCHANGED <<disk, sent, session, used, lapsed, edits>>
    BY <1>5, <2>1 DEF Tabs!GoShopping, AttemptInv, AttemptTypes
  <2>3. RowTyped(row)
    BY <1>0, <2>1, QuietTyped DEF RowTyped, TabFields
  <2> QED BY <1>0, <2>2, <2>3, TabTyped
<1> QED BY <1>2, <1>3, <1>4, <1>5

LEMMA AskTyped ==
  ASSUME Tabs!CheckoutAttemptAssumption, AttemptInv, Tabs!TypeOK, NEW t \in CustomerTab, NEW state,
         DOMAIN state = TabFields, RowTyped(state), state.saved = tab[t].saved, Tabs!Ask(t, state)
  PROVE  Tabs!TypeOK'
<1>0. /\ disk \in Tabs!Carts /\ sent \in SUBSET SentRow /\ session \in [Tabs!Attempt -> RecordRow]
      /\ used \in 0..MaxAttempts /\ MaxAttempts \in Nat /\ edits \in 0..MaxEdits
      /\ Tabs!Ids = 0..MaxAttempts /\ Tabs!Attempt = 1..MaxAttempts
      /\ state.saved.id \in 0..used /\ state.cart \in Tabs!Carts
  BY AttemptTyped DEF AttemptInv, AttemptTypes, Tabs!CheckoutAttemptAssumption, RowTyped, Tabs!Ids, Tabs!Attempt
<1>10. PICK id, sig : id = (IF Tabs!Reusable(state) THEN state.saved.id ELSE used + 1)
                      /\ sig = Tabs!Signature(state.cart)
  OBVIOUS
<1>11. PICK pay0 : pay0 = [Tabs!Quiet EXCEPT !.asked = id]
  OBVIOUS
<1>12. PICK row : row = [state EXCEPT !.page = "pay", !.saved = [id |-> id, signature |-> sig], !.pay = pay0]
  OBVIOUS
<1>1. /\ id = (IF Tabs!Reusable(state) THEN state.saved.id ELSE used + 1)
      /\ sig = Tabs!Signature(state.cart) /\ pay0 = [Tabs!Quiet EXCEPT !.asked = id]
      /\ row = [state EXCEPT !.page = "pay", !.saved = [id |-> id, signature |-> sig], !.pay = pay0]
  BY <1>10, <1>11, <1>12
<1>2. /\ tab' = [tab EXCEPT ![t] = row]
      /\ sent' = sent \union {[by |-> t, attempt |-> id, cart |-> state.cart]}
      /\ used' = (IF Tabs!Reusable(state) THEN used ELSE id)
      /\ session' = [session EXCEPT ![id].by = t]
      /\ UNCHANGED <<disk, lapsed, edits>> /\ (Tabs!Reusable(state) \/ used < MaxAttempts)
  BY <1>1 DEF Tabs!Ask
<1>3. Tabs!Reusable(state) => state.saved.id # 0
  BY DEF Tabs!Reusable
<1>4. id \in Tabs!Attempt /\ id \in Tabs!Ids /\ used' \in Tabs!Ids
  BY <1>0, <1>1, <1>2, <1>3
<1>5. sig \in SUBSET Item
  BY <1>0, <1>1, CartsChange
<1>6. pay0 \in PayRow
  BY <1>1, <1>4, QuietTyped DEF PayRow
<1>7. RowTyped(row)
  BY <1>1, <1>4, <1>5, <1>6 DEF RowTyped, TabFields
<1>8. session' \in [Tabs!Attempt -> RecordRow]
  <2>1. session[id] \in RecordRow
    BY <1>0, <1>4
  <2>2. [session[id] EXCEPT !.by = t] \in RecordRow
    BY <2>1 DEF RecordRow
  <2> QED BY <1>0, <1>2, <1>4, <2>2
<1>9. sent' \in SUBSET SentRow
  <2>1. [by |-> t, attempt |-> id, cart |-> state.cart] \in SentRow
    BY <1>0, <1>4 DEF SentRow
  <2> QED BY <1>0, <1>2, <2>1
<1> QED BY <1>0, <1>2, <1>4, <1>7, <1>8, <1>9, TabTyped

LEMMA PayTyped ==
  ASSUME Tabs!CheckoutAttemptAssumption, AttemptInv, Tabs!TypeOK, NEW t \in CustomerTab,
         Tabs!OpenPayment(t) \/ Tabs!RetryCheckout(t) \/ Tabs!Reload(t)
  PROVE  Tabs!TypeOK'
<1>0. /\ RowTyped(tab[t]) /\ disk \in Tabs!Carts /\ sent \in SUBSET SentRow
      /\ session \in [Tabs!Attempt -> RecordRow] /\ used \in Tabs!Ids /\ edits \in 0..MaxEdits
      /\ DOMAIN tab[t] = TabFields
  BY AttemptTyped DEF AttemptInv, AttemptTypes
<1>1. CASE Tabs!OpenPayment(t) \/ Tabs!RetryCheckout(t)
  BY <1>0, <1>1, AskTyped DEF Tabs!OpenPayment, Tabs!RetryCheckout
<1>2. CASE Tabs!Reload(t)
  <2>1. PICK state : state = [tab[t] EXCEPT !.cart = disk, !.pay = Tabs!Quiet]
    OBVIOUS
  <2>2. DOMAIN state = TabFields /\ state.saved = tab[t].saved /\ RowTyped(state)
    BY <1>0, <2>1, QuietTyped DEF RowTyped, TabFields
  <2>3. CASE Tabs!Ask(t, state)
    BY <2>2, <2>3, AskTyped
  <2>4. CASE ~Tabs!Ask(t, state)
    <3>1. PICK row : row = [state EXCEPT !.page = IF state.page = "pay" THEN "shop" ELSE state.page]
      OBVIOUS
    <3>2. tab' = [tab EXCEPT ![t] = row] /\ UNCHANGED <<disk, sent, session, used, lapsed, edits>>
      BY <1>2, <2>1, <2>4, <3>1 DEF Tabs!Reload
    <3>3. RowTyped(row)
      BY <2>2, <3>1 DEF RowTyped, TabFields
    <3> QED BY <1>0, <3>2, <3>3, TabTyped
  <2> QED BY <2>3, <2>4
<1> QED BY <1>1, <1>2

\* An answer of payment-service.
LEMMA AnswerTyped ==
  ASSUME Tabs!CheckoutAttemptAssumption, AttemptInv, Tabs!TypeOK, NEW r \in sent, Tabs!CreateCheckoutSession(r)
  PROVE  Tabs!TypeOK'
<1>a. PICK t, id, record : t = r.by /\ id = r.attempt /\ record = session[id]
  OBVIOUS
<1>0. /\ t = r.by /\ id = r.attempt /\ record = session[id]
      /\ disk \in Tabs!Carts /\ sent \in SUBSET SentRow /\ session \in [Tabs!Attempt -> RecordRow]
      /\ used \in Tabs!Ids /\ edits \in 0..MaxEdits /\ r \in SentRow
      /\ DOMAIN tab = CustomerTab /\ lapsed \in SUBSET Tabs!Attempt
  BY <1>a, AttemptTyped DEF AttemptInv, AttemptTypes
<1>1. t \in CustomerTab /\ id \in Tabs!Attempt /\ r.cart \in Tabs!Carts
  BY <1>0 DEF SentRow
<1>20. PICK o \in Tabs!Outcomes(r, session[r.attempt]) :
         /\ session' = [session EXCEPT ![r.attempt] =
              [session[r.attempt] EXCEPT
                 !.cart = IF o[1] = "none" \/ session[r.attempt].cart # <<>> THEN session[r.attempt].cart ELSE r.cart,
                 !.status = o[1]]]
         /\ \/ tab[r.by].pay.asked = r.attempt /\ tab' = Tabs!Answered(r.by, r, o[2])
            \/ tab[r.by].pay.asked = r.attempt /\ tab' = Tabs!Answered(r.by, r, "failed")
            \/ ~(tab[r.by].pay.asked = r.attempt) /\ UNCHANGED tab
  BY Zenon DEF Tabs!CreateCheckoutSession
<1>2. /\ o \in Tabs!Outcomes(r, record)
      /\ session' = [session EXCEPT ![id] =
           [record EXCEPT !.cart = IF o[1] = "none" \/ record.cart # <<>> THEN record.cart ELSE r.cart,
                          !.status = o[1]]]
      /\ \/ tab' = Tabs!Answered(t, r, o[2])
         \/ tab' = Tabs!Answered(t, r, "failed")
         \/ tab' = tab
  BY <1>a, <1>20
<1>3. sent' = sent \ {r} /\ UNCHANGED <<disk, used, lapsed, edits>>
  BY DEF Tabs!CreateCheckoutSession
<1>4. record \in RecordRow
  BY <1>0, <1>1
<1>5. /\ record.status \in {"none", "saved", "open", "paid", "expired"} /\ record.cart \in Tabs!Carts
  BY <1>4 DEF RecordRow
<1>6. /\ o[1] \in {"none", "saved", "open", "paid", "expired"}
      /\ o[2] \in {"no", "failed", "otherCart", "ended"}
  <2>1. o \in Tabs!Outcomes(r, record)
    BY <1>2
  <2>2. \/ o = <<record.status, "otherCart">>
        \/ o \in {<<"none", "failed">>, <<"saved", "failed">>, <<"open", "no">>}
        \/ o \in {<<record.status, "failed">>, <<"open", "no">>}
        \/ o = <<record.status, "ended">>
    BY ONLY <2>1 DEF Tabs!Outcomes
  <2> QED BY ONLY <1>5, <2>2
<1>7. session' \in [Tabs!Attempt -> RecordRow]
  <2>1. PICK c1, s1 : c1 = (IF o[1] = "none" \/ record.cart # <<>> THEN record.cart ELSE r.cart) /\ s1 = o[1]
    OBVIOUS
  <2>2. c1 \in Tabs!Carts /\ s1 \in {"none", "saved", "open", "paid", "expired"}
    BY <1>1, <1>5, <1>6, <2>1
  <2>3. [record EXCEPT !.cart = c1, !.status = s1] \in RecordRow
    BY <1>4, <2>2 DEF RecordRow
  <2>4. session' = [session EXCEPT ![id] = [record EXCEPT !.cart = c1, !.status = s1]]
    BY <1>2, <2>1
  <2> QED BY <1>0, <2>3, <2>4
<1>8. sent' \in SUBSET SentRow
  BY <1>0, <1>3
<1>9. /\ RowTyped(tab[t]) /\ DOMAIN tab[t] = TabFields /\ DOMAIN tab[t].pay = PayFields
      /\ Tabs!Signature(r.cart) \in SUBSET Item /\ 0 \in Tabs!Ids /\ id \in Tabs!Ids
  BY <1>1, AttemptTyped, CartsChange
     DEF AttemptInv, AttemptTypes, Tabs!Ids, Tabs!Attempt, Tabs!CheckoutAttemptAssumption
<1>10. PICK p \in PayRow : p = tab[t].pay
  BY <1>9 DEF RowTyped
<1>11. /\ p.asked \in Tabs!Ids /\ p.shown \in Tabs!Ids /\ p.synced \in 0..2 /\ p.stuck \in BOOLEAN
       /\ p.refused \in {"no", "failed", "otherCart", "ended"}
  BY <1>10 DEF PayRow
<1>12. ASSUME NEW told \in {"no", "failed", "otherCart", "ended"}, tab' = Tabs!Answered(t, r, told)
       PROVE  Tabs!TypeOK'
  <2>1. PICK row : row = tab'[t]
    OBVIOUS
  <2>2. CASE told = "no"
    <3>1. PICK m : m = [session |-> id, signature |-> Tabs!Signature(r.cart)]
      OBVIOUS
    <3>2. tab' = [tab EXCEPT ![t].memo = tab[t].memo \union {m},
                             ![t].pay.shown = id, ![t].pay.asked = 0]
      BY <1>0, <1>12, <2>2, <3>1 DEF Tabs!Answered
    <3>3. /\ \A u \in CustomerTab : u # t => tab'[u] = tab[u]
          /\ row.page = tab[t].page /\ row.saved = tab[t].saved /\ row.cart = tab[t].cart
          /\ row.form = tab[t].form /\ row.back = tab[t].back
          /\ row.memo = tab[t].memo \union {m}
      BY <1>0, <1>1, <1>9, <2>1, <3>2 DEF TabFields, PayFields
    <3>4. row.pay = [p EXCEPT !.shown = id, !.asked = 0]
      BY <1>0, <1>1, <1>9, <1>10, <2>1, <3>2 DEF TabFields, PayFields
    <3>5. row.pay \in PayRow
      BY <1>9, <3>4 DEF PayRow
    <3>6. row.memo \in SUBSET [session : Tabs!Attempt, signature : SUBSET Item]
      BY <1>1, <1>9, <3>1, <3>3 DEF RowTyped
    <3>7. RowTyped(row)
      BY <1>9, <3>3, <3>5, <3>6 DEF RowTyped
    <3> QED BY <1>0, <1>1, <1>3, <1>7, <1>8, <2>1, <3>3, <3>7, RowTypedAfter
  <2>3. CASE told # "no"
    <3>2. tab' = [tab EXCEPT ![t].pay.refused = told, ![t].pay.asked = 0]
      BY <1>12, <2>3 DEF Tabs!Answered
    <3>3. /\ \A u \in CustomerTab : u # t => tab'[u] = tab[u]
          /\ row.page = tab[t].page /\ row.saved = tab[t].saved /\ row.cart = tab[t].cart
          /\ row.form = tab[t].form /\ row.back = tab[t].back /\ row.memo = tab[t].memo
      BY <1>0, <1>1, <1>9, <2>1, <3>2 DEF TabFields, PayFields
    <3>4. row.pay = [p EXCEPT !.refused = told, !.asked = 0]
      BY <1>0, <1>1, <1>9, <1>10, <2>1, <3>2 DEF TabFields, PayFields
    <3>5. row.pay \in PayRow
      BY <1>9, <1>12, <3>4 DEF PayRow
    <3>6. RowTyped(row)
      BY <1>9, <3>3, <3>5 DEF RowTyped
    <3> QED BY <1>0, <1>1, <1>3, <1>7, <1>8, <2>1, <3>3, <3>6, RowTypedAfter
  <2> QED BY <2>2, <2>3
<1>13. CASE tab' = tab
  BY <1>0, <1>3, <1>7, <1>8, <1>13, AttemptTyped, TypedAfter
<1> QED BY <1>2, <1>6, <1>12, <1>13

\* What the payment form does.
LEMMA PaymentTyped ==
  ASSUME Tabs!CheckoutAttemptAssumption, AttemptInv, Tabs!TypeOK, NEW t \in CustomerTab,
         Tabs!SyncDetails(t) \/ Tabs!Confirm(t)
  PROVE  Tabs!TypeOK'
<1>0. /\ disk \in Tabs!Carts /\ sent \in SUBSET SentRow /\ session \in [Tabs!Attempt -> RecordRow]
      /\ used \in Tabs!Ids /\ edits \in 0..MaxEdits
      /\ DOMAIN tab = CustomerTab /\ lapsed \in SUBSET Tabs!Attempt
      /\ RowTyped(tab[t]) /\ DOMAIN tab[t] = TabFields /\ DOMAIN tab[t].pay = PayFields
  BY AttemptTyped DEF AttemptInv, AttemptTypes
<1>1. /\ 0 \in Tabs!Ids /\ <<>> \in Tabs!Carts /\ Tabs!Ids = 0..MaxAttempts
      /\ Tabs!Attempt = 1..MaxAttempts /\ MaxAttempts \in Nat
  BY <1>0, CartsChange DEF Tabs!Ids, Tabs!Attempt, Tabs!CheckoutAttemptAssumption
<1>2. PICK p \in PayRow : p = tab[t].pay
  BY <1>0 DEF RowTyped
<1>3. PICK s : s = p.shown
  OBVIOUS
<1>4. /\ s \in Tabs!Ids /\ (s # 0 => s \in Tabs!Attempt) /\ p.synced \in 0..2
      /\ tab[t].form \in Form \union {NoDelivery}
  BY <1>0, <1>1, <1>3 DEF PayRow, RowTyped
<1>5. CASE Tabs!SyncDetails(t)
  <2>1. s # 0 /\ p.synced < 2 /\ UNCHANGED <<disk, sent, used, lapsed, edits>>
    BY <1>2, <1>3, <1>5 DEF Tabs!SyncDetails
  <2>2. PICK f \in Form \union {NoDelivery} : f = tab[t].form
    BY <1>4
  <2>3. CASE /\ tab' = [tab EXCEPT ![t].pay.synced = p.synced + 1]
             /\ session' = IF p.synced = 0 THEN [session EXCEPT ![s].email = f]
                                           ELSE [session EXCEPT ![s].address = f]
    <3>1. PICK pay0 : pay0 = [p EXCEPT !.synced = p.synced + 1]
      OBVIOUS
    <3>2. PICK row : row = [tab[t] EXCEPT !.pay = pay0]
      OBVIOUS
    <3>3. tab' = [tab EXCEPT ![t] = row]
      BY <1>0, <1>2, <2>3, <3>1, <3>2 DEF TabFields
    <3>4. p.synced + 1 \in 0..2
      BY <1>4, <2>1
    <3>5. pay0 \in PayRow
      BY <3>1, <3>4 DEF PayRow
    <3>6. RowTyped(row)
      BY <1>0, <3>2, <3>5 DEF RowTyped, TabFields
    <3>7. PICK rec \in RecordRow : rec = session[s]
      BY <1>0, <1>4, <2>1
    <3>8. [rec EXCEPT !.email = f] \in RecordRow /\ [rec EXCEPT !.address = f] \in RecordRow
      BY DEF RecordRow
    <3>9. session' \in [Tabs!Attempt -> RecordRow]
      <4>1. \/ session' = [session EXCEPT ![s] = [rec EXCEPT !.email = f]]
            \/ session' = [session EXCEPT ![s] = [rec EXCEPT !.address = f]]
        BY <2>3, <3>7
      <4> QED BY <1>0, <3>8, <4>1
    <3> QED BY <1>0, <2>1, <3>3, <3>6, <3>9, TabTyped
  <2>4. CASE tab' = [tab EXCEPT ![t].pay.stuck = TRUE] /\ session' = session
    <3>1. PICK pay0 : pay0 = [p EXCEPT !.stuck = TRUE]
      OBVIOUS
    <3>2. PICK row : row = [tab[t] EXCEPT !.pay = pay0]
      OBVIOUS
    <3>3. tab' = [tab EXCEPT ![t] = row]
      BY <1>0, <1>2, <2>4, <3>1, <3>2 DEF TabFields
    <3>4. TRUE \in BOOLEAN
      OBVIOUS
    <3>5. pay0 \in PayRow
      BY <3>1, <3>4 DEF PayRow
    <3>6. RowTyped(row)
      BY <1>0, <3>2, <3>5 DEF RowTyped, TabFields
    <3> QED BY <1>0, <2>1, <2>4, <3>3, <3>6, TabTyped
  <2> QED BY <1>2, <1>3, <1>5, <2>2, <2>3, <2>4 DEF Tabs!SyncDetails
<1>6. CASE Tabs!Confirm(t)
  <2>1. s # 0 /\ UNCHANGED <<disk, sent, used, lapsed, edits>>
    BY <1>2, <1>3, <1>6 DEF Tabs!Confirm
  <2>2. session' \in [Tabs!Attempt -> RecordRow]
    <3>1. PICK rec \in RecordRow : rec = session[s]
      BY <1>0, <1>4, <2>1
    <3>2. [rec EXCEPT !.status = "paid"] \in RecordRow
      BY DEF RecordRow
    <3>3. session' = session \/ session' = [session EXCEPT ![s] = [rec EXCEPT !.status = "paid"]]
      BY <1>2, <1>3, <1>6, <3>1 DEF Tabs!Confirm
    <3> QED BY <1>0, <3>2, <3>3
  <2>3. PICK row : row = [tab[t] EXCEPT !.page = "return", !.back = s, !.cart = disk, !.pay = Tabs!Quiet]
    OBVIOUS
  <2>4. RowTyped(row)
    BY <1>0, <1>4, <2>3, QuietTyped DEF RowTyped, TabFields
  <2>5. \/ tab' = tab
        \/ tab' = [tab EXCEPT ![t].page = "return", ![t].back = s, ![t].cart = disk, ![t].pay = Tabs!Quiet]
    BY <1>2, <1>3, <1>6 DEF Tabs!Confirm, Tabs!Land
  <2>6. CASE tab' = tab
    BY <1>0, <2>1, <2>2, <2>6, AttemptTyped, TypedAfter
  <2>7. CASE tab' # tab
    <3>1. /\ DOMAIN tab' = CustomerTab /\ \A u \in CustomerTab : u # t => tab'[u] = tab[u]
          /\ tab'[t] = row
      BY <1>0, <2>3, <2>5, <2>7 DEF TabFields
    <3> QED BY <1>0, <2>1, <2>2, <2>4, <3>1, RowTypedAfter
  <2> QED BY <2>6, <2>7
<1> QED BY <1>5, <1>6

\* And the return page.
LEMMA BackTyped ==
  ASSUME Tabs!CheckoutAttemptAssumption, AttemptInv, Tabs!TypeOK, NEW t \in CustomerTab, Tabs!VerifySession(t)
  PROVE  Tabs!TypeOK'
<1>1. PICK id, row : id = tab[t].back /\ row = tab'[t]
  OBVIOUS
<1>2. /\ tab[t].page = "return" /\ UNCHANGED <<sent, used, lapsed, edits>> /\ (disk' = <<>> \/ disk' = disk)
  BY DEF Tabs!VerifySession
<1>30. PICK m \in tab[t].memo :
         /\ m.session = tab[t].back
         /\ IF Tabs!Matches(t, m)
            THEN /\ tab' = [tab EXCEPT ![t].memo = tab[t].memo \ {m}, ![t].saved = Tabs!NoAttempt,
                                       ![t].cart = <<>>, ![t].form = NoDelivery]
                 /\ disk' = <<>>
                 /\ session' = [session EXCEPT ![tab[t].back].acknowledged = TRUE]
            ELSE /\ tab' = [tab EXCEPT ![t].memo = tab[t].memo \ {m}]
                 /\ UNCHANGED <<disk, session>>
  BY Zenon DEF Tabs!VerifySession
<1>3. IF Tabs!Matches(t, m)
      THEN /\ tab' = [tab EXCEPT ![t].memo = tab[t].memo \ {m}, ![t].saved = Tabs!NoAttempt,
                                 ![t].cart = <<>>, ![t].form = NoDelivery]
           /\ session' = [session EXCEPT ![id].acknowledged = TRUE]
      ELSE /\ tab' = [tab EXCEPT ![t].memo = tab[t].memo \ {m}]
           /\ session' = session
  BY <1>1, <1>30
<1>4. /\ sent \in SUBSET SentRow /\ session \in [Tabs!Attempt -> RecordRow]
      /\ used \in Tabs!Ids /\ edits \in 0..MaxEdits
      /\ DOMAIN tab = CustomerTab /\ RowTyped(tab[t]) /\ DOMAIN tab[t] = TabFields
  BY AttemptTyped DEF AttemptInv, AttemptTypes
<1>5. 0 \in Tabs!Ids /\ <<>> \in Tabs!Carts /\ id \in Tabs!Attempt
  <2>1. 0 \in Tabs!Ids /\ <<>> \in Tabs!Carts
    BY AttemptTyped, CartsChange DEF Tabs!Ids, Tabs!CheckoutAttemptAssumption
  <2>2. id \in 1..used /\ used \in 0..MaxAttempts /\ MaxAttempts \in Nat
    BY <1>1, <1>2 DEF AttemptInv, AttemptTypes, PagesAgree, Tabs!CheckoutAttemptAssumption
  <2> QED BY <2>1, <2>2 DEF Tabs!Attempt
<1>6. disk' \in Tabs!Carts
  BY <1>2, <1>5, AttemptTyped
<1>7. CASE Tabs!Matches(t, m)
  <2>1. /\ \A u \in CustomerTab : u # t => tab'[u] = tab[u]
        /\ row.page = tab[t].page /\ row.saved = Tabs!NoAttempt /\ row.cart = <<>>
        /\ row.form = NoDelivery /\ row.back = tab[t].back /\ row.memo = tab[t].memo \ {m}
        /\ row.pay = tab[t].pay
    BY <1>1, <1>3, <1>4, <1>7 DEF TabFields
  <2>2. Tabs!NoAttempt \in [id : Tabs!Ids, signature : SUBSET Item]
    BY <1>5 DEF Tabs!NoAttempt
  <2>3. RowTyped(row)
    BY <1>4, <1>5, <2>1, <2>2 DEF RowTyped
  <2>4. PICK rec \in RecordRow : rec = session[id]
    BY <1>4, <1>5
  <2>5. TRUE \in BOOLEAN
    OBVIOUS
  <2>6. [rec EXCEPT !.acknowledged = TRUE] \in RecordRow
    BY <2>5 DEF RecordRow
  <2>7. session' = [session EXCEPT ![id] = [rec EXCEPT !.acknowledged = TRUE]]
    BY <1>3, <1>7, <2>4
  <2>8. session' \in [Tabs!Attempt -> RecordRow]
    BY <1>4, <2>6, <2>7
  <2> QED BY <1>1, <1>2, <1>4, <1>6, <2>1, <2>3, <2>8, RowTypedAfter
<1>8. CASE ~Tabs!Matches(t, m)
  <2>1. /\ \A u \in CustomerTab : u # t => tab'[u] = tab[u]
        /\ row.page = tab[t].page /\ row.saved = tab[t].saved /\ row.cart = tab[t].cart
        /\ row.form = tab[t].form /\ row.back = tab[t].back /\ row.memo = tab[t].memo \ {m}
        /\ row.pay = tab[t].pay /\ session' = session
    BY <1>1, <1>3, <1>4, <1>8 DEF TabFields
  <2>2. RowTyped(row)
    BY <1>4, <2>1 DEF RowTyped
  <2> QED BY <1>1, <1>2, <1>4, <1>6, <2>1, <2>2, RowTypedAfter
<1> QED BY <1>7, <1>8

LEMMA TimeTyped ==
  ASSUME Tabs!CheckoutAttemptAssumption, AttemptInv, Tabs!TypeOK,
         \/ \E t \in CustomerTab : Tabs!AttemptExpires(t)
         \/ \E a \in Tabs!Attempt : Tabs!SessionExpires(a)
         \/ UNCHANGED Tabs!vars
  PROVE  Tabs!TypeOK'
<1>0. /\ disk \in Tabs!Carts /\ sent \in SUBSET SentRow /\ session \in [Tabs!Attempt -> RecordRow]
      /\ used \in 0..MaxAttempts /\ used \in Tabs!Ids /\ edits \in 0..MaxEdits /\ lapsed \in SUBSET Tabs!Attempt
      /\ \A t \in CustomerTab : RowTyped(tab[t]) /\ tab[t].saved.id \in 0..used
      /\ Tabs!Attempt = 1..MaxAttempts
  BY AttemptTyped DEF AttemptInv, AttemptTypes, Tabs!Attempt
<1>1. ASSUME NEW t \in CustomerTab, Tabs!AttemptExpires(t)
      PROVE  Tabs!TypeOK'
  <2>1. /\ UNCHANGED <<disk, tab, sent, session, used, edits>> /\ tab[t].saved.id # 0
        /\ lapsed' = lapsed \union {tab[t].saved.id}
    BY <1>1 DEF Tabs!AttemptExpires
  <2>2. tab[t].saved.id \in 1..MaxAttempts
    BY <1>0, <2>1 DEF Tabs!CheckoutAttemptAssumption
  <2> QED BY <1>0, <2>1, <2>2, TypedAfter
<1>2. ASSUME NEW a \in Tabs!Attempt, Tabs!SessionExpires(a)
      PROVE  Tabs!TypeOK'
  <2>1. PICK rec \in RecordRow : rec = session[a]
    BY <1>0
  <2>2. [rec EXCEPT !.status = "expired"] \in RecordRow
    BY DEF RecordRow
  <2>3. /\ session' = [session EXCEPT ![a] = [rec EXCEPT !.status = "expired"]]
        /\ UNCHANGED <<disk, tab, sent, used, lapsed, edits>>
    BY <1>2, <2>1 DEF Tabs!SessionExpires
  <2>4. session' \in [Tabs!Attempt -> RecordRow]
    BY <1>0, <2>2, <2>3
  <2> QED BY <1>0, <2>3, <2>4, TypedAfter
<1>3. CASE UNCHANGED Tabs!vars
  BY <1>0, <1>3, TypedAfter DEF Tabs!vars
<1> QED BY <1>1, <1>2, <1>3

LEMMA NextAttemptTyped ==
  ASSUME Tabs!CheckoutAttemptAssumption, AttemptInv, Tabs!TypeOK, [Tabs!Next]_(Tabs!vars)
  PROVE  Tabs!TypeOK'
BY EditTyped, PayTyped, AnswerTyped, PaymentTyped, BackTyped, TimeTyped DEF Tabs!Next

-----------------------------------------------------------------------------
(* CheckoutSteps *)

\* Every entry of the history but the first was a link that was followed, the one
\* on its way counted; the details that were taken are as the form takes them.
LinksFollowed ==
  /\ history \in Seq(Steps!Step) /\ at \in 1..Len(history) /\ pushes \in Nat
  /\ pending \in [kind : {"none", "push", "replace"}, to : Steps!Step]
  /\ Len(history) <= 1 + pushes /\ (pending.kind = "push" => Len(history) <= pushes)
DetailsTaken ==
  /\ hasMounted \in BOOLEAN /\ items \in BOOLEAN
  /\ shippingForm \in [FormField -> Steps!Value]
  /\ shippingForm = Steps!NoDetails \/ \A f \in FormField : shippingForm[f] \in {"NY", "CA"}
  /\ values \in [FormField -> Steps!Value] /\ errors \in SUBSET FormField
StepsInv == LinksFollowed /\ DetailsTaken

LEMMA InitStepsInv ==
  ASSUME Steps!Init
  PROVE  StepsInv
<1> USE DEF Steps!Init
<1>1. LinksFollowed
  <2>1. PICK s \in Steps!Step : history = <<s>>
    OBVIOUS
  <2>2. history \in Seq(Steps!Step) /\ Len(history) = 1
    BY <2>1
  <2>3. pending \in [kind : {"none", "push", "replace"}, to : Steps!Step] /\ pending.kind = "none"
    BY DEF Steps!Idle, Steps!Step
  <2> QED BY <2>2, <2>3 DEF LinksFollowed
<1>2. DetailsTaken
  BY DEF DetailsTaken, Steps!NoDetails, Steps!Blank, Steps!Value
<1> QED BY <1>1, <1>2 DEF StepsInv

\* The address a page corrects to, if it does.
LEMMA CorrectType ==
  ASSUME NEW step, NEW mounted, NEW has, NEW details
  PROVE  /\ Steps!Correct(step, mounted, has, details) \in [kind : {"none", "push", "replace"}, to : Steps!Step]
         /\ Steps!Correct(step, mounted, has, details).kind # "push"
<1> DEFINE active == Steps!Active(step, mounted, has, details)
<1>1. Steps!Href(active) \in Steps!Step
  BY DEF Steps!Href, Steps!Spelled, Steps!Step
<1>2. Steps!Idle \in [kind : {"none", "push", "replace"}, to : Steps!Step] /\ Steps!Idle.kind = "none"
  BY DEF Steps!Idle, Steps!Step
<1> HIDE DEF active
<1>3. Steps!Correct(step, mounted, has, details) \in
        {[kind |-> "replace", to |-> Steps!Href(active)], Steps!Idle}
  BY DEF Steps!Correct, active
<1> QED BY <1>1, <1>2, <1>3

LEMMA PushedType ==
  ASSUME NEW step
  PROVE  Steps!Pushed(step) \in [kind : {"none", "push", "replace"}, to : Steps!Step]
BY DEF Steps!Pushed, Steps!Spelled, Steps!Step

\* What becomes of a page adds no link.
LEMMA BecomesCorrected ==
  ASSUME NEW step, NEW mounted, NEW has, NEW details, Steps!Becomes(step, mounted, has, details)
  PROVE  /\ pending' \in [kind : {"none", "push", "replace"}, to : Steps!Step] /\ pending'.kind # "push"
         /\ hasMounted' = mounted /\ items' = has /\ shippingForm' = details
         /\ <<values', errors'>> \in {<<details, {}>>, <<values, errors>>}
BY CorrectType DEF Steps!Becomes, Steps!Mounts

LEMMA NextLinksFollowed ==
  ASSUME Steps!CheckoutStepsAssumption, StepsInv, [Steps!Next]_(Steps!vars)
  PROVE  LinksFollowed'
<1>0. /\ history \in Seq(Steps!Step) /\ at \in 1..Len(history) /\ pushes \in Nat /\ Len(history) \in Nat
      /\ pending \in [kind : {"none", "push", "replace"}, to : Steps!Step]
      /\ Len(history) <= 1 + pushes
      /\ pending.kind = "push" => Len(history) <= pushes
  BY DEF StepsInv, LinksFollowed
<1>1. ASSUME history' = history, pushes' = pushes, at' \in 1..Len(history),
             pending' \in [kind : {"none", "push", "replace"}, to : Steps!Step], pending'.kind # "push"
      PROVE  LinksFollowed'
  BY <1>0, <1>1 DEF LinksFollowed, Steps!Step
<1>2. ASSUME history' = history, at' = at, pushes' = pushes + 1,
             pending' \in [kind : {"none", "push", "replace"}, to : Steps!Step]
      PROVE  LinksFollowed'
  <2>1. pushes' \in Nat /\ Len(history) <= pushes' /\ Len(history) <= 1 + pushes'
    BY ONLY <1>0, pushes' = pushes + 1
  <2>2. history' \in Seq(Steps!Step) /\ at' \in 1..Len(history') /\ Len(history') = Len(history)
    BY <1>0, <1>2
  <2> QED BY <1>2, <2>1, <2>2 DEF LinksFollowed, Steps!Step
<1>3. ASSUME UNCHANGED <<history, at, pushes, pending>>
      PROVE  LinksFollowed'
  BY <1>0, <1>3 DEF LinksFollowed, Steps!Step
<1>4. CASE Steps!Mount
  BY <1>0, <1>1, <1>4, BecomesCorrected DEF Steps!Mount
<1>5. CASE Steps!Navigate
  <2>1. /\ pushes' = pushes /\ pending.to \in Steps!Step
        /\ pending' \in [kind : {"none", "push", "replace"}, to : Steps!Step] /\ pending'.kind # "push"
    BY <1>0, <1>5, BecomesCorrected DEF Steps!Navigate
  <2>2. CASE Steps!Adds
    <3>1. history' = Append(SubSeq(history, 1, at), pending.to) /\ at' = at + 1
      BY <1>5, <2>2 DEF Steps!Navigate
    <3>2. SubSeq(history, 1, at) \in Seq(Steps!Step) /\ Len(SubSeq(history, 1, at)) = at
      BY <1>0
    <3>3. history' \in Seq(Steps!Step) /\ Len(history') = at + 1
      BY <2>1, <3>1, <3>2
    <3>4. Len(history) <= pushes
      BY <1>0, <2>2 DEF Steps!Adds
    <3>5. Len(history') <= 1 + pushes' /\ pushes' \in Nat /\ at' \in 1..Len(history')
      BY <1>0, <2>1, <3>1, <3>3, <3>4
    <3> QED BY <2>1, <3>3, <3>5 DEF LinksFollowed, Steps!Step
  <2>3. CASE ~Steps!Adds
    <3>1. history' = [history EXCEPT ![at] = pending.to] /\ at' = at
      BY <1>5, <2>3 DEF Steps!Navigate
    <3>2. history' \in Seq(Steps!Step) /\ Len(history') = Len(history)
      BY <1>0, <2>1, <3>1
    <3> QED BY <1>0, <2>1, <3>1, <3>2 DEF LinksFollowed, Steps!Step
  <2> QED BY <2>2, <2>3
<1>6. CASE Steps!FollowButton
  BY <1>2, <1>6, PushedType DEF Steps!FollowButton, Steps!Push, Steps!Follow
<1>7. CASE Steps!handleShippingForm
  <2>1. history' = history /\ at' = at
    BY <1>7 DEF Steps!handleShippingForm
  <2>2. CASE Steps!Valid(values)
    <3>1. pushes' = pushes + 1
      BY <1>7, <2>2 DEF Steps!handleShippingForm, Steps!Follow
    <3>2. pending' \in {Steps!Correct(history[at], TRUE, items, shippingForm'), Steps!Pushed(3)}
      BY <1>7, <2>2 DEF Steps!handleShippingForm
    <3>3. Steps!Correct(history[at], TRUE, items, shippingForm') \in
            [kind : {"none", "push", "replace"}, to : Steps!Step]
      BY CorrectType
    <3>4. Steps!Pushed(3) \in [kind : {"none", "push", "replace"}, to : Steps!Step]
      BY PushedType
    <3> QED BY <1>2, <2>1, <3>1, <3>2, <3>3, <3>4
  <2>3. CASE ~Steps!Valid(values)
    BY <1>3, <1>7, <2>1, <2>3 DEF Steps!handleShippingForm
  <2> QED BY <2>2, <2>3
<1>8. ASSUME NEW n \in DOMAIN history, Steps!GoTo(n)
      PROVE  LinksFollowed'
  <2>1. at' = n /\ n \in 1..Len(history)
    BY <1>0, <1>8 DEF Steps!GoTo
  <2> QED BY <1>1, <1>8, <2>1, BecomesCorrected DEF Steps!GoTo
<1>9. ASSUME NEW has, NEW paidFor, Steps!Load(has, paidFor)
      PROVE  LinksFollowed'
  <2>1. Steps!Idle \in [kind : {"none", "push", "replace"}, to : Steps!Step] /\ Steps!Idle.kind = "none"
    BY DEF Steps!Idle, Steps!Step
  <2> QED BY <1>0, <1>1, <1>9, <2>1 DEF Steps!Load
<1>10. CASE Steps!RemoveItems \/ \E f \in FormField, v \in Steps!Value : Steps!updateField(f, v)
  BY <1>3, <1>10 DEF Steps!RemoveItems, Steps!updateField
<1>11. CASE UNCHANGED Steps!vars
  BY <1>3, <1>11 DEF Steps!vars
<1> QED BY <1>4, <1>5, <1>6, <1>7, <1>8, <1>9, <1>10, <1>11 DEF Steps!Next

\* What the form takes is tidy, and tidying it again changes nothing.
LEMMA TakenIsTidy ==
  ASSUME NEW form0 \in [FormField -> Steps!Value], Steps!Valid(form0)
  PROVE  /\ Steps!TidyForm(form0) \in [FormField -> Steps!Value]
         /\ \A f \in FormField : Steps!TidyForm(form0)[f] \in {"NY", "CA"}
         /\ (\A f \in FormField : form0[f] \in {"NY", "CA"}) => Steps!TidyForm(form0) = form0
<1>1. \A f \in FormField : form0[f] \in {"ny", "NY", "CA"}
  BY DEF Steps!Valid, Steps!Refused, Steps!Value
<1> QED BY <1>1 DEF Steps!TidyForm, Steps!Tidy, Steps!Value

\* What the form took, or that it took nothing, is found as it was.
LEMMA UnpaidLoadKeepsDetails ==
  ASSUME DetailsTaken, NEW has, Steps!Load(has, FALSE)
  PROVE  shippingForm' = shippingForm
<1>1. CASE Steps!Valid(shippingForm)
  <2>1. shippingForm' = Steps!TidyForm(shippingForm)
    BY <1>1 DEF Steps!Load
  <2>2. CASE shippingForm = Steps!NoDetails
    <3>1. FormField = {}
      BY <1>1, <2>2 DEF Steps!NoDetails, Steps!Blank, Steps!Valid, Steps!Refused
    <3>2. \A f \in FormField : shippingForm[f] \in {"NY", "CA"}
      BY <3>1
    <3> QED BY <1>1, <2>1, <3>2, TakenIsTidy DEF DetailsTaken
  <2>3. CASE \A f \in FormField : shippingForm[f] \in {"NY", "CA"}
    BY <1>1, <2>1, <2>3, TakenIsTidy DEF DetailsTaken
  <2> QED BY <2>2, <2>3 DEF DetailsTaken
<1>2. CASE ~Steps!Valid(shippingForm)
  <2>1. shippingForm' = Steps!NoDetails
    BY <1>2 DEF Steps!Load
  <2>2. ~\A f \in FormField : shippingForm[f] \in {"NY", "CA"}
    BY <1>2 DEF Steps!Valid, Steps!Refused
  <2> QED BY <2>1, <2>2 DEF DetailsTaken
<1> QED BY <1>1, <1>2

\* After a load there are the details there were, or, after a payment, none.
LEMMA LoadKeepsDetails ==
  ASSUME DetailsTaken, NEW has, NEW paidFor \in BOOLEAN, Steps!Load(has, paidFor)
  PROVE  shippingForm' \in {shippingForm, Steps!NoDetails}
<1>1. CASE ~paidFor
  <2>1. paidFor = FALSE
    BY <1>1
  <2>2. Steps!Load(has, FALSE)
    BY <2>1
  <2> QED BY <2>2, UnpaidLoadKeepsDetails
<1>2. CASE paidFor
  BY <1>2 DEF Steps!Load
<1> QED BY <1>1, <1>2

LEMMA NextDetailsTaken ==
  ASSUME Steps!CheckoutStepsAssumption, StepsInv, [Steps!Next]_(Steps!vars)
  PROVE  DetailsTaken'
<1>0. DetailsTaken
  BY DEF StepsInv
<1>1. ASSUME hasMounted' \in BOOLEAN, items' \in BOOLEAN, shippingForm' = shippingForm,
             <<values', errors'>> \in {<<shippingForm, {}>>, <<values, errors>>}
      PROVE  DetailsTaken'
  BY <1>0, <1>1 DEF DetailsTaken, Steps!Value, Steps!NoDetails, Steps!Blank
<1>2. CASE Steps!Mount \/ Steps!Navigate \/ \E n \in DOMAIN history : Steps!GoTo(n)
  <2>1. ASSUME NEW step, NEW mounted \in BOOLEAN, Steps!Becomes(step, mounted, items, shippingForm)
        PROVE  DetailsTaken'
    BY <1>0, <1>1, <2>1, BecomesCorrected DEF DetailsTaken
  <2>2. CASE Steps!Mount
    BY <2>1, <2>2 DEF Steps!Mount
  <2>3. hasMounted \in BOOLEAN
    BY <1>0 DEF DetailsTaken
  <2>4. CASE Steps!Navigate
    BY <2>1, <2>3, <2>4 DEF Steps!Navigate
  <2>5. CASE \E n \in DOMAIN history : Steps!GoTo(n)
    BY <2>1, <2>3, <2>5 DEF Steps!GoTo
  <2> QED BY <1>2, <2>2, <2>4, <2>5
<1>3. CASE Steps!FollowButton \/ Steps!RemoveItems
  <2>1. hasMounted' = hasMounted /\ items' \in {items, FALSE} /\ UNCHANGED <<shippingForm, values, errors>>
    BY <1>3 DEF Steps!FollowButton, Steps!RemoveItems
  <2> QED BY <1>0, <1>1, <2>1 DEF DetailsTaken
<1>4. CASE Steps!handleShippingForm
  <2>1. hasMounted' = hasMounted /\ items' = items
    BY <1>4 DEF Steps!handleShippingForm
  <2>2. CASE Steps!Valid(values)
    <3>1. shippingForm' = Steps!TidyForm(values) /\ values' = Steps!TidyForm(values) /\ errors' = {}
      BY <1>4, <2>2 DEF Steps!handleShippingForm, Steps!Parsed
    <3>2. /\ Steps!TidyForm(values) \in [FormField -> Steps!Value]
          /\ \A f \in FormField : Steps!TidyForm(values)[f] \in {"NY", "CA"}
      BY <1>0, <2>2, TakenIsTidy DEF DetailsTaken
    <3> QED BY <1>0, <2>1, <3>1, <3>2 DEF DetailsTaken, Steps!Value, Steps!NoDetails, Steps!Blank
  <2>3. CASE ~Steps!Valid(values)
    <3>1. errors' \in SUBSET FormField /\ UNCHANGED <<shippingForm, values>>
      BY <1>4, <2>3 DEF Steps!handleShippingForm
    <3> QED BY <1>0, <2>1, <3>1 DEF DetailsTaken, Steps!Value, Steps!NoDetails, Steps!Blank
  <2> QED BY <2>2, <2>3
<1>5. ASSUME NEW f \in FormField, NEW v \in Steps!Value, Steps!updateField(f, v)
      PROVE  DetailsTaken'
  <2>1. /\ values' = [values EXCEPT ![f] = v] /\ errors' \in SUBSET errors
        /\ UNCHANGED <<hasMounted, items, shippingForm>>
    BY <1>5 DEF Steps!updateField, Steps!Forgiven
  <2>2. values' \in [FormField -> Steps!Value] /\ errors' \in SUBSET FormField
    BY <1>0, <2>1 DEF DetailsTaken
  <2> QED BY <1>0, <2>1, <2>2 DEF DetailsTaken, Steps!Value, Steps!NoDetails, Steps!Blank
<1>6. ASSUME NEW has \in BOOLEAN, NEW paidFor \in BOOLEAN, Steps!Load(has, paidFor)
      PROVE  DetailsTaken'
  <2>1. shippingForm' \in {shippingForm, Steps!NoDetails}
    BY <1>0, <1>6, LoadKeepsDetails
  <2>2. Steps!NoDetails \in [FormField -> Steps!Value]
    BY DEF Steps!NoDetails, Steps!Blank, Steps!Value
  <2>3. hasMounted' = FALSE /\ items' = has /\ values' = Steps!NoDetails /\ errors' = {}
    BY <1>6 DEF Steps!Load, Steps!NoDetails
  <2> QED BY <1>0, <2>1, <2>2, <2>3 DEF DetailsTaken, Steps!Value, Steps!NoDetails, Steps!Blank
<1>7. CASE UNCHANGED Steps!vars
  BY <1>0, <1>1, <1>7 DEF Steps!vars, DetailsTaken
<1> QED BY <1>2, <1>3, <1>4, <1>5, <1>6, <1>7 DEF Steps!Next

LEMMA NextStepsInv ==
  ASSUME Steps!CheckoutStepsAssumption, StepsInv, [Steps!Next]_(Steps!vars)
  PROVE  StepsInv'
BY NextLinksFollowed, NextDetailsTaken DEF StepsInv

LEMMA BackLeavesThePage ==
  ASSUME StepsInv
  PROVE  Steps!BackLeaves
BY DEF StepsInv, LinksFollowed, Steps!BackLeaves

LEMMA StepsTyped ==
  ASSUME StepsInv
  PROVE  Steps!TypeOK
<1>1. at \in DOMAIN history
  BY DEF StepsInv, LinksFollowed
<1>2. shippingForm = Steps!NoDetails \/ \A f \in FormField : shippingForm[f] \in Steps!Value \ {""}
  BY DEF StepsInv, DetailsTaken, Steps!Value
<1> QED BY <1>1, <1>2 DEF StepsInv, LinksFollowed, DetailsTaken, Steps!TypeOK

LEMMA DetailsReloaded ==
  ASSUME StepsInv
  PROVE  Steps!ReloadKeepsDetails
BY UnpaidLoadKeepsDetails DEF StepsInv, Steps!ReloadKeepsDetails

=============================================================================
