------------------------------ MODULE CartCheck ------------------------------
(* The check of a cart against the catalogue, before a checkout is stored:  *)
(* a few workers take the lines in turn, a product is asked for once and    *)
(* the answer is shared by its lines, and the first line that cannot be had *)
(* refuses the cart while the other workers go on.  Meanwhile the catalogue *)
(* is edited, and its answers are late or fail.                             *)
EXTENDS Naturals, Sequences, FiniteSetsExt

CONSTANTS
  Products,
  Versions,      \* what a product may be: its prices and variants
  FirstVersion,
  Offers,        \* the variants of a version
  Gone,          \* a product that was deleted
  Failure,       \* an answer that is neither a product nor a 404
  Unanswered,
  Carts,         \* sequences of [id, variant]
  TooLong,       \* the variants that exceed the supported length
  Concurrency,   \* CHECKOUT_OUTBOUND_CONCURRENCY
  MaxEdits       \* bound on the edits of the catalogue

\* What is asked of the constants.
CartAssumption ==
  /\ FirstVersion \in Versions /\ DOMAIN Offers = Versions
  /\ Gone \notin Versions /\ Failure \notin Versions \cup {Gone}
  /\ Unanswered \notin Versions \cup {Gone, Failure}
  /\ Concurrency \in Nat \ {0}
  /\ \A c \in Carts : /\ Len(c) \in Nat \ {0} /\ DOMAIN c = 1 .. Len(c)
                      /\ \A i \in DOMAIN c : c[i].id \in Products

VARIABLES
  was,         \* what each product has been since the check began
  is,          \* what it is now
  edits,
  cart,
  asked,       \* productRequests, each under the first line of its product
  answer,      \* their answers
  nextIndex,
  working,     \* the line each worker is at; 0 for none
  results,     \* the product of each checked line
  outcome      \* "checking", "resolved", or why the cart was refused

catalogue == <<was, is, edits>>
vars == <<catalogue, cart, asked, answer, nextIndex, working, results, outcome>>

Lines == DOMAIN cart
Workers == 1 .. Concurrency

(* The request a line waits for: that of the first line of its product.     *)
RequestOf(i) == Min({j \in Lines : cart[j].id = cart[i].id})

Supported(c) == \A i \in DOMAIN c : c[i].variant \notin TooLong

(* The lines the workers start with.                                        *)
FirstLines(c) == {i \in DOMAIN c : i <= Concurrency}

Init ==
  /\ is = [p \in Products |-> FirstVersion]
  /\ was = [p \in Products |-> {FirstVersion}] /\ edits = 0
  /\ cart \in Carts
  /\ answer = [i \in Lines |-> Unanswered]
  /\ results = [i \in Lines |-> Unanswered]
  /\ \/ /\ Supported(cart)
        /\ outcome = "checking"
        /\ working = [w \in Workers |-> IF w \in Lines THEN w ELSE 0]
        /\ asked = {RequestOf(i) : i \in FirstLines(cart)}
        /\ nextIndex = Cardinality(FirstLines(cart)) + 1
     \/ /\ ~Supported(cart)
        /\ outcome = "unsupported"
        /\ working = [w \in Workers |-> 0]
        /\ asked = {} /\ nextIndex = 1

-----------------------------------------------------------------------------
(* The catalogue.                                                           *)

Edit(p) ==
  /\ edits < MaxEdits /\ edits' = edits + 1
  /\ \E v \in (Versions \cup {Gone}) \ {is[p]} :
       is' = [is EXCEPT ![p] = v] /\ was' = [was EXCEPT ![p] = @ \cup {v}]
  /\ UNCHANGED <<cart, asked, answer, nextIndex, working, results, outcome>>

fetchCatalogProduct(p) == {is[p], Failure}

Answer(i) ==
  /\ i \in asked /\ answer[i] = Unanswered
  /\ \E a \in fetchCatalogProduct(cart[i].id) : answer' = [answer EXCEPT ![i] = a]
  /\ UNCHANGED <<catalogue, cart, asked, nextIndex, working, results, outcome>>

-----------------------------------------------------------------------------
(* The workers.                                                             *)

Accepts(a, line) == a \in Versions /\ line.variant \in Offers[a]

Cause(a) == CASE a = Failure -> "unverified"
              [] a = Gone -> "gone"
              [] OTHER -> "variant"

(* The worker takes the next line and asks for its product, unless another  *)
(* line has; the last worker to find no line leaves the cart resolved.      *)
TakeNext(w) ==
  \/ /\ nextIndex \in Lines
     /\ working' = [working EXCEPT ![w] = nextIndex]
     /\ asked' = asked \cup {RequestOf(nextIndex)}
     /\ nextIndex' = nextIndex + 1
     /\ UNCHANGED outcome
  \/ /\ nextIndex \notin Lines
     /\ working' = [working EXCEPT ![w] = 0]
     /\ outcome' = IF outcome = "checking" /\ \A v \in Workers \ {w} : working[v] = 0
                     THEN "resolved" ELSE outcome
     /\ UNCHANGED <<asked, nextIndex>>

Told(w) == answer[RequestOf(working[w])]

Accept(w) ==
  /\ working[w] # 0 /\ Told(w) # Unanswered /\ Accepts(Told(w), cart[working[w]])
  /\ results' = [results EXCEPT ![working[w]] = Told(w)]
  /\ TakeNext(w)
  /\ UNCHANGED <<catalogue, cart, answer>>

(* The first refusal is the cart's; its worker ends, the others go on.      *)
Refuse(w) ==
  /\ working[w] # 0 /\ Told(w) # Unanswered /\ ~Accepts(Told(w), cart[working[w]])
  /\ outcome' = IF outcome = "checking" THEN Cause(Told(w)) ELSE outcome
  /\ working' = [working EXCEPT ![w] = 0]
  /\ UNCHANGED <<catalogue, cart, asked, answer, nextIndex, results>>

Next ==
  \/ \E p \in Products : Edit(p)
  \/ \E i \in Lines : Answer(i)
  \/ \E w \in Workers : Accept(w) \/ Refuse(w)

Spec == Init /\ [][Next]_vars

-----------------------------------------------------------------------------
(* Every variable has its type.                                             *)
TypeOK ==
  /\ is \in [Products -> Versions \cup {Gone}]
  /\ was \in [Products -> SUBSET (Versions \cup {Gone})]
  /\ cart \in Carts /\ asked \subseteq Lines
  /\ answer \in [Lines -> Versions \cup {Gone, Failure, Unanswered}]
  /\ results \in [Lines -> Versions \cup {Unanswered}]
  /\ nextIndex \in 1 .. Cardinality(Lines) + 1
  /\ working \in [Workers -> Lines \cup {0}]
  /\ outcome \in {"checking", "resolved", "unsupported", "unverified", "gone", "variant"}

(* A checked cart has every line, in its place, at a version its product    *)
(* had during the check and which offers the line's variant.                *)
ResolvedIsWhole ==
  outcome = "resolved" =>
    \A i \in Lines : /\ results[i] \in was[cart[i].id] \cap Versions
                     /\ cart[i].variant \in Offers[results[i]]

(* The lines of one product have one price, though the product is edited    *)
(* between the requests of the check.                                       *)
OneVersionPerProduct ==
  outcome = "resolved" =>
    \A i, j \in Lines : cart[i].id = cart[j].id => results[i] = results[j]

(* A cart is called unavailable only if one of its lines was so during the  *)
(* check: a catalogue that fails is told apart from a product that is gone. *)
RefusedForCause ==
  /\ outcome = "gone" => \E i \in Lines : Gone \in was[cart[i].id]
  /\ outcome = "variant" =>
       \E i \in Lines : \E v \in was[cart[i].id] \ {Gone} : cart[i].variant \notin Offers[v]

=============================================================================
