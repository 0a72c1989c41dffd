---------------------------- MODULE ServiceClient ----------------------------
(* The client through which the two web applications call the services      *)
(* (api-client): calls with and without an account's token, a fetch cache   *)
(* that the pages of all accounts share, a time limit, and callers that     *)
(* cancel.  A service may be slow, refuse, fail, answer nonsense or never,  *)
(* and does what it was asked also when nobody waits for it any more.       *)
EXTENDS Naturals

CONSTANTS
  Calls,       \* the calls that are made
  Accounts, Nobody,
  NoAnswer,
  MaxChanges   \* bound on the changes of what the services keep

\* What is asked of the constants.
ClientAssumption == Nobody \notin Accounts /\ MaxChanges \in Nat

Policies == {"default", "no-store", "force-cache"}

(* The operations, by what they pass on.                                    *)
CatalogRead   == [token |-> FALSE, policy |-> "caller", write |-> FALSE, rpc |-> TRUE]
CategoryRead  == [token |-> FALSE, policy |-> "caller", write |-> FALSE, rpc |-> TRUE]
Availability  == [token |-> FALSE, policy |-> "no-store", write |-> FALSE, rpc |-> TRUE]
Health        == [token |-> FALSE, policy |-> "caller", write |-> FALSE, rpc |-> FALSE]
ProductWrite  == [token |-> TRUE, policy |-> "default", write |-> TRUE, rpc |-> TRUE]
CategoryWrite == [token |-> TRUE, policy |-> "default", write |-> TRUE, rpc |-> TRUE]
OrderRead     == [token |-> TRUE, policy |-> "caller", write |-> FALSE, rpc |-> TRUE]
CheckoutCall  == [token |-> TRUE, policy |-> "default", write |-> TRUE, rpc |-> TRUE]
OpsRead       == [token |-> TRUE, policy |-> "caller", write |-> FALSE, rpc |-> TRUE]

Operation ==
  [catalog |-> CatalogRead, categories |-> CategoryRead, availability |-> Availability,
   health |-> Health, products |-> ProductWrite, category |-> CategoryWrite,
   orders |-> OrderRead, checkout |-> CheckoutCall, ops |-> OpsRead]

VARIABLES
  call,     \* of each call: what, for whom, under which policy, and where it is
  landed,   \* the writes that were done
  version,  \* of what the services keep
  cache     \* the shared fetch cache

vars == <<call, landed, version, cache>>

Unmade == [op |-> "health", by |-> Nobody, policy |-> "default", at |-> "unmade", since |-> 0,
           atService |-> FALSE, outcome |-> "none", answer |-> NoAnswer]
Op(c) == Operation[call[c].op]

Init ==
  /\ call = [c \in Calls |-> Unmade] /\ landed = {} /\ version = 0
  /\ cache = [o \in DOMAIN Operation |-> NoAnswer]

(* (of a variant) What the caller says.                                     *)
CallersPolicy(op, policy) == IF op.policy = "caller" THEN policy ELSE op.policy

(* "Authenticated data must never enter a shared Next.js fetch cache."      *)
fetchCache(op, policy) ==
  IF op.token THEN "no-store" ELSE IF op.policy = "caller" THEN policy ELSE op.policy

(* Every failure of a procedure call is an ApiClientError, with the status  *)
(* the service gave, or 500; the health calls pass fetch's own errors on.   *)
toApiClientError(op, what) ==
  CASE what = "answer" -> "ok"
    [] what = "refusal" -> "refused"
    [] what \in {"failure", "nonsense"} -> "failed"
    [] what \in {"lost", "cancelled"} -> IF op.rpc THEN "failed" ELSE "raw"

-----------------------------------------------------------------------------
Told(c, what, answer) ==
  [call[c] EXCEPT !.at = "told", !.outcome = toApiClientError(Op(c), what), !.answer = answer]

(* A call is answered from the cache if its policy lets it.                 *)
Ask(c) ==
  /\ call[c].at = "unmade"
  /\ \E o \in DOMAIN Operation, p \in Policies, a \in Accounts \cup {Nobody} :
       LET op == Operation[o]
           cached == fetchCache(op, p) = "force-cache" /\ cache[o] # NoAnswer IN
       /\ op.token <=> a # Nobody
       /\ op.policy # "caller" => p = "default"
       /\ call' = [call EXCEPT ![c] =
            [Unmade EXCEPT !.op = o, !.by = a, !.policy = p, !.since = version,
                           !.at = IF cached THEN "told" ELSE "waiting",
                           !.atService = ~cached,
                           !.outcome = IF cached THEN "ok" ELSE "none",
                           !.answer = IF cached THEN cache[o] ELSE NoAnswer]]
  /\ UNCHANGED <<landed, version, cache>>

(* What comes back reaches a caller that still waits.                       *)
Hears(c, what, answer) ==
  call' = [call EXCEPT ![c] = [IF @.at = "waiting" THEN Told(c, what, answer) ELSE @
                                 EXCEPT !.atService = FALSE]]

(* What was asked for is done and answered, or the answer is spoilt.        *)
Answer(c) ==
  LET op == Op(c)
      stored == IF op.write /\ version < MaxChanges THEN version + 1 ELSE version
      answer == [for |-> call[c].by, version |-> stored] IN
  /\ call[c].atService
  /\ op.write => version < MaxChanges
  /\ version' = stored
  /\ landed' = IF op.write THEN landed \cup {c} ELSE landed
  /\ \/ /\ Hears(c, "answer", answer)
        /\ cache' = IF fetchCache(op, call[c].policy) = "force-cache" /\ call[c].at = "waiting"
                      THEN [cache EXCEPT ![call[c].op] = answer] ELSE cache
     \/ /\ \E what \in {"nonsense", "failure", "lost"} : Hears(c, what, NoAnswer)
        /\ UNCHANGED cache

(* A refusal is given instead of what was asked for; so may be a failure,   *)
(* among which is the service's own 408.                                    *)
RefuseOrFail(c) ==
  /\ call[c].atService
  /\ \E what \in {"refusal", "failure", "lost"} : Hears(c, what, NoAnswer)
  /\ UNCHANGED <<landed, version, cache>>

(* requestSignal: 15 seconds, for every call.                               *)
Bounded(c) == call[c].at = "waiting"

TimeOut(c) ==
  /\ Bounded(c)
  /\ call' = [call EXCEPT ![c] = Told(c, "lost", NoAnswer)]
  /\ UNCHANGED <<landed, version, cache>>

(* The page is left, or its request is over.                                *)
Cancel(c) ==
  /\ call[c].at = "waiting" /\ Op(c).policy = "caller"
  /\ call' = [call EXCEPT ![c] = Told(c, "cancelled", NoAnswer)]
  /\ UNCHANGED <<landed, version, cache>>

(* Others change what the services keep.                                    *)
Change ==
  /\ version < MaxChanges /\ version' = version + 1 /\ UNCHANGED <<call, landed, cache>>

Next ==
  \/ \E c \in Calls : Ask(c) \/ Answer(c) \/ RefuseOrFail(c) \/ TimeOut(c) \/ Cancel(c)
  \/ Change

Spec == Init /\ [][Next]_vars

-----------------------------------------------------------------------------
(* Every variable has its type; only a health call may end with an error    *)
(* that is not an ApiClientError.                                           *)
TypeOK ==
  /\ \A c \in Calls :
       /\ call[c].op \in DOMAIN Operation /\ call[c].by \in Accounts \cup {Nobody}
       /\ call[c].policy \in Policies /\ call[c].at \in {"unmade", "waiting", "told"}
       /\ call[c].since \in 0 .. MaxChanges /\ call[c].atService \in BOOLEAN
       /\ call[c].outcome \in {"none", "ok", "refused", "failed"} \cup
            IF Op(c).rpc THEN {} ELSE {"raw"}
  /\ landed \subseteq Calls /\ version \in 0 .. MaxChanges
  /\ \A o \in DOMAIN cache : cache[o] # NoAnswer => cache[o].for \in Accounts \cup {Nobody}

(* What a page is given under an account's token was made for that account, *)
(* whatever policy the pages ask for and whoever asked before.              *)
OwnDataOnly ==
  \A c \in Calls : call[c].outcome = "ok" => call[c].answer.for = call[c].by

(* The stock a page shows, all that is asked with a token, and whatever the *)
(* page wants fresh, is no older than the call.                             *)
FreshWhereItMatters ==
  \A c \in Calls :
    call[c].outcome = "ok" /\ (call[c].by # Nobody \/ call[c].op = "availability"
                                \/ call[c].policy = "no-store")
      => call[c].answer.version >= call[c].since

(* A write that is said to have been refused was not done, and will not be; *)
(* of one that failed this cannot be said.                                  *)
RefusedIsNotDone ==
  \A c \in Calls : call[c].outcome = "refused" => c \notin landed

(* Every call ends, though a service never answers.                         *)
SomeoneWaits == \E c \in Calls : call[c].at = "waiting"
=============================================================================
