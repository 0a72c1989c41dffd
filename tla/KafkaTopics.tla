----------------------------- MODULE KafkaTopics -----------------------------
(***************************************************************************)
(* How the topics come to exist (kafka/src/admin.ts and the bootstraps of    *)
(* the three services).  Brokers create no topic by themselves: each         *)
(* service makes sure of its own before it attaches, at the same time as     *)
(* the others, and in several calls of an administration client.            *)
(***************************************************************************)
EXTENDS Integers, FiniteSets

CONSTANTS
  Brokers,    \* size of the cluster
  Replicas, Minima, \* what the environment may set; 0: nothing
  MaxOutages, MaxFaults, MaxRestarts  \* bounds: broker changes, failed calls, restarts

\* What is asked of the constants.
KafkaTopicsAssumption ==
  /\ Brokers \in Nat \ {0} /\ Replicas \union Minima \subseteq Nat
  /\ {MaxOutages, MaxFaults, MaxRestarts} \subseteq Nat

VARIABLES
  env,        \* replication factor and minimum of in-sync replicas as set; 0: not set
  live,       \* brokers that answer
  topics,     \* topic -> its replication, or none
  proc,       \* where each service is
  open,       \* administration connections each has open
  published,  \* the outbox relay has published
  outages, faults, restarts

bounds == <<outages, faults, restarts>>
vars == <<env, live, topics, proc, open, published, bounds>>

Service == {"product", "order", "payment"}
\* "product" stands for the three product topics, sent and deleted alike.
Topic == {"product", "checkout", "paid", "payment dead letters", "order dead letters"}
Absent == [replicas |-> 0, min |-> 0]
Existing == {t \in Topic : topics[t] # Absent}

OwnTopics(s) ==
  CASE s = "product" -> {"product"}
    [] s = "order" -> {"paid"}
    [] s = "payment" -> {"product", "checkout", "paid"}

DeadLetters(s) ==
  CASE s = "product" -> {}
    [] s = "order" -> {"order dead letters"}
    [] s = "payment" -> {"payment dead letters"}

Subscribed(s) ==
  CASE s = "product" -> {} [] s = "order" -> {"paid"} [] s = "payment" -> {"product", "checkout"}

\* readKafkaTopicDefaults
Defaults ==
  LET replicas == IF env.replicas = 0 THEN 3 ELSE env.replicas IN
  [replicas |-> replicas,
   min |-> IF env.min # 0 THEN env.min ELSE IF replicas >= 3 THEN 2 ELSE 1]
Sound == Defaults.min <= Defaults.replicas

-----------------------------------------------------------------------------
(* ensureTopics *)

Resting == [stage |-> "own", at |-> "idle", missing |-> {}, ok |-> TRUE, attached |-> FALSE]
Wanted(s) == IF proc[s].stage = "own" THEN OwnTopics(s) ELSE DeadLetters(s)

Init ==
  /\ env \in [replicas : Replicas, min : Minima]
  /\ live = Brokers
  /\ topics = [t \in Topic |-> Absent]
  /\ proc = [s \in Service |-> Resting]
  /\ open = [s \in Service |-> 0]
  /\ published = FALSE
  /\ outages = 0 /\ faults = 0 /\ restarts = 0

\* A call fails: no broker answers, or for a reason of its own.
Fault == IF live = 0 THEN UNCHANGED faults ELSE faults < MaxFaults /\ faults' = faults + 1

At(s, at) == [proc EXCEPT ![s].at = at]
\* What follows a failure: the finally of ensureTopics.
Failed(s) == [proc EXCEPT ![s].at = "close", ![s].ok = FALSE]

Connect(s) ==
  /\ proc[s].at = "connect"
  /\ \/ /\ live # 0
        /\ proc' = At(s, "cluster") /\ open' = [open EXCEPT ![s] = @ + 1] /\ UNCHANGED faults
     \/ /\ Fault
        /\ proc' = [proc EXCEPT ![s].at = "done", ![s].ok = FALSE] /\ UNCHANGED open
  /\ UNCHANGED <<env, live, topics, published, outages, restarts>>

\* The settings, and enough brokers for them.
DescribeCluster(s) ==
  /\ proc[s].at = "cluster"
  /\ \/ Sound /\ live >= Defaults.replicas /\ proc' = At(s, "list") /\ UNCHANGED faults
     \/ (~Sound \/ live < Defaults.replicas) /\ proc' = Failed(s) /\ UNCHANGED faults
     \/ Fault /\ proc' = Failed(s)
  /\ UNCHANGED <<env, live, topics, open, published, outages, restarts>>

ListTopics(s) ==
  LET missing == Wanted(s) \ Existing IN
  /\ proc[s].at = "list"
  /\ \/ /\ live # 0 /\ UNCHANGED faults
        /\ proc' = [proc EXCEPT ![s].missing = missing, ![s].at = IF missing = {} THEN "close" ELSE "create"]
     \/ Fault /\ proc' = Failed(s)
  /\ UNCHANGED <<env, live, topics, open, published, outages, restarts>>

\* Topics that another service has made meanwhile stay as they are.  A failure
\* may follow the creation of some.
Created(made) == [t \in Topic |-> IF t \in made \ Existing THEN Defaults ELSE topics[t]]
CreateTopics(s) ==
  /\ proc[s].at = "create"
  /\ \/ live >= Defaults.replicas /\ topics' = Created(proc[s].missing) /\ proc' = At(s, "close") /\ UNCHANGED faults
     \/ /\ Fault /\ proc' = Failed(s)
        /\ \E made \in SUBSET proc[s].missing :
             /\ made = {} \/ live >= Defaults.replicas
             /\ topics' = Created(made)
     \/ live < Defaults.replicas /\ proc' = Failed(s) /\ UNCHANGED <<topics, faults>>
  /\ UNCHANGED <<env, live, open, published, outages, restarts>>

Disconnect(s) ==
  /\ proc[s].at = "close"
  /\ proc' = At(s, "done") /\ open' = [open EXCEPT ![s] = @ - 1]
  /\ UNCHANGED <<env, live, topics, published, bounds>>

-----------------------------------------------------------------------------
(* The services *)

\* order retries with a delay, payment every five seconds whether it is attached
\* or not; product does not come back to it.
Begin(s) ==
  /\ proc[s].at = "idle"
  /\ s = "order" => ~proc[s].attached
  /\ proc' = [proc EXCEPT ![s].at = "connect", ![s].stage = "own", ![s].ok = TRUE]
  /\ UNCHANGED <<env, live, topics, open, published, bounds>>

After(s) == IF s = "product" THEN "over" ELSE "idle"

Attach(s) ==
  /\ live # 0 /\ Subscribed(s) \subseteq Existing
  /\ proc' = [proc EXCEPT ![s].at = After(s), ![s].attached = TRUE] /\ UNCHANGED faults

Proceed(s) ==
  /\ proc[s].at = "done"
  /\ IF ~proc[s].ok \/ (proc[s].attached /\ s # "product")
     THEN proc' = At(s, After(s)) /\ UNCHANGED faults
     ELSE IF proc[s].stage = "own" /\ s # "product"
     THEN proc' = [proc EXCEPT ![s].at = "connect", ![s].stage = "dead"] /\ UNCHANGED faults
     ELSE \/ Attach(s)
          \/ Fault /\ proc' = At(s, After(s))
  /\ UNCHANGED <<env, live, topics, open, published, outages, restarts>>

\* The relay runs whatever became of the bootstrap; what fails is tried again.
Publish ==
  /\ proc["product"].at = "over"
  /\ topics["product"] # Absent /\ live >= topics["product"].min
  /\ published' = TRUE
  /\ UNCHANGED <<env, live, topics, proc, open, bounds>>

BrokersChange(n) ==
  /\ n # live /\ outages < MaxOutages
  /\ live' = n /\ outages' = outages + 1
  /\ UNCHANGED <<env, topics, proc, open, published, faults, restarts>>

Restart(s) ==
  /\ restarts < MaxRestarts /\ restarts' = restarts + 1
  /\ proc' = [proc EXCEPT ![s] = Resting] /\ open' = [open EXCEPT ![s] = 0]
  /\ UNCHANGED <<env, live, topics, published, outages, faults>>

Call(s) == Connect(s) \/ DescribeCluster(s) \/ ListTopics(s) \/ CreateTopics(s) \/ Disconnect(s)

Next ==
  \/ \E s \in Service : Begin(s) \/ Call(s) \/ Proceed(s) \/ Restart(s)
  \/ Publish
  \/ \E n \in {0, Brokers - 1, Brokers} : BrokersChange(n)

Spec == Init /\ [][Next]_vars

\* Timers fire, and calls end one way or the other.
GoesOn(s) == Begin(s) \/ Call(s) \/ Proceed(s)

-----------------------------------------------------------------------------
(* Properties *)

\* A topic is never created so that it could not be written to.
TypeOK ==
  /\ live \in 0..Brokers
  /\ \A t \in Existing : topics[t].min \in 1..topics[t].replicas
  /\ proc \in [Service -> [stage : {"own", "dead"}, missing : SUBSET Topic, ok : BOOLEAN, attached : BOOLEAN,
                           at : {"idle", "connect", "cluster", "list", "create", "close", "done", "over"}]]

\* A consumer that runs has its topics and the place for what it cannot handle,
\* however the creations overlapped and wherever one of them broke off.
AttachedHasItsTopics ==
  \A s \in Service \ {"product"} : proc[s].attached =>
    /\ Subscribed(s) \subseteq Existing
    /\ (IF s = "order" THEN "order dead letters" ELSE "payment dead letters") \in Existing

\* No call leaves a connection behind: one is open only during a call.
NoConnectionLeft ==
  \A s \in Service : open[s] = IF proc[s].at \in {"cluster", "list", "create", "close"} THEN 1 ELSE 0

\* Once the brokers stay up, both consumers run and the outbox is published,
\* even if product-service never came to make its topics.
BrokersStay == Sound /\ live = Brokers /\ outages = MaxOutages
EverythingAttached == proc["order"].attached /\ proc["payment"].attached /\ published
=============================================================================
