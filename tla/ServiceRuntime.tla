--------------------------- MODULE ServiceRuntime ---------------------------
(***************************************************************************)
(* The life of one service process: bootstrap and its retries, background   *)
(* loops, readiness, and the ordered drain under a deadline.  The three     *)
(* services share shutdown.ts and background.ts and differ in their index.ts *)
(* by the activities they run and the steps of their drain.                 *)
(***************************************************************************)
EXTENDS Integers, FiniteSets, Sequences, SequencesExt

CONSTANTS
  MaxFlips,   \* bound on outages of the storage and of the broker
  MaxFaults   \* bound on closing steps that throw

\* What is asked of the constants.
RuntimeAssumption == MaxFlips \in Nat /\ MaxFaults \in Nat

VARIABLES
  service,    \* which of the three this process is
  up,         \* the outside systems that answer
  migrated,   \* the storage has its tables and its indexes
  linked,     \* order: mongoose has connected once and reconnects by itself
  boot,       \* where bootstrap is
  on,         \* the activities that may begin work: scheduled, or accepting
  busy,       \* the activities with work in hand
  closed,     \* the dependencies that were closed
  ready,      \* the required dependencies marked ready
  drain,      \* the shutdown: its step, whether that step has run, whether one failed
  phase,      \* "up", "draining", or how the process ended
  flips,
  faults

outside == <<service, up, migrated, flips>>
vars == <<outside, linked, boot, on, busy, closed, ready, drain, phase, faults>>

Service == {"product", "order", "payment"}

\* The drain of each service, step by step.
Steps(s) ==
  CASE s = "product" -> <<"http", "health", "bootstrap", "relay", "producer", "inventory", "database">>
    [] s = "order"   -> <<"http", "health", "bootstrap", "consumer", "database">>
    [] s = "payment" -> <<"http", "tasks", "workers", "consumer", "producer", "database">>

\* The activities a step stops and waits for, and the dependencies it closes.
Stops(step) ==
  CASE step = "tasks" -> {"monitor", "kafka", "reconcile"}
    [] step \in {"producer", "inventory", "database"} -> {}
    [] OTHER -> {step}
Closes(step) == {step} \cap {"consumer", "producer", "inventory", "database"}

Awaited(s) == UNION {Stops(step) : step \in ToSet(Steps(s))}
Closable(s) == UNION {Closes(step) : step \in ToSet(Steps(s))}

\* What an activity calls.  "abandoned" is the handler of a request that the
\* timeout middleware has already answered: nobody waits for it.
Uses(a) ==
  CASE a \in {"http", "abandoned"} -> {"inventory", "database"}
    [] a = "health" -> {"inventory", "database"}
    [] a = "bootstrap" -> {"inventory", "database", "producer", "consumer"}
    [] a \in {"relay", "workers"} -> {"producer", "database"}
    [] a = "kafka" -> {"producer", "consumer", "database"}
    [] a \in {"monitor", "reconcile", "consumer"} -> {"database"}

Required(s) == IF s = "payment" THEN {"database", "stripe.webhook"} ELSE {"database"}
IsReady == Required(service) \subseteq ready
Draining == phase = "draining"
Alive == phase \in {"up", "draining"}

Loops(s) ==
  CASE s = "product" -> {"health"}
    [] s = "order" -> {"health"}
    [] s = "payment" -> {"monitor", "kafka", "reconcile", "workers"}

NoDrain == [step |-> 0, asked |-> FALSE, failed |-> FALSE]

Init ==
  /\ service \in Service
  /\ up \in SUBSET {"database", "kafka"}
  /\ migrated \in BOOLEAN
  /\ linked = (service # "order")
  /\ boot = IF service = "payment" THEN "done" ELSE "storage"
  /\ on = {"http"} \union Loops(service)
  /\ busy = IF service = "payment" THEN {} ELSE {"bootstrap"}
  /\ closed = {}
  /\ ready = {}
  /\ drain = NoDrain
  /\ phase = "up"
  /\ flips = 0
  /\ faults = 0

-----------------------------------------------------------------------------
(* The outside *)

Flip(x) ==
  /\ flips < MaxFlips
  /\ flips' = flips + 1
  /\ up' = IF x \in up THEN up \ {x} ELSE up \union {x}
  /\ UNCHANGED <<service, migrated, linked, boot, on, busy, closed, ready, drain, phase, faults>>

\* The deployment of tables and indexes, late.
Migrate ==
  /\ ~migrated
  /\ migrated' = TRUE
  /\ UNCHANGED <<service, up, flips, linked, boot, on, busy, closed, ready, drain, phase, faults>>

-----------------------------------------------------------------------------
(* Work *)

\* A request, a tick of a loop, a message or a pass of a worker.
Begin(a) ==
  /\ Alive
  /\ a \in on \ busy
  /\ busy' = busy \union {a}
  /\ UNCHANGED <<outside, linked, boot, on, closed, ready, drain, phase, faults>>

\* Work that leaves no trace in this module.
Finish(a) ==
  /\ Alive
  /\ a \in busy \ {"health", "monitor", "kafka", "bootstrap"}
  /\ busy' = busy \ {a}
  /\ UNCHANGED <<outside, linked, boot, on, closed, ready, drain, phase, faults>>

\* The request timeout answers 408 and the handler runs on.
Abandon ==
  /\ Alive
  /\ "http" \in busy
  /\ busy' = (busy \ {"http"}) \union {"abandoned"}
  /\ UNCHANGED <<outside, linked, boot, on, closed, ready, drain, phase, faults>>

\* What the monitor of each service asks of its storage: product and payment
\* read their tables, order only pings the connection.
Answers ==
  /\ "database" \in up /\ linked
  /\ service # "order" => migrated

\* Payment marks its dependencies whether it is draining or not; the others
\* look.  After a failure, onError runs unless the loop was stopped.
Monitored(a) ==
  IF Answers
  THEN ready' = IF service # "payment" /\ Draining THEN ready ELSE ready \union Required(service)
  ELSE ready' = IF a \in on THEN ready \ {"database"} ELSE ready

Rested(a) == a \in busy /\ busy' = busy \ {a}

Check(a) ==
  /\ Alive
  /\ a \in {"health", "monitor"}
  /\ Rested(a)
  /\ Monitored(a)
  /\ UNCHANGED <<outside, linked, boot, on, closed, drain, phase, faults>>

\* Payment's Kafka task starts the consumer, once; start() is single-flight.
StartKafka ==
  /\ Alive
  /\ Rested("kafka")
  /\ on' = IF Answers /\ "kafka" \in up THEN on \union {"consumer"} ELSE on
  /\ UNCHANGED <<outside, linked, boot, closed, ready, drain, phase, faults>>

-----------------------------------------------------------------------------
(* bootstrap, for product and order; "bootstrap" is busy while it runs *)

\* Bootstrap has to try again: product ends the process, order sets its timer
\* unless it is shutting down.
BootFails ==
  IF service = "product"
  THEN phase' = "exit 1" /\ boot' = "done"
  ELSE boot' = (IF Draining THEN "done" ELSE "timer") /\ UNCHANGED phase

\* The database part: connect, then read the tables or verify the indexes.  Both
\* services look at isShuttingDown between their awaits.
BootStorage ==
  /\ Alive
  /\ boot = "storage"
  /\ linked' = (linked \/ "database" \in up)
  /\ IF "database" \in up /\ migrated
     THEN /\ boot' = IF Draining THEN "done" ELSE "kafka"
          /\ ready' = IF Draining THEN ready ELSE ready \union {"database"}
          /\ busy' = IF Draining THEN busy \ {"bootstrap"} ELSE busy
          /\ UNCHANGED phase
     ELSE /\ BootFails
          /\ ready' = ready \ {"database"}
          /\ busy' = busy \ {"bootstrap"}
  /\ UNCHANGED <<outside, on, closed, drain, faults>>

\* The Kafka part: product starts its relay whatever came of it, order its
\* consumer, or the timer again.  A signal may find either on its way.
BootKafka ==
  /\ Alive
  /\ boot = "kafka"
  /\ busy' = busy \ {"bootstrap"}
  /\ IF service = "order" /\ "kafka" \notin up
     THEN BootFails /\ UNCHANGED on
     ELSE /\ boot' = "done"
          /\ \/ ~Draining /\ service = "product" /\ on' = on \union {"relay"}
             \/ service = "order" /\ on' = on \union {"consumer"}
             \/ Draining /\ UNCHANGED on
          /\ UNCHANGED phase
  /\ UNCHANGED <<outside, linked, closed, ready, drain, faults>>

TimerFires ==
  /\ Alive
  /\ boot = "timer"
  /\ boot' = IF Draining THEN "done" ELSE "storage"
  /\ busy' = IF Draining THEN busy ELSE busy \union {"bootstrap"}
  /\ UNCHANGED <<outside, linked, on, closed, ready, drain, phase, faults>>

-----------------------------------------------------------------------------
(* createShutdownHandler *)

\* The first signal starts the one shutdown; a later one gets its promise.
Signal ==
  /\ phase = "up"
  /\ phase' = "draining"
  /\ ready' = {}
  /\ boot' = IF boot = "timer" THEN "done" ELSE boot
  /\ drain' = [NoDrain EXCEPT !.step = 1]
  /\ UNCHANGED <<outside, linked, on, busy, closed, faults>>

Step == Steps(service)[drain.step]
MoreSteps == Draining /\ drain.step <= Len(Steps(service))

AskStep ==
  /\ MoreSteps /\ ~drain.asked
  /\ on' = on \ Stops(Step)
  /\ drain' = [drain EXCEPT !.asked = TRUE]
  /\ UNCHANGED <<outside, linked, boot, busy, closed, ready, phase, faults>>

\* A faulty form of Quiet that stops a loop without waiting for its last tick.
QuietAtOnce(step) == Stops(step) \cap busy \subseteq {"health", "monitor"}

\* What a step waits for: stop() of the server, of a loop, of the consumer's
\* message in hand, and the promise of bootstrap.
Quiet(step) == Stops(step) \cap busy = {}

NextStep(failed) ==
  drain' = [step |-> drain.step + 1, asked |-> FALSE, failed |-> drain.failed \/ failed]

StepDone ==
  /\ MoreSteps /\ drain.asked /\ Quiet(Step)
  /\ closed' = closed \union Closes(Step)
  /\ NextStep(FALSE)
  /\ UNCHANGED <<outside, linked, boot, on, busy, ready, phase, faults>>

\* A disconnect throws: it is reported, and the steps after it still run.
StepThrows ==
  /\ MoreSteps /\ drain.asked
  /\ Step \in {"producer", "inventory", "database"}
  /\ faults < MaxFaults
  /\ faults' = faults + 1
  /\ NextStep(TRUE)
  /\ UNCHANGED <<outside, linked, boot, on, busy, closed, ready, phase>>

Exit ==
  /\ Draining /\ ~MoreSteps
  /\ phase' = IF drain.failed THEN "exit 1" ELSE "exit 0"
  /\ UNCHANGED <<outside, linked, boot, on, busy, closed, ready, drain, faults>>

\* 25 seconds after the signal, wherever the drain is.
Deadline ==
  /\ Draining /\ MoreSteps
  /\ phase' = "exit 1"
  /\ UNCHANGED <<outside, linked, boot, on, busy, closed, ready, drain, faults>>

-----------------------------------------------------------------------------
Work ==
  \/ \E a \in on : Begin(a)
  \/ \E a \in busy : Finish(a) \/ Check(a)
  \/ Abandon \/ StartKafka
Boot == BootStorage \/ BootKafka \/ TimerFires
Drain == AskStep \/ StepDone \/ Exit \/ Deadline

Next ==
  \/ \E x \in {"database", "kafka"} : Flip(x)
  \/ Migrate \/ Signal \/ StepThrows
  \/ Work \/ Boot \/ Drain

Spec == Init /\ [][Next]_vars

\* The deadline timer and the code between two awaits run; nothing is assumed
\* of the work a drain waits for.  Timers fire, and the monitor and bootstrap
\* come back from their calls, which have timeouts of their own.
Monitors == {"health", "monitor"}

-----------------------------------------------------------------------------
(* Properties *)

\* The variables stay within their types, and an activity begins and ends within
\* those its service has.
TypeOK ==
  /\ service \in Service
  /\ up \subseteq {"database", "kafka"}
  /\ migrated \in BOOLEAN /\ linked \in BOOLEAN
  /\ boot \in {"storage", "kafka", "timer", "done"}
  /\ on \subseteq Awaited(service)
  /\ busy \subseteq Awaited(service) \union {"abandoned"}
  /\ closed \subseteq Closable(service)
  /\ ready \subseteq Required(service)
  /\ drain \in [step : 0..Len(Steps(service)) + 1, asked : BOOLEAN, failed : BOOLEAN]
  /\ phase \in {"up", "draining", "exit 0", "exit 1"}
  /\ flips \in 0..MaxFlips /\ faults \in 0..MaxFaults

\* Whatever the signal finds in hand - a request, a tick, a pass of the relay, a
\* message, bootstrap or its retry - no work runs on a dependency that the drain
\* has closed (shutdown.ts:7).  Handlers that their timeout abandoned are not
\* waited for and are left out.
NothingUsesAClosedDependency ==
  Alive => \A a \in busy \cap Awaited(service) : Uses(a) \cap closed = {}

\* Exit code 0 says that everything was drained and closed.
CleanExit ==
  phase = "exit 0" => closed = Closable(service) /\ on = {} /\ busy \subseteq {"abandoned"}

\* A monitor or bootstrap that was waiting for storage at the signal does not
\* make a draining process look ready (product and order).
DrainingIsNotReady == Draining /\ service # "payment" => ~IsReady

\* However long work hangs, a drain ends, by itself or at its deadline.
Ended == ~Alive

\* While its storage answers and no signal comes, a process becomes ready,
\* whatever failed before.
StorageAnswers == "database" \in up /\ migrated /\ phase = "up"
=============================================================================
