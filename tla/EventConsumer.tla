---------------------------- MODULE EventConsumer ----------------------------
(***************************************************************************)
(* One partition of payment.successful and the order-service replicas that *)
(* consume it: KafkaConsumer.eachMessage (consumer.ts), the quarantine and  *)
(* its replay (replay.ts), and the handler, which writes one order to       *)
(* MongoDB (order.ts).                                                      *)
(*                                                                          *)
(* Messages are keyed by their order, so one order stays in one partition.  *)
(* Offsets count from 1; a member's "at" and the group's "committed" are    *)
(* the number of records settled.  A rebalance takes the partition away     *)
(* from a member that does not know it yet: it goes on handling until a     *)
(* heartbeat or a commit is refused, beside the new owner.                  *)
(***************************************************************************)
EXTENDS Integers, FiniteSets, Sequences

CONSTANTS
  Member,     \* replicas in the consumer group
  Order,      \* order ids (the uuid of a checkout)
  NoOne,      \* the owner of a partition that is not assigned
  Attempts,   \* handler calls before quarantine (5 in the code)
  MaxLog,     \* bound on the records of the partition
  MaxFaults   \* bound on rebalances, crashes and failed calls

\* What is asked of the constants.
ConsumerAssumption ==
  NoOne \notin Member /\ Attempts \in Nat \ {0} /\ MaxLog \in Nat /\ MaxFaults \in Nat

VARIABLES
  log,        \* the partition
  owner,      \* the member the partition is assigned to
  committed,  \* the offset the group would restart from
  dead,       \* the offsets in the dead-letter topic
  orders,     \* the documents of the orders collection
  member,     \* what each replica is doing
  fixed,      \* the cause of the handler's failures has been repaired
  faults

vars == <<log, owner, committed, dead, orders, member, fixed, faults>>

\* What a record is to the consumer: it validates and the handler accepts it,
\* it validates and the handler throws until the cause is fixed, or its schema
\* version or its payload does not validate.
Kind == {"good", "poison", "malformed"}
Record == [order : Order, kind : Kind]

Step == {"down", "waiting", "idle", "find", "insert", "beat", "send"}
Down == [step |-> "down", at |-> 0, attempt |-> 0, beatFailed |-> FALSE, closing |-> FALSE]

Init ==
  /\ log = <<>>
  /\ owner = NoOne
  /\ committed = 0
  /\ dead = {}
  /\ orders = {}
  /\ member = [m \in Member |-> Down]
  /\ fixed = FALSE
  /\ faults = 0

Fault == faults < MaxFaults /\ faults' = faults + 1
Owns(m) == owner = m
Current(m) == log[member[m].at + 1]
Stored(o) == \E d \in orders : d.order = o
Settled(n) == n \in dead \/ Stored(log[n].order)

-----------------------------------------------------------------------------
(* The producers' side: payment jobs publish at least once *)

Publish(o, kind) ==
  /\ Len(log) < MaxLog
  /\ log' = Append(log, [order |-> o, kind |-> kind])
  /\ UNCHANGED <<owner, committed, dead, orders, member, fixed, faults>>

\* An operator replays one quarantined record; decodeReplay validates it again
\* and the record keeps its key, so it returns to the same partition.
Replay(n) ==
  /\ n \in dead
  /\ log[n].kind # "malformed"
  /\ Len(log) < MaxLog
  /\ log' = Append(log, log[n])
  /\ UNCHANGED <<owner, committed, dead, orders, member, fixed, faults>>

Fix ==
  /\ ~fixed
  /\ fixed' = TRUE
  /\ UNCHANGED <<log, owner, committed, dead, orders, member, faults>>

-----------------------------------------------------------------------------
(* Group membership *)

\* ensureTopics, connect, subscribe, run, and the GROUP_JOIN that follows.  A
\* start that fails leaves nothing behind and the caller's timer starts again.
Connect(m) ==
  /\ member[m].step = "down"
  /\ member' = [member EXCEPT ![m].step = "waiting"]
  /\ UNCHANGED <<log, owner, committed, dead, orders, fixed, faults>>

\* The group assigns the partition when it is free, or moves it from a member
\* whose heartbeats were late or to one that has just joined.
Assign(m) ==
  /\ member[m].step = "waiting" /\ ~member[m].closing
  /\ owner # m
  /\ IF owner = NoOne THEN UNCHANGED faults ELSE Fault
  /\ owner' = m
  /\ member' = [member EXCEPT ![m].step = "idle", ![m].at = committed]
  /\ UNCHANGED <<log, committed, dead, orders, fixed>>

\* A member goes with whatever it was doing: the process or the consumer ended
\* (restartOnFailure starts it again), or the group told it that it lost the
\* partition.
Leave(m) ==
  /\ member' = [member EXCEPT ![m] = Down]
  /\ owner' = IF Owns(m) THEN NoOne ELSE owner

Crash(m) ==
  /\ member[m].step # "down"
  /\ Fault
  /\ Leave(m)
  /\ UNCHANGED <<log, committed, dead, orders, fixed>>

\* shutdown(): both disconnects are asked for at once.  The consumer's waits
\* for the message in hand; the dead-letter producer's waits for nothing.
Shutdown(m) ==
  /\ member[m].step # "down" /\ ~member[m].closing
  /\ Fault
  /\ member' = [member EXCEPT ![m].closing = TRUE]
  /\ UNCHANGED <<log, owner, committed, dead, orders, fixed>>

Disconnect(m) ==
  /\ member[m].step \in {"waiting", "idle"} /\ member[m].closing
  /\ Leave(m)
  /\ UNCHANGED <<log, committed, dead, orders, fixed, faults>>

-----------------------------------------------------------------------------
(* eachMessage *)

To(m, step) == member' = [member EXCEPT ![m].step = step]

\* A record that does not validate goes to quarantine without an attempt.
Take(m) ==
  /\ member[m].step = "idle" /\ ~member[m].closing
  /\ member[m].at < Len(log)
  /\ member' = [member EXCEPT ![m].step = IF Current(m).kind = "malformed" THEN "send" ELSE "find",
                              ![m].attempt = 0]
  /\ UNCHANGED <<log, owner, committed, dead, orders, fixed, faults>>

\* eachMessage returned: the record is resolved and may be committed.
Resolved(m) ==
  member' = [member EXCEPT ![m].step = "idle", ![m].at = @ + 1, ![m].beatFailed = FALSE]

\* The handler returned; a heartbeat that failed meanwhile makes it a failure.
Handled(m) == IF member[m].beatFailed THEN To(m, "beat") ELSE Resolved(m)

\* The heartbeat that runs beside the handler; one that is refused, or cannot
\* be sent, is remembered until the handler returns.
BeatBeside(m) ==
  /\ member[m].step \in {"find", "insert"} /\ ~member[m].beatFailed
  /\ \/ ~Owns(m) /\ UNCHANGED faults
     \/ Fault
  /\ member' = [member EXCEPT ![m].beatFailed = TRUE]
  /\ UNCHANGED <<log, owner, committed, dead, orders, fixed>>

\* The handler threw: the document does not validate, or the database failed.
HandlerThrows(m) ==
  /\ member[m].step \in {"find", "insert"}
  /\ \/ member[m].step = "find" /\ Current(m).kind = "poison" /\ ~fixed /\ UNCHANGED faults
     \/ Fault
  /\ To(m, "beat")
  /\ UNCHANGED <<log, owner, committed, dead, orders, fixed>>

\* createOrder: the upsert looks for the order id ...
Find(m) ==
  /\ member[m].step = "find"
  /\ Current(m).kind = "good" \/ fixed
  /\ IF Stored(Current(m).order) THEN Handled(m) ELSE To(m, "insert")
  /\ UNCHANGED <<log, owner, committed, dead, orders, fixed, faults>>

\* ... and inserts, and the answer may be lost.  If another member did meanwhile,
\* the unique index refuses and the server either looks again (a no-op) or
\* reports the duplicate key.
Insert(m) ==
  LET o == Current(m).order IN
    /\ member[m].step = "insert"
    /\ IF Stored(o)
       THEN /\ UNCHANGED orders
            /\ Handled(m) \/ To(m, "beat")
            /\ UNCHANGED faults
       ELSE /\ orders' = orders \union {[order |-> o, offset |-> member[m].at + 1, by |-> m]}
            /\ \/ Handled(m) /\ UNCHANGED faults
               \/ To(m, "beat") /\ Fault
    /\ UNCHANGED <<log, owner, committed, dead, fixed>>

\* A faulty form of Retry that allows one attempt more.
RetryOnceMore(m) ==
  LET last == member[m].attempt = Attempts IN
    /\ member[m].step = "beat"
    /\ Owns(m)
    /\ member' = [member EXCEPT ![m].step = IF last THEN "send" ELSE "find",
                                ![m].attempt = IF last THEN 0 ELSE @ + 1,
                                ![m].beatFailed = FALSE]
    /\ UNCHANGED <<log, owner, committed, dead, orders, fixed, faults>>

\* After a failed attempt: the heartbeat that is awaited, the pause, and the
\* next attempt, or quarantine when there is none.
Retry(m) ==
  LET last == member[m].attempt + 1 = Attempts IN
    /\ member[m].step = "beat"
    /\ Owns(m)
    /\ member' = [member EXCEPT ![m].step = IF last THEN "send" ELSE "find",
                                ![m].attempt = IF last THEN 0 ELSE @ + 1,
                                ![m].beatFailed = FALSE]
    /\ UNCHANGED <<log, owner, committed, dead, orders, fixed, faults>>

\* The awaited heartbeat throws out of eachMessage: the record stays unresolved.
BeatThrows(m) ==
  /\ member[m].step = "beat"
  /\ \/ ~Owns(m) /\ UNCHANGED faults
     \/ Fault
  /\ Leave(m)
  /\ UNCHANGED <<log, committed, dead, orders, fixed>>

\* Kafka accepts the quarantine record, and only then the offset advances.
Quarantine(m) ==
  /\ member[m].step = "send" /\ ~member[m].closing
  /\ dead' = dead \union {member[m].at + 1}
  /\ Resolved(m)
  /\ UNCHANGED <<log, owner, committed, orders, fixed, faults>>

\* A faulty form of QuarantineThrows that reports the failure and goes on.
QuarantineSwallowed(m) ==
  /\ member[m].step = "send"
  /\ \/ member[m].closing /\ UNCHANGED faults
     \/ Fault
  /\ Resolved(m)
  /\ UNCHANGED <<log, owner, committed, dead, orders, fixed>>

\* The dead-letter producer fails, or was disconnected by shutdown: eachMessage
\* throws and the record will be delivered again.
QuarantineThrows(m) ==
  /\ member[m].step = "send"
  /\ \/ member[m].closing /\ UNCHANGED faults
     \/ Fault
  /\ Leave(m)
  /\ UNCHANGED <<log, committed, dead, orders, fixed>>

\* KafkaJS commits what eachMessage resolved; the broker refuses a commit of a
\* past generation, and the member joins again from the committed offset.
Commit(m) ==
  /\ member[m].step = "idle"
  /\ IF Owns(m)
     THEN /\ committed < member[m].at
          /\ committed' = member[m].at
          /\ UNCHANGED <<owner, member>>
     ELSE /\ Leave(m)
          /\ UNCHANGED committed
  /\ UNCHANGED <<log, dead, orders, fixed, faults>>

\* What a replica does by itself, once it is not hindered: KafkaJS keeps polling
\* and restarts a consumer that crashed, and the services start one that never
\* connected from a timer.
Consume(m) ==
  /\ \/ Connect(m) \/ Assign(m) \/ Disconnect(m) \/ Take(m) \/ HandlerThrows(m)
     \/ Find(m) \/ Insert(m) \/ Retry(m) \/ BeatThrows(m) \/ Quarantine(m)
     \/ QuarantineThrows(m) \/ Commit(m)
  /\ UNCHANGED faults

Next ==
  \/ \E o \in Order, kind \in Kind : Publish(o, kind)
  \/ \E n \in dead : Replay(n)
  \/ Fix
  \/ \E m \in Member :
       \/ Connect(m) \/ Assign(m) \/ Crash(m) \/ Shutdown(m) \/ Disconnect(m)
       \/ Take(m) \/ BeatBeside(m) \/ HandlerThrows(m) \/ Find(m) \/ Insert(m)
       \/ Retry(m) \/ BeatThrows(m) \/ Quarantine(m) \/ QuarantineThrows(m) \/ Commit(m)

Spec == Init /\ [][Next]_vars

-----------------------------------------------------------------------------
(* Properties *)

\* The variables stay within their types; no record is handled more often than
\* the attempts it has.
TypeOK ==
  /\ log \in Seq(Record)
  /\ owner \in Member \union {NoOne}
  /\ committed \in Nat
  /\ dead \subseteq DOMAIN log
  /\ orders \subseteq [order : Order, offset : DOMAIN log, by : Member]
  /\ member \in [Member -> [step : Step, at : Nat, attempt : 0..Attempts - 1,
                             beatFailed : BOOLEAN, closing : BOOLEAN]]
  /\ fixed \in BOOLEAN
  /\ faults \in 0..MaxFaults

\* The group never commits past a payment that left no trace: each record below
\* the committed offset has its order in the database or its copy in quarantine,
\* whichever member handled it and however it failed (consumer.ts:170, "The
\* source offset may advance only after Kafka accepts quarantine").
NothingSkipped == \A n \in 1..committed : Settled(n)

\* Redelivery, replay, and a member that lost its partition in the middle of the
\* upsert never leave two orders for one payment.
OneOrderPerPayment ==
  \A d, e \in orders : d.order = e.order => d = e

\* Every record is committed at last: neither a poison record nor one that fails
\* with its heartbeats holds up the payments behind it for ever.
Behind == committed < Len(log)
=============================================================================
