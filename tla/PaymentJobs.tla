----------------------------- MODULE PaymentJobs -----------------------------
(***************************************************************************)
(* The durable job table of the payment service (payment.job and the       *)
(* methods of PaymentStore) and the worker loops that process it           *)
(* (PaymentWorker.ts).  Every replica runs one loop per kind of job.       *)
(*                                                                         *)
(* What a job does outside this database is one step, Perform: enrichment  *)
(* commits inventory, publication sends to Kafka, a catalog job writes to  *)
(* Stripe.  It may fail with or without its effect.                        *)
(*                                                                         *)
(* Time is abstracted to its outcomes: a lease runs out (Lapse), a delay   *)
(* before a retry ends (BackoffEnds).                                      *)
(***************************************************************************)
EXTENDS Integers, FiniteSets
LOCAL INSTANCE TLC

CONSTANTS
  Purchase,     \* Stripe sessions: the key of enrich and publish jobs
  CatalogHint,  \* Kafka coordinates of catalog events: the key of catalog jobs
  Replica,      \* payment service processes
  MaxAttempts,  \* attempts before quarantine: 8 in PaymentStore.fail
  MaxFaults     \* bound of crashes, stalls, storage errors and redrives together

ASSUME JobsAssumption ==
  /\ MaxAttempts \in Nat \ {0}
  /\ MaxFaults \in Nat

Kind == {"enrich", "publish", "catalog"}
Enrich(p) == <<"enrich", p>>
Publish(p) == <<"publish", p>>
Job == ({"enrich", "publish"} \X Purchase) \cup ({"catalog"} \X CatalogHint)
Loop == Replica \X Kind

VARIABLES
  job,        \* the rows of payment.job
  loop,       \* what each worker loop is doing
  payment,    \* the purchases whose checkout row stores the payment
  performed,  \* the jobs whose outside effect happened at least once
  faults      \* how many faults and redrives there were

vars == <<job, loop, payment, performed, faults>>

\* A row.  `token` numbers the claims: the code draws a fresh random UUID.
\* `lapsed` says that lease_until is past, `ready` that available_at is.
Absent == [state |-> "absent", attempts |-> 0, token |-> 0, lapsed |-> FALSE, ready |-> TRUE]
Queued == [Absent EXCEPT !.state = "pending"]

\* A loop between two jobs, and one that processes job j under its claim.
Idle == [step |-> "idle", job |-> <<>>, token |-> 0, attempts |-> 0, leaseLost |-> FALSE]

Init ==
  /\ job = [j \in Job |-> Absent]
  /\ loop = [l \in Loop |-> Idle]
  /\ payment = {}
  /\ performed = {}
  /\ faults = 0

Fault == faults < MaxFaults /\ faults' = faults + 1

-----------------------------------------------------------------------------
(* Producers of jobs *)

\* A faulty form of Enqueue: ON CONFLICT DO UPDATE SET state = 'pending'.
EnqueueAgain(j) ==
  /\ j[1] \in {"enrich", "catalog"}
  /\ job' = [job EXCEPT ![j].state = "pending"]
  /\ UNCHANGED <<loop, payment, performed, faults>>

\* enqueue and enqueueCatalog: INSERT ... ON CONFLICT DO NOTHING.
Enqueue(j) ==
  /\ j[1] \in {"enrich", "catalog"}
  /\ job[j].state = "absent"
  /\ job' = [job EXCEPT ![j] = Queued]
  /\ UNCHANGED <<loop, payment, performed, faults>>

\* redrive: an operator resets a quarantined job.
Redrive(j) ==
  /\ job[j].state = "quarantined"
  /\ Fault
  /\ job' = [job EXCEPT ![j].state = "pending", ![j].attempts = 0, ![j].ready = TRUE]
  /\ UNCHANGED <<loop, payment, performed>>

-----------------------------------------------------------------------------
(* One job in a worker loop *)

\* A faulty form of Claimable that never takes over a job whose worker died.
ClaimablePending(row) == row.ready /\ row.state = "pending"

Claimable(row) ==
  /\ row.ready
  /\ row.state = "pending" \/ (row.state = "processing" /\ row.lapsed)

\* claim: any claimable job of the loop's kind.  The code prefers the oldest
\* row that no other claim has locked (SKIP LOCKED).
Claim(l, j) ==
  LET token == job[j].token + 1
      attempts == job[j].attempts + 1 IN
    /\ loop[l].step = "idle"
    /\ j[1] = l[2]
    /\ Claimable(job[j])
    /\ job' = [job EXCEPT ![j].state = "processing", ![j].attempts = attempts,
                          ![j].token = token, ![j].lapsed = FALSE]
    /\ loop' = [loop EXCEPT ![l] = [step |-> "work", job |-> j, token |-> token,
                                    attempts |-> attempts, leaseLost |-> FALSE]]
    /\ UNCHANGED <<payment, performed, faults>>

\* A faulty form of Owns: fenced by the number of attempts, which redrive resets.
OwnsByAttempts(l) ==
  LET row == job[loop[l].job] IN
    row.state = "processing" /\ row.attempts = loop[l].attempts

\* The fence of renew, complete and fail: the row is still this claim's.
Owns(l) ==
  LET row == job[loop[l].job] IN
    row.state = "processing" /\ row.token = loop[l].token

\* The 20 second timer: renew extends the lease, or finds that it was lost.
Renew(l) ==
  /\ loop[l].step \in {"work", "check", "fail"}
  /\ IF Owns(l)
       THEN /\ job' = [job EXCEPT ![loop[l].job].lapsed = FALSE]
            /\ UNCHANGED loop
       ELSE /\ loop' = [loop EXCEPT ![l].leaseLost = TRUE]
            /\ UNCHANGED job
  /\ UNCHANGED <<payment, performed, faults>>

\* A renewal that failed counts as a lost lease, although the job is still owned.
RenewError(l) ==
  /\ loop[l].step \in {"work", "check"}
  /\ Fault
  /\ loop' = [loop EXCEPT ![l].leaseLost = TRUE]
  /\ UNCHANGED <<job, payment, performed>>

\* processCompletedCheckout, producer.send or reconcileProduct succeeded.
Work(l) ==
  /\ loop[l].step = "work"
  /\ performed' = performed \cup {loop[l].job}
  /\ loop' = [loop EXCEPT ![l].step = "check"]
  /\ UNCHANGED <<job, payment, faults>>

\* A faulty form of WorkFails: the error is swallowed and the job completed.
WorkSwallowsError(l) ==
  /\ loop[l].step = "work"
  /\ loop' = [loop EXCEPT ![l].step = "check"]
  /\ UNCHANGED <<job, payment, performed, faults>>

\* It threw: before its effect, or after it (a lost response).
WorkFails(l) ==
  /\ loop[l].step = "work"
  /\ performed' \in {performed, performed \cup {loop[l].job}}
  /\ loop' = [loop EXCEPT ![l].step = "fail"]
  /\ UNCHANGED <<job, payment, faults>>

\* The transaction of complete: the job, the payment and the publication job.
\* A faulty form stores the payment but not its publication.
CompleteWithoutPublish(l) ==
  LET j == loop[l].job IN
    /\ job' = [job EXCEPT ![j].state = "complete", ![j].lapsed = FALSE]
    /\ payment' = IF j[1] = "enrich" THEN payment \cup {j[2]} ELSE payment

CompleteTx(l) ==
  LET j == loop[l].job
      done == [job EXCEPT ![j].state = "complete", ![j].lapsed = FALSE] IN
    IF j[1] = "enrich"
      THEN /\ job' = IF job[Publish(j[2])].state = "absent"
                       THEN [done EXCEPT ![Publish(j[2])] = Queued] ELSE done
           /\ payment' = payment \cup {j[2]}
      ELSE /\ job' = done
           /\ UNCHANGED payment

Complete(l) ==
  /\ loop[l].step = "check"
  /\ ~loop[l].leaseLost
  /\ Owns(l)
  /\ CompleteTx(l)
  /\ loop' = [loop EXCEPT ![l] = Idle]
  /\ UNCHANGED <<performed, faults>>

\* The COMMIT was applied but its acknowledgement was lost.
CompleteUnacknowledged(l) ==
  /\ loop[l].step = "check"
  /\ ~loop[l].leaseLost
  /\ Owns(l)
  /\ Fault
  /\ CompleteTx(l)
  /\ loop' = [loop EXCEPT ![l].step = "fail"]
  /\ UNCHANGED performed

\* The flag was set, the fence refused the claim, or the storage failed.
CompleteRefused(l) ==
  /\ loop[l].step = "check"
  /\ \/ (loop[l].leaseLost \/ ~Owns(l)) /\ UNCHANGED faults
     \/ Fault
  /\ loop' = [loop EXCEPT ![l].step = "fail"]
  /\ UNCHANGED <<job, payment, performed>>

\* A faulty form of Fail that writes a state the table does not know.
FailMisnamed(l) ==
  LET j == loop[l].job IN
    /\ loop[l].step = "fail"
    /\ job' = IF Owns(l) THEN [job EXCEPT ![j].state = "failed"] ELSE job
    /\ loop' = [loop EXCEPT ![l] = Idle]
    /\ UNCHANGED <<payment, performed, faults>>

\* fail: retried after a delay, or quarantined at the limit; nothing when the
\* claim is no longer this worker's.
Fail(l) ==
  LET j == loop[l].job IN
    /\ loop[l].step = "fail"
    /\ job' = IF ~Owns(l) THEN job
              ELSE [job EXCEPT
                      ![j].state = IF loop[l].attempts >= MaxAttempts THEN "quarantined" ELSE "pending",
                      ![j].lapsed = FALSE,
                      ![j].ready = FALSE]
    /\ loop' = [loop EXCEPT ![l] = Idle]
    /\ UNCHANGED <<payment, performed, faults>>

\* fail itself failed: the loop goes on and the row waits for its lease to end.
FailError(l) ==
  /\ loop[l].step = "fail"
  /\ Fault
  /\ loop' = [loop EXCEPT ![l] = Idle]
  /\ UNCHANGED <<job, payment, performed>>

-----------------------------------------------------------------------------
(* Time and processes *)

BackoffEnds(j) ==
  /\ ~job[j].ready
  /\ job' = [job EXCEPT ![j].ready = TRUE]
  /\ UNCHANGED <<loop, payment, performed, faults>>

\* Some loop still works under the claim that the row records.
Attended(j) == \E l \in Loop : loop[l].step # "idle" /\ loop[l].job = j /\ Owns(l)

\* lease_until passes.  While its worker is alive that takes a stall or a
\* storage outage longer than the lease, which is a fault.
Lapse(j) ==
  /\ job[j].state = "processing"
  /\ ~job[j].lapsed
  /\ IF Attended(j) THEN Fault ELSE UNCHANGED faults
  /\ job' = [job EXCEPT ![j].lapsed = TRUE]
  /\ UNCHANGED <<loop, payment, performed>>

\* A process dies and is restarted: its loops forget what they were doing.
Crash(r) ==
  /\ \E k \in Kind : loop[<<r, k>>].step # "idle"
  /\ Fault
  /\ loop' = [l \in Loop |-> IF l[1] = r THEN Idle ELSE loop[l]]
  /\ UNCHANGED <<job, payment, performed>>

-----------------------------------------------------------------------------
Step(l) ==
  \/ \E j \in Job : Claim(l, j)
  \/ Work(l) \/ WorkFails(l)
  \/ Complete(l) \/ CompleteRefused(l) \/ CompleteUnacknowledged(l)
  \/ Fail(l) \/ FailError(l)

Next ==
  \/ \E j \in Job : Enqueue(j) \/ Redrive(j) \/ BackoffEnds(j) \/ Lapse(j)
  \/ \E l \in Loop : Step(l) \/ Renew(l) \/ RenewError(l)
  \/ \E r \in Replica : Crash(r)

Spec == Init /\ [][Next]_vars

\* The lease of a claim that nobody works under ends.
LeaseEnds(j) == ~Attended(j) /\ Lapse(j)

-----------------------------------------------------------------------------
(* Properties *)

JobStates == {"absent", "pending", "processing", "complete", "quarantined"}

Row == [state : JobStates, attempts : Nat, token : Nat, lapsed : BOOLEAN, ready : BOOLEAN]
LoopState == [step : {"idle", "work", "check", "fail"}, job : Job \cup {<<>>},
              token : Nat, attempts : Nat, leaseLost : BOOLEAN]

\* The rows, the loops and the stored payments have their declared types.
TypeOK ==
  /\ job \in [Job -> Row]
  /\ loop \in [Loop -> LoopState]
  /\ \A l \in Loop : loop[l].step # "idle" => loop[l].job \in Job
  /\ payment \subseteq Purchase
  /\ performed \subseteq Job
  /\ faults \in 0..MaxFaults

\* A payment is stored exactly when its enrichment is complete and its
\* publication is queued: no crash leaves a paid purchase that nobody will
\* publish (PaymentStore.complete).
PaymentIsPublished ==
  \A p \in Purchase :
    /\ p \in payment <=> job[Publish(p)].state # "absent"
    /\ p \in payment <=> job[Enrich(p)].state = "complete"

\* A complete job was performed, although its worker may have lost its lease,
\* crashed, or been told that the work failed (processPaymentJob).
CompleteWasPerformed ==
  \A j \in Job : job[j].state = "complete" => j \in performed

\* Two loops may work on one job, but only the newest claim can end it: every
\* step out of `processing` is taken by a loop that holds the row's token.
OnlyTheClaimFinishes ==
  [][\A j \in Job :
       job[j].state = "processing" /\ job'[j].state # "processing" =>
         \E l \in Loop :
           /\ loop[l].job = j
           /\ loop[l].token = job[j].token
           /\ loop'[l] # loop[l]]_vars

\* Jobs, their leases and workers implement the promise of DurableJobs.
Fate(state) ==
  CASE state = "absent" -> "absent"
    [] state \in {"pending", "processing"} -> "open"
    [] state = "complete" -> "done"
    [] state = "quarantined" -> "aside"
Status == [j \in Job |-> Fate(job[j].state)]

PublishAfter(j) == IF j[1] = "enrich" THEN {Publish(j[2])} ELSE {}

Promise == INSTANCE DurableJobs WITH status <- Status, Followers <- PublishAfter
ImplementsDurableJobs == Promise!DJSpec

\* No job is queued or under way: every one that was is complete or quarantined,
\* whatever crashes, stalls and storage errors happened on the way.
EveryJobSettled == \A j \in Job : job[j].state \notin {"pending", "processing"}

\* "retries stop at quarantine after eight failures"
\* (docs/adr/0002-payment-inventory.md:41): no job is attempted once more
\* after MaxAttempts attempts.
RetriesStopAtLimit == \A j \in Job : job[j].attempts <= MaxAttempts

\* Nothing tells two replicas apart: TLC checks one order of them for all.
ReplicaSymmetry == Permutations(Replica)
=============================================================================
