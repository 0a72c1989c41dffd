-------------------------- MODULE PaymentJobsProofs --------------------------
(***************************************************************************)
(* Theorems of module PaymentJobs, for every set of purchases, catalog     *)
(* hints and replicas and all bounds.                                      *)
(***************************************************************************)
EXTENDS PaymentJobs, TLAPS

\* A loop that holds a job got it from the table, of its own kind, under a
\* claim that the row remembers; a loop past its work has performed it.
ClaimsAreReal ==
  \A l \in Loop :
    loop[l].step # "idle" =>
      /\ job[loop[l].job].state # "absent"
      /\ loop[l].step = "check" => loop[l].job \in performed

\* The inductive invariant.
IInv == TypeOK /\ PaymentIsPublished /\ CompleteWasPerformed /\ ClaimsAreReal

LEMMA JobKeys ==
  /\ \A p \in Purchase : Enrich(p) \in Job /\ Publish(p) \in Job /\ Enrich(p) # Publish(p)
  /\ \A p, q \in Purchase : /\ Enrich(p) # Publish(q)
                            /\ Enrich(p) = Enrich(q) => p = q
                            /\ Publish(p) = Publish(q) => p = q
  /\ \A j \in Job : j[1] = "enrich" => j[2] \in Purchase /\ j = Enrich(j[2])
  /\ \A p \in Purchase : /\ Publish(p)[1] = "publish" /\ Publish(p)[2] = p
                         /\ Enrich(p)[1] = "enrich" /\ Enrich(p)[2] = p
  /\ <<>> \notin Job
BY DEF Job, Enrich, Publish

LEMMA InitIInv == Init => IInv
<1> SUFFICES ASSUME Init PROVE IInv
  OBVIOUS
<1> USE JobKeys, JobsAssumption
<1>1. TypeOK
  <2>1. Absent \in Row BY DEF Absent, Row, JobStates
  <2>2. Idle \in LoopState /\ Idle.step = "idle" BY DEF Idle, LoopState
  <2>. QED BY <2>1, <2>2 DEF Init, TypeOK
<1>2. PaymentIsPublished
  BY DEF Init, PaymentIsPublished, Absent
<1>3. CompleteWasPerformed
  BY DEF Init, CompleteWasPerformed, Absent
<1>4. ClaimsAreReal
  BY DEF Init, ClaimsAreReal, Idle
<1>. QED BY <1>1, <1>2, <1>3, <1>4 DEF IInv

\* Steps of the producers and of time: they change only the rows.
LEMMA EnqueueIInv == ASSUME IInv, NEW j \in Job, Enqueue(j) PROVE IInv'
<1> USE JobKeys DEF IInv, Enqueue
<1>1. TypeOK' BY DEF TypeOK, Row, JobStates, Absent, Queued
<1>2. PaymentIsPublished' BY DEF TypeOK, Row, PaymentIsPublished, Absent, Queued
<1>3. CompleteWasPerformed' BY DEF TypeOK, Row, CompleteWasPerformed, Absent, Queued
<1>4. ClaimsAreReal' BY DEF TypeOK, Row, ClaimsAreReal, Absent, Queued
<1>. QED BY <1>1, <1>2, <1>3, <1>4

LEMMA RedriveIInv == ASSUME IInv, NEW j \in Job, Redrive(j) PROVE IInv'
<1> USE JobKeys, JobsAssumption DEF IInv, Redrive, Fault
<1>1. TypeOK'
  <2>1. job' \in [Job -> Row]
    <3>1. job[j] \in Row BY DEF TypeOK
    <3>2. [job[j] EXCEPT !.state = "pending", !.attempts = 0, !.ready = TRUE] \in Row BY <3>1 DEF Row, JobStates
    <3>3. job' = [job EXCEPT ![j] = [job[j] EXCEPT !.state = "pending", !.attempts = 0, !.ready = TRUE]] BY DEF TypeOK
    <3>. QED BY <3>2, <3>3 DEF TypeOK
  <2>2. faults' \in 0..MaxFaults BY DEF TypeOK
  <2>. QED BY <2>1, <2>2 DEF TypeOK
<1>2. PaymentIsPublished' BY DEF TypeOK, Row, PaymentIsPublished
<1>3. CompleteWasPerformed' BY DEF TypeOK, Row, CompleteWasPerformed
<1>4. ClaimsAreReal' BY DEF TypeOK, Row, ClaimsAreReal
<1>. QED BY <1>1, <1>2, <1>3, <1>4

LEMMA BackoffEndsIInv == ASSUME IInv, NEW j \in Job, BackoffEnds(j) PROVE IInv'
<1> USE JobKeys DEF IInv, BackoffEnds
<1>1. TypeOK'
  <2>1. job' \in [Job -> Row]
    <3>1. job[j] \in Row BY DEF TypeOK
    <3>2. [job[j] EXCEPT !.ready = TRUE] \in Row BY <3>1 DEF Row, JobStates
    <3>3. job' = [job EXCEPT ![j] = [job[j] EXCEPT !.ready = TRUE]] BY DEF TypeOK
    <3>. QED BY <3>2, <3>3 DEF TypeOK
  <2>. QED BY <2>1 DEF TypeOK
<1>2. PaymentIsPublished' BY DEF TypeOK, Row, PaymentIsPublished
<1>3. CompleteWasPerformed' BY DEF TypeOK, Row, CompleteWasPerformed
<1>4. ClaimsAreReal' BY DEF TypeOK, Row, ClaimsAreReal
<1>. QED BY <1>1, <1>2, <1>3, <1>4

LEMMA LapseIInv == ASSUME IInv, NEW j \in Job, Lapse(j) PROVE IInv'
<1> USE JobKeys, JobsAssumption DEF IInv, Lapse, Fault
<1>1. TypeOK'
  <2>1. job' \in [Job -> Row]
    <3>1. job[j] \in Row BY DEF TypeOK
    <3>2. [job[j] EXCEPT !.lapsed = TRUE] \in Row BY <3>1 DEF Row, JobStates
    <3>3. job' = [job EXCEPT ![j] = [job[j] EXCEPT !.lapsed = TRUE]] BY DEF TypeOK
    <3>. QED BY <3>2, <3>3 DEF TypeOK
  <2>2. faults' \in 0..MaxFaults BY DEF TypeOK
  <2>. QED BY <2>1, <2>2 DEF TypeOK
<1>2. PaymentIsPublished' BY DEF TypeOK, Row, PaymentIsPublished
<1>3. CompleteWasPerformed' BY DEF TypeOK, Row, CompleteWasPerformed
<1>4. ClaimsAreReal' BY DEF TypeOK, Row, ClaimsAreReal
<1>. QED BY <1>1, <1>2, <1>3, <1>4

LEMMA ClaimIInv == ASSUME IInv, NEW l \in Loop, NEW j \in Job, Claim(l, j) PROVE IInv'
<1> USE JobKeys DEF IInv, Claim, Claimable
<1>1. TypeOK'
  <2>1. job' \in [Job -> Row]
    <3>1. job[j] \in Row BY DEF TypeOK
    <3>2. [job[j] EXCEPT !.state = "processing", !.attempts = job[j].attempts + 1,
                         !.token = job[j].token + 1, !.lapsed = FALSE] \in Row
      <4>1. job[j].attempts + 1 \in Nat /\ job[j].token + 1 \in Nat BY <3>1 DEF Row
      <4>. QED BY <3>1, <4>1, Zenon DEF Row, JobStates
    <3>3. job' = [job EXCEPT ![j] = [job[j] EXCEPT !.state = "processing", !.attempts = job[j].attempts + 1,
                         !.token = job[j].token + 1, !.lapsed = FALSE]] BY DEF TypeOK
    <3>. QED BY <3>2, <3>3 DEF TypeOK
  <2>2. loop' \in [Loop -> LoopState] BY DEF TypeOK, Row, LoopState
  <2>3. \A k \in Loop : loop'[k].step # "idle" => loop'[k].job \in Job BY DEF TypeOK
  <2>. QED BY <2>1, <2>2, <2>3 DEF TypeOK
<1>2. PaymentIsPublished' BY DEF TypeOK, Row, PaymentIsPublished
<1>3. CompleteWasPerformed' BY DEF TypeOK, Row, CompleteWasPerformed
<1>4. ClaimsAreReal' BY DEF TypeOK, Row, ClaimsAreReal
<1>. QED BY <1>1, <1>2, <1>3, <1>4

\* What the transaction of complete does, for an enrichment and for the others.
LEMMA CompleteEnrichment ==
  ASSUME IInv, NEW l \in Loop, NEW p \in Purchase, Owns(l), CompleteTx(l), loop[l].job = Enrich(p)
  PROVE  /\ job' \in [Job -> Row]
         /\ payment' = payment \cup {p}
         /\ job'[Enrich(p)].state = "complete"
         /\ job[Enrich(p)].state = "processing"
         /\ job'[Publish(p)].state = IF job[Publish(p)].state = "absent" THEN "pending"
                                     ELSE job[Publish(p)].state
         /\ \A j \in Job \ {Enrich(p), Publish(p)} : job'[j] = job[j]
<1>1. /\ Enrich(p) \in Job /\ Publish(p) \in Job /\ Enrich(p) # Publish(p)
      /\ loop[l].job[1] = "enrich" /\ loop[l].job[2] = p
  BY JobKeys
<1>2. job \in [Job -> Row] /\ Queued \in Row /\ Queued.state = "pending"
  BY DEF IInv, TypeOK, Queued, Absent, Row, JobStates
<1>3. job[Enrich(p)].state = "processing" BY DEF Owns
<1>4. payment' = payment \cup {p} BY <1>1 DEF CompleteTx
<1>5. job' = IF job[Publish(p)].state = "absent"
              THEN [[job EXCEPT ![Enrich(p)].state = "complete", ![Enrich(p)].lapsed = FALSE]
                      EXCEPT ![Publish(p)] = Queued]
              ELSE [job EXCEPT ![Enrich(p)].state = "complete", ![Enrich(p)].lapsed = FALSE]
  BY <1>1 DEF CompleteTx
<1>. QED BY <1>1, <1>2, <1>3, <1>4, <1>5 DEF Row, JobStates

LEMMA CompleteOther ==
  ASSUME IInv, NEW l \in Loop, Owns(l), CompleteTx(l), loop[l].job \in Job, loop[l].job[1] # "enrich"
  PROVE  /\ job' \in [Job -> Row]
         /\ payment' = payment
         /\ job'[loop[l].job].state = "complete"
         /\ job[loop[l].job].state = "processing"
         /\ \A j \in Job \ {loop[l].job} : job'[j] = job[j]
BY DEF IInv, TypeOK, Owns, CompleteTx, Row, JobStates

\* The transaction preserves what the invariant says of the tables.
LEMMA CompleteTxIInv ==
  ASSUME IInv, NEW l \in Loop, loop[l].step = "check", Owns(l), CompleteTx(l),
         UNCHANGED performed
  PROVE  /\ job' \in [Job -> Row] /\ payment' \subseteq Purchase
         /\ PaymentIsPublished' /\ CompleteWasPerformed'
         /\ \A j \in Job : job[j].state # "absent" => job'[j].state # "absent"
<1>1. loop[l].job \in Job /\ loop[l].job \in performed
  BY DEF IInv, TypeOK, ClaimsAreReal
<1>2. CASE loop[l].job[1] = "enrich"
  <2>1. PICK p \in Purchase : loop[l].job = Enrich(p)
    BY <1>1, <1>2, JobKeys
  <2>2. /\ job' \in [Job -> Row]
        /\ payment' = payment \cup {p}
        /\ job'[Enrich(p)].state = "complete"
        /\ job'[Publish(p)].state = IF job[Publish(p)].state = "absent" THEN "pending"
                                    ELSE job[Publish(p)].state
        /\ \A j \in Job \ {Enrich(p), Publish(p)} : job'[j] = job[j]
    BY <2>1, CompleteEnrichment
  <2>3. payment' \subseteq Purchase
    BY <2>2 DEF IInv, TypeOK
  <2>4. PaymentIsPublished'
    BY <2>2, JobKeys DEF IInv, PaymentIsPublished
  <2>5. CompleteWasPerformed'
    BY <1>1, <2>1, <2>2, JobKeys DEF IInv, CompleteWasPerformed
  <2>6. \A j \in Job : job[j].state # "absent" => job'[j].state # "absent"
    BY <2>2, JobKeys
  <2>. QED BY <2>2, <2>3, <2>4, <2>5, <2>6
<1>3. CASE loop[l].job[1] # "enrich"
  <2>1. /\ job' \in [Job -> Row]
        /\ payment' = payment
        /\ job'[loop[l].job].state = "complete"
        /\ job[loop[l].job].state = "processing"
        /\ \A j \in Job \ {loop[l].job} : job'[j] = job[j]
    BY <1>1, <1>3, CompleteOther
  <2>2. PaymentIsPublished'
    BY <1>1, <1>3, <2>1, JobKeys DEF IInv, PaymentIsPublished
  <2>3. CompleteWasPerformed'
    BY <1>1, <2>1 DEF IInv, CompleteWasPerformed
  <2>. QED BY <1>1, <2>1, <2>2, <2>3 DEF IInv, TypeOK
<1>. QED BY <1>2, <1>3

\* A step that replaces the state of one loop.
LEMMA LoopWrite ==
  ASSUME IInv, NEW l \in Loop, NEW s \in LoopState, loop' = [loop EXCEPT ![l] = s],
         s.step # "idle" => s.job \in Job
  PROVE  /\ loop' \in [Loop -> LoopState]
         /\ \A k \in Loop : loop'[k].step # "idle" => loop'[k].job \in Job
BY DEF IInv, TypeOK

LEMMA WorkingLoop ==
  ASSUME IInv, NEW l \in Loop
  PROVE  /\ loop[l] \in LoopState
         /\ loop' = [loop EXCEPT ![l].leaseLost = TRUE] =>
              loop' = [loop EXCEPT ![l] = [loop[l] EXCEPT !.leaseLost = TRUE]]
         /\ [loop[l] EXCEPT !.leaseLost = TRUE] \in LoopState
         /\ \A step \in {"work", "check", "fail"} : [loop[l] EXCEPT !.step = step] \in LoopState
         /\ Idle \in LoopState
         /\ loop[l].step # "idle" => loop[l].job \in Job
<1>1. loop[l] \in LoopState BY DEF IInv, TypeOK
<1>2. Idle \in LoopState BY DEF Idle, LoopState
<1>. QED BY <1>1, <1>2 DEF IInv, TypeOK, LoopState

\* Steps of a loop that leave the rows alone.
LEMMA LoopStepIInv ==
  ASSUME IInv, NEW l \in Loop, NEW s \in LoopState,
         loop' = [loop EXCEPT ![l] = s],
         s.step # "idle" => s.job = loop[l].job /\ loop[l].step # "idle",
         s.step = "check" => s.job \in performed',
         UNCHANGED <<job, payment>>,
         performed \subseteq performed', performed' \subseteq Job,
         faults' \in 0..MaxFaults
  PROVE  IInv'
<1>1. TypeOK'
  <2>1. s.step # "idle" => s.job \in Job BY WorkingLoop
  <2>. QED BY <2>1, LoopWrite DEF IInv, TypeOK
<1>2. PaymentIsPublished' BY DEF IInv, PaymentIsPublished
<1>3. CompleteWasPerformed' BY DEF IInv, CompleteWasPerformed
<1>4. ClaimsAreReal' BY DEF IInv, TypeOK, ClaimsAreReal
<1>. QED BY <1>1, <1>2, <1>3, <1>4 DEF IInv

LEMMA FaultBound == ASSUME IInv PROVE (Fault \/ UNCHANGED faults) => faults' \in 0..MaxFaults
BY JobsAssumption DEF IInv, TypeOK, Fault

LEMMA WorkIInv == ASSUME IInv, NEW l \in Loop, Work(l) \/ WorkFails(l) PROVE IInv'
<1>1. loop[l].step = "work" /\ loop[l].job \in Job
  BY WorkingLoop DEF Work, WorkFails
<1>2. performed \subseteq performed' /\ performed' \subseteq Job
  BY <1>1 DEF Work, WorkFails, IInv, TypeOK
<1>3. loop[l] \in LoopState /\ faults' \in 0..MaxFaults
  BY WorkingLoop, FaultBound DEF Work, WorkFails
<1>4. CASE Work(l)
  <2> DEFINE s == [loop[l] EXCEPT !.step = "check"]
  <2>1. s \in LoopState /\ s.job = loop[l].job
    BY WorkingLoop, <1>3 DEF LoopState
  <2>2. loop' = [loop EXCEPT ![l] = s] BY <1>4 DEF Work
  <2>3. loop[l].job \in performed' BY <1>4 DEF Work
  <2>. QED BY <1>1, <1>2, <1>3, <1>4, <2>1, <2>2, <2>3, LoopStepIInv DEF Work
<1>5. CASE WorkFails(l)
  <2> DEFINE s == [loop[l] EXCEPT !.step = "fail"]
  <2>1. s \in LoopState /\ s.job = loop[l].job /\ s.step = "fail"
    BY WorkingLoop, <1>3 DEF LoopState
  <2>2. loop' = [loop EXCEPT ![l] = s] BY <1>5 DEF WorkFails
  <2>. QED BY <1>1, <1>2, <1>3, <1>5, <2>1, <2>2, LoopStepIInv DEF WorkFails
<1>. QED BY <1>4, <1>5

LEMMA RefusedIInv ==
  ASSUME IInv, NEW l \in Loop, CompleteRefused(l) \/ FailError(l) \/ RenewError(l) PROVE IInv'
<1>1. loop[l] \in LoopState /\ Idle \in LoopState /\ Idle.step = "idle" /\ faults' \in 0..MaxFaults
  BY WorkingLoop, FaultBound DEF CompleteRefused, FailError, RenewError, Idle
<1>2. performed' \subseteq Job /\ UNCHANGED performed
  BY DEF CompleteRefused, FailError, RenewError, IInv, TypeOK
<1>3. CASE CompleteRefused(l)
  <2> DEFINE s == [loop[l] EXCEPT !.step = "fail"]
  <2>1. s \in LoopState /\ s.job = loop[l].job /\ s.step = "fail"
    BY WorkingLoop, <1>1 DEF LoopState
  <2>. QED BY <1>1, <1>2, <1>3, <2>1, LoopStepIInv DEF CompleteRefused
<1>4. CASE FailError(l)
  BY <1>1, <1>2, <1>4, LoopStepIInv DEF FailError
<1>5. CASE RenewError(l)
  <2> DEFINE s == [loop[l] EXCEPT !.leaseLost = TRUE]
  <2>1. s \in LoopState /\ s.job = loop[l].job /\ s.step = loop[l].step
    BY WorkingLoop, <1>1 DEF LoopState
  <2>2. loop' = [loop EXCEPT ![l] = s] BY <1>5 DEF RenewError
  <2>3. s.step = "check" => s.job \in performed'
    BY <1>2, <2>1 DEF IInv, ClaimsAreReal
  <2>. QED BY <1>1, <1>2, <1>5, <2>1, <2>2, <2>3, LoopStepIInv DEF RenewError
<1>. QED BY <1>3, <1>4, <1>5

LEMMA RenewIInv == ASSUME IInv, NEW l \in Loop, Renew(l) PROVE IInv'
<1>1. loop[l] \in LoopState /\ loop[l].job \in Job /\ loop[l].step # "idle"
  BY WorkingLoop DEF Renew
<1>2. CASE Owns(l)
  <2> DEFINE j == loop[l].job
             r == [job[j] EXCEPT !.lapsed = FALSE]
  <2>1. job[j] \in Row BY <1>1 DEF IInv, TypeOK
  <2>2. r \in Row /\ r.state = job[j].state BY <2>1 DEF Row
  <2>3. job' = [job EXCEPT ![j] = r] /\ UNCHANGED <<loop, payment, performed, faults>>
    BY <1>2 DEF Renew
  <2>4. job' \in [Job -> Row] /\ \A k \in Job : job'[k].state = job[k].state
    BY <1>1, <2>2, <2>3 DEF IInv, TypeOK
  <2>5. TypeOK' BY <2>3, <2>4 DEF IInv, TypeOK
  <2>6. PaymentIsPublished' BY <2>3, <2>4, JobKeys DEF IInv, PaymentIsPublished
  <2>7. CompleteWasPerformed' BY <2>3, <2>4 DEF IInv, CompleteWasPerformed
  <2>8. ClaimsAreReal' BY <2>3, <2>4 DEF IInv, ClaimsAreReal, TypeOK
  <2>. QED BY <2>5, <2>6, <2>7, <2>8 DEF IInv
<1>3. CASE ~Owns(l)
  <2> DEFINE s == [loop[l] EXCEPT !.leaseLost = TRUE]
  <2>1. s \in LoopState /\ s.job = loop[l].job /\ s.step = loop[l].step
    BY WorkingLoop, <1>1 DEF LoopState
  <2>2. loop' = [loop EXCEPT ![l] = s] /\ UNCHANGED <<job, payment, performed, faults>>
    BY <1>3 DEF Renew
  <2>3. s.step = "check" => s.job \in performed'
    BY <2>1, <2>2 DEF IInv, ClaimsAreReal
  <2>4. performed' \subseteq Job /\ faults' \in 0..MaxFaults
    BY <2>2 DEF IInv, TypeOK
  <2>. QED BY <1>1, <2>1, <2>2, <2>3, <2>4, LoopStepIInv
<1>. QED BY <1>2, <1>3

LEMMA CompleteIInv ==
  ASSUME IInv, NEW l \in Loop, Complete(l) \/ CompleteUnacknowledged(l) PROVE IInv'
<1>1. /\ loop[l].step = "check" /\ Owns(l) /\ CompleteTx(l) /\ UNCHANGED performed
      /\ faults' \in 0..MaxFaults
  BY FaultBound DEF Complete, CompleteUnacknowledged
<1>2. /\ job' \in [Job -> Row] /\ payment' \subseteq Purchase
      /\ PaymentIsPublished' /\ CompleteWasPerformed'
      /\ \A j \in Job : job[j].state # "absent" => job'[j].state # "absent"
  BY <1>1, CompleteTxIInv
<1>3. /\ loop' \in [Loop -> LoopState]
      /\ loop'[l].step \in {"idle", "fail"}
      /\ loop'[l].step = "fail" => loop'[l].job = loop[l].job
      /\ \A k \in Loop \ {l} : loop'[k] = loop[k]
  <2>1. loop \in [Loop -> LoopState] /\ loop[l] \in LoopState /\ Idle \in LoopState /\ Idle.step = "idle"
    BY WorkingLoop DEF IInv, TypeOK, Idle
  <2>2. CASE Complete(l)
    BY <2>1, <2>2 DEF Complete
  <2>3. CASE CompleteUnacknowledged(l)
    <3> DEFINE s == [loop[l] EXCEPT !.step = "fail"]
    <3>1. s \in LoopState /\ s.job = loop[l].job /\ s.step = "fail"
      BY <2>1 DEF LoopState
    <3>2. loop' = [loop EXCEPT ![l] = s] BY <2>3 DEF CompleteUnacknowledged
    <3>. QED BY <2>1, <3>1, <3>2
  <2>. QED BY <2>2, <2>3
<1>4. \A k \in Loop : loop'[k].step # "idle" => loop[k].step # "idle" /\ loop'[k].job = loop[k].job
  BY <1>1, <1>3
<1>5. \A k \in Loop : loop'[k].step # "idle" => loop'[k].job \in Job
  BY <1>4 DEF IInv, TypeOK
<1>6. TypeOK' BY <1>1, <1>2, <1>3, <1>5 DEF IInv, TypeOK
<1>7. ClaimsAreReal'
  BY <1>1, <1>2, <1>3, <1>4, <1>5 DEF IInv, ClaimsAreReal
<1>. QED BY <1>2, <1>6, <1>7 DEF IInv

LEMMA FailIInv == ASSUME IInv, NEW l \in Loop, Fail(l) PROVE IInv'
<1> DEFINE j == loop[l].job
           r == [job[j] EXCEPT
                   !.state = IF loop[l].attempts >= MaxAttempts THEN "quarantined" ELSE "pending",
                   !.lapsed = FALSE, !.ready = FALSE]
<1>1. /\ j \in Job /\ job[j] \in Row /\ Idle \in LoopState /\ Idle.step = "idle"
      /\ loop' = [loop EXCEPT ![l] = Idle] /\ UNCHANGED <<payment, performed, faults>>
  BY WorkingLoop DEF Fail, IInv, TypeOK, Idle
<1>2. CASE Owns(l)
  <2>1. r \in Row /\ r.state \in {"quarantined", "pending"} /\ job[j].state = "processing"
    BY <1>1, <1>2 DEF Row, JobStates, Owns
  <2>2. job' = [job EXCEPT ![j] = r] BY <1>1, <1>2 DEF Fail, IInv, TypeOK
  <2>3. /\ job' \in [Job -> Row] /\ job'[j].state \in {"quarantined", "pending"}
        /\ \A k \in Job \ {j} : job'[k] = job[k]
    BY <1>1, <2>1, <2>2 DEF IInv, TypeOK
  <2> HIDE DEF r
  <2>4. TypeOK' BY <1>1, <2>3, LoopWrite DEF IInv, TypeOK
  <2>5. PaymentIsPublished' BY <1>1, <2>1, <2>3, JobKeys DEF IInv, PaymentIsPublished
  <2>6. CompleteWasPerformed' BY <1>1, <2>3 DEF IInv, CompleteWasPerformed
  <2>7. ClaimsAreReal' BY <1>1, <2>1, <2>3 DEF IInv, TypeOK, ClaimsAreReal
  <2>. QED BY <2>4, <2>5, <2>6, <2>7 DEF IInv
<1>3. CASE ~Owns(l)
  <2>1. job' = job BY <1>3 DEF Fail
  <2>. QED BY <1>1, <2>1, LoopStepIInv DEF IInv, TypeOK
<1>. QED BY <1>2, <1>3

LEMMA CrashIInv == ASSUME IInv, NEW r \in Replica, Crash(r) PROVE IInv'
<1>1. /\ Idle \in LoopState /\ Idle.step = "idle" /\ faults' \in 0..MaxFaults
      /\ UNCHANGED <<job, payment, performed>>
  BY FaultBound DEF Crash, Idle, LoopState
<1>2. \A k \in Loop : loop'[k] = Idle \/ loop'[k] = loop[k]
  BY DEF Crash
<1>3. loop' \in [Loop -> LoopState]
  BY <1>1 DEF Crash, IInv, TypeOK
<1>4. TypeOK' BY <1>1, <1>2, <1>3 DEF IInv, TypeOK
<1>5. PaymentIsPublished' BY <1>1 DEF IInv, PaymentIsPublished
<1>6. CompleteWasPerformed' BY <1>1 DEF IInv, CompleteWasPerformed
<1>7. ClaimsAreReal' BY <1>1, <1>2 DEF IInv, ClaimsAreReal
<1>. QED BY <1>4, <1>5, <1>6, <1>7 DEF IInv

LEMMA NextIInv == IInv /\ [Next]_vars => IInv'
<1> SUFFICES ASSUME IInv, [Next]_vars PROVE IInv'
  OBVIOUS
<1>1. ASSUME NEW j \in Job, Enqueue(j) PROVE IInv' BY <1>1, EnqueueIInv
<1>2. ASSUME NEW j \in Job, Redrive(j) PROVE IInv' BY <1>2, RedriveIInv
<1>3. ASSUME NEW j \in Job, BackoffEnds(j) PROVE IInv' BY <1>3, BackoffEndsIInv
<1>4. ASSUME NEW j \in Job, Lapse(j) PROVE IInv' BY <1>4, LapseIInv
<1>5. ASSUME NEW l \in Loop, Step(l) PROVE IInv'
  BY <1>5, ClaimIInv, WorkIInv, CompleteIInv, RefusedIInv, FailIInv DEF Step
<1>6. ASSUME NEW l \in Loop, Renew(l) \/ RenewError(l) PROVE IInv'
  BY <1>6, RenewIInv, RefusedIInv
<1>7. ASSUME NEW r \in Replica, Crash(r) PROVE IInv' BY <1>7, CrashIInv
<1>8. CASE UNCHANGED vars
  BY <1>8 DEF vars, IInv, TypeOK, PaymentIsPublished, CompleteWasPerformed, ClaimsAreReal
<1>. QED BY <1>1, <1>2, <1>3, <1>4, <1>5, <1>6, <1>7, <1>8 DEF Next

LEMMA Invariance == Spec => []IInv
BY InitIInv, NextIInv, PTL DEF Spec

\* The rows, the loops and the stored payments always have their types
\* (payment.job, processPaymentJob).
THEOREM JobsTypeCorrect == Spec => []TypeOK
BY Invariance, PTL DEF IInv

\* A stored payment, its complete enrichment and its publication job come
\* together or not at all, for any number of purchases, replicas and faults
\* (PaymentStore.complete).
THEOREM PaymentsArePublished == Spec => []PaymentIsPublished
BY Invariance, PTL DEF IInv

\* No job counts as complete before its work was done (processPaymentJob).
THEOREM CompleteMeansPerformed == Spec => []CompleteWasPerformed
BY Invariance, PTL DEF IInv

\* A job leaves `processing` only by the loop that holds its newest token
\* (the fences of renew, complete and fail).
THEOREM FencedByToken == Spec => OnlyTheClaimFinishes
<1> DEFINE Fenced == \A j \in Job :
             job[j].state = "processing" /\ job'[j].state # "processing" =>
               \E l \in Loop : /\ loop[l].job = j
                               /\ loop[l].token = job[j].token
                               /\ loop'[l] # loop[l]
<1>1. ASSUME IInv, Next PROVE Fenced
  <2> SUFFICES ASSUME NEW j \in Job, job[j].state = "processing", job'[j].state # "processing"
               PROVE  \E l \in Loop : /\ loop[l].job = j
                                      /\ loop[l].token = job[j].token
                                      /\ loop'[l] # loop[l]
    OBVIOUS
  <2> USE DEF IInv, TypeOK
  <2>1. ASSUME NEW k \in Job, Enqueue(k) \/ Redrive(k) \/ BackoffEnds(k) \/ Lapse(k) PROVE FALSE
    BY <1>1, <2>1 DEF Enqueue, Redrive, BackoffEnds, Lapse, Row
  <2>2. ASSUME NEW l \in Loop, NEW k \in Job, Claim(l, k) PROVE FALSE
    BY <1>1, <2>2 DEF Claim, Row
  <2>3. ASSUME NEW l \in Loop, Renew(l) \/ RenewError(l) PROVE FALSE
    <3>1. job' = job \/ job' = [job EXCEPT ![loop[l].job].lapsed = FALSE]
      BY <2>3 DEF Renew, RenewError
    <3>2. job'[j].state = job[j].state
      BY <1>1, <3>1 DEF Row
    <3>. QED BY <3>2
  <2>4. ASSUME NEW l \in Loop, Work(l) \/ WorkFails(l) \/ CompleteRefused(l) \/ FailError(l) PROVE FALSE
    BY <1>1, <2>4 DEF Work, WorkFails, CompleteRefused, FailError
  <2>5. ASSUME NEW r \in Replica, Crash(r) PROVE FALSE
    BY <1>1, <2>5 DEF Crash
  <2>6. ASSUME NEW l \in Loop, Complete(l) \/ CompleteUnacknowledged(l)
        PROVE  loop[l].job = j /\ loop[l].token = job[j].token /\ loop'[l] # loop[l]
    <3>1. loop[l].step = "check" /\ Owns(l) /\ CompleteTx(l) /\ loop[l].job \in Job
      BY <1>1, <2>6, WorkingLoop DEF Complete, CompleteUnacknowledged
    <3>2. loop'[l].step # "check"
      BY <1>1, <2>6, WorkingLoop DEF Complete, CompleteUnacknowledged, Idle, LoopState
    <3>3. loop[l].job = j
      <4>1. CASE loop[l].job[1] = "enrich"
        BY <1>1, <3>1, <4>1, JobKeys, CompleteEnrichment
      <4>2. CASE loop[l].job[1] # "enrich"
        BY <1>1, <3>1, <4>2, CompleteOther
      <4>. QED BY <4>1, <4>2
    <3>. QED BY <3>1, <3>2, <3>3 DEF Owns
  <2>7. ASSUME NEW l \in Loop, Fail(l)
        PROVE  loop[l].job = j /\ loop[l].token = job[j].token /\ loop'[l] # loop[l]
    <3>1. loop[l].step = "fail" /\ loop[l].job \in Job /\ loop'[l].step = "idle"
      BY <1>1, <2>7, WorkingLoop DEF Fail, Idle
    <3>2. Owns(l) /\ loop[l].job = j
      BY <1>1, <2>7, <3>1 DEF Fail
    <3>. QED BY <3>1, <3>2 DEF Owns
  <2>. QED BY <1>1, <2>1, <2>2, <2>3, <2>4, <2>5, <2>6, <2>7 DEF Next, Step
<1>2. ASSUME UNCHANGED vars PROVE Fenced
  BY <1>2 DEF vars
<1>3. IInv /\ [Next]_vars => [Fenced]_vars
  BY <1>1, <1>2
<1>. QED BY <1>3, Invariance, PTL DEF Spec, OnlyTheClaimFinishes

-----------------------------------------------------------------------------
\* The refinement: what became of a job depends on the state of its row alone.
LEMMA Fates ==
  /\ Fate("absent") = "absent" /\ Fate("pending") = "open" /\ Fate("processing") = "open"
  /\ Fate("complete") = "done" /\ Fate("quarantined") = "aside"
BY DEF Fate

LEMMA StatusOf ==
  ASSUME NEW j \in Job
  PROVE  Status[j] = Fate(job[j].state) /\ Status'[j] = Fate(job'[j].state)
BY DEF Status

\* A step that changes the state of at most one row.
LEMMA StatusChange ==
  ASSUME NEW j \in Job, \A k \in Job \ {j} : job'[k].state = job[k].state
  PROVE  Status' = [Status EXCEPT ![j] = Status'[j]]
<1>1. \A k \in Job \ {j} : Status'[k] = Status[k] BY DEF Status
<1>2. Status = [k \in Job |-> Status[k]] /\ Status' = [k \in Job |-> Status'[k]] BY DEF Status
<1>. QED BY <1>1, <1>2

LEMMA StatusSame ==
  ASSUME \A j \in Job : \/ job'[j].state = job[j].state
                        \/ /\ job[j].state \in {"pending", "processing"}
                           /\ job'[j].state \in {"pending", "processing"}
  PROVE  Status' = Status
<1>1. \A k \in Job : Status'[k] = Status[k]
  <2> TAKE k \in Job
  <2>1. CASE job'[k].state = job[k].state BY <2>1 DEF Status
  <2>2. CASE job'[k].state # job[k].state BY <2>2, StatusOf, Fates
  <2>. QED BY <2>1, <2>2
<1>2. Status = [k \in Job |-> Status[k]] /\ Status' = [k \in Job |-> Status'[k]] BY DEF Status
<1>. QED BY <1>1, <1>2

LEMMA RefinedInit == Init => Promise!DJInit
BY Fates DEF Init, Absent, Status, Promise!DJInit

\* The completion of a job also accepts what follows from it.
LEMMA RefinedFinish ==
  ASSUME IInv, IInv', NEW l \in Loop, Complete(l) \/ CompleteUnacknowledged(l)
  PROVE  Promise!Finish(loop[l].job)
<1> DEFINE j == loop[l].job
<1>1. /\ loop[l].step = "check" /\ Owns(l) /\ CompleteTx(l) /\ UNCHANGED performed
      /\ j \in Job /\ j \in performed
  BY WorkingLoop DEF Complete, CompleteUnacknowledged, IInv, ClaimsAreReal
<1>2. Status[j] = "open" BY <1>1, StatusOf, Fates DEF Owns
<1>3. Status' = [k \in Job |->
                  IF k = j THEN "done"
                  ELSE IF k \in PublishAfter(j) /\ Status[k] = "absent" THEN "open"
                  ELSE Status[k]]
  <2>1. Status' = [k \in Job |-> Status'[k]] BY DEF Status
  <2>2. CASE j[1] = "enrich"
    <3>1. PICK p \in Purchase : j = Enrich(p) BY <1>1, <2>2, JobKeys
    <3>2. /\ job'[Enrich(p)].state = "complete"
          /\ job'[Publish(p)].state = IF job[Publish(p)].state = "absent" THEN "pending"
                                      ELSE job[Publish(p)].state
          /\ \A k \in Job \ {Enrich(p), Publish(p)} : job'[k] = job[k]
      BY <1>1, <3>1, CompleteEnrichment
    <3>3. PublishAfter(j) = {Publish(p)} BY <3>1, JobKeys DEF PublishAfter
    <3>4. Status'[j] = "done" BY <1>1, <3>1, <3>2, StatusOf, Fates
    <3>5. \A k \in Job \ {Enrich(p), Publish(p)} : Status'[k] = Status[k] BY <3>2 DEF Status
    <3>6. Status'[Publish(p)] = IF Status[Publish(p)] = "absent" THEN "open" ELSE Status[Publish(p)]
      <4>1. Publish(p) \in Job /\ job[Publish(p)].state \in JobStates
        BY JobKeys DEF IInv, TypeOK, Row
      <4>2. CASE job[Publish(p)].state = "absent"
        BY <3>2, <4>1, <4>2, StatusOf, Fates
      <4>3. CASE job[Publish(p)].state # "absent"
        <5>1. job'[Publish(p)].state = job[Publish(p)].state BY <3>2, <4>3
        <5>2. Status'[Publish(p)] = Status[Publish(p)] BY <4>1, <5>1 DEF Status
        <5>3. Status[Publish(p)] # "absent" BY <4>1, <4>3, StatusOf, Fates DEF JobStates
        <5>. QED BY <5>2, <5>3
      <4>. QED BY <4>2, <4>3
    <3>. QED BY <2>1, <3>1, <3>3, <3>4, <3>5, <3>6, JobKeys
  <2>3. CASE j[1] # "enrich"
    <3>1. job'[j].state = "complete" /\ \A k \in Job \ {j} : job'[k] = job[k]
      BY <1>1, <2>3, CompleteOther
    <3>2. PublishAfter(j) = {} BY <2>3 DEF PublishAfter
    <3>3. Status'[j] = "done" BY <1>1, <3>1, StatusOf, Fates
    <3>4. \A k \in Job \ {j} : Status'[k] = Status[k] BY <3>1 DEF Status
    <3>. QED BY <2>1, <3>2, <3>3, <3>4
  <2>. QED BY <2>2, <2>3
<1>. QED BY <1>1, <1>2, <1>3 DEF Promise!Finish

LEMMA RefinedRows ==
  ASSUME IInv, NEW j \in Job, Enqueue(j) \/ Redrive(j) \/ BackoffEnds(j) \/ Lapse(j)
  PROVE  Promise!Accept(j) \/ Promise!TakeUp(j) \/ UNCHANGED <<Status, performed>>
<1>1. CASE Enqueue(j)
  <2>1. /\ job[j].state = "absent" /\ job'[j].state = "pending" /\ UNCHANGED performed
        /\ \A k \in Job \ {j} : job'[k].state = job[k].state
    BY <1>1 DEF Enqueue, Queued, Absent, IInv, TypeOK
  <2>2. Status[j] = "absent" /\ Status' = [Status EXCEPT ![j] = "open"]
    BY <2>1, StatusOf, Fates, StatusChange
  <2>. QED BY <2>1, <2>2 DEF Promise!Accept
<1>2. CASE Redrive(j)
  <2>1. /\ job[j].state = "quarantined" /\ job'[j].state = "pending" /\ UNCHANGED performed
        /\ \A k \in Job \ {j} : job'[k].state = job[k].state
    BY <1>2 DEF Redrive, IInv, TypeOK, Row
  <2>2. Status[j] = "aside" /\ Status' = [Status EXCEPT ![j] = "open"]
    BY <2>1, StatusOf, Fates, StatusChange
  <2>. QED BY <2>1, <2>2 DEF Promise!TakeUp
<1>3. CASE BackoffEnds(j) \/ Lapse(j)
  <2>1. /\ UNCHANGED performed
        /\ \A k \in Job : job'[k].state = job[k].state
    BY <1>3 DEF BackoffEnds, Lapse, IInv, TypeOK, Row
  <2>. QED BY <2>1, StatusSame
<1>. QED BY <1>1, <1>2, <1>3

LEMMA RefinedLoop ==
  ASSUME IInv, IInv', NEW l \in Loop, Step(l) \/ Renew(l) \/ RenewError(l)
  PROVE  \/ loop[l].job \in Job /\ ( \/ Promise!Perform(loop[l].job)
                                     \/ Promise!Finish(loop[l].job)
                                     \/ Promise!SetAside(loop[l].job) )
         \/ UNCHANGED <<Status, performed>>
<1>1. ASSUME NEW j \in Job, Claim(l, j) PROVE UNCHANGED <<Status, performed>>
  <2>1. \A k \in Job \ {j} : job'[k].state = job[k].state
    BY <1>1 DEF Claim, IInv, TypeOK, Row
  <2>2. job[j].state \in {"pending", "processing"} /\ job'[j].state = "processing" /\ UNCHANGED performed
    BY <1>1 DEF Claim, Claimable, IInv, TypeOK, Row
  <2>. QED BY <2>1, <2>2, StatusSame
<1>2. CASE Work(l) \/ WorkFails(l)
  <2>1. /\ loop[l].job \in Job /\ job[loop[l].job].state \in JobStates \ {"absent"}
        /\ performed' \in {performed, performed \cup {loop[l].job}} /\ job' = job
    BY <1>2, WorkingLoop DEF Work, WorkFails, IInv, TypeOK, Row, ClaimsAreReal
  <2>2. Status[loop[l].job] # "absent" BY <2>1, StatusOf, Fates DEF JobStates
  <2>3. Status' = Status BY <2>1, StatusSame
  <2>. QED BY <2>1, <2>2, <2>3 DEF Promise!Perform
<1>3. CASE Complete(l) \/ CompleteUnacknowledged(l)
  BY <1>3, WorkingLoop, RefinedFinish DEF Complete, CompleteUnacknowledged
<1>4. CASE Fail(l)
  <2> DEFINE j == loop[l].job
  <2>1. j \in Job /\ UNCHANGED performed BY <1>4, WorkingLoop DEF Fail
  <2>2. CASE ~Owns(l)
    <3>1. job' = job BY <1>4, <2>2 DEF Fail
    <3>. QED BY <2>1, <3>1, StatusSame
  <2>3. CASE Owns(l)
    <3>1. /\ job[j].state = "processing" /\ job'[j].state \in {"quarantined", "pending"}
          /\ \A k \in Job \ {j} : job'[k].state = job[k].state
      BY <1>4, <2>1, <2>3 DEF Fail, Owns, IInv, TypeOK, Row
    <3>2. CASE job'[j].state = "pending" BY <2>1, <3>1, <3>2, StatusSame
    <3>3. CASE job'[j].state = "quarantined"
      <4>1. Status[j] = "open" /\ Status' = [Status EXCEPT ![j] = "aside"]
        BY <2>1, <3>1, <3>3, StatusOf, Fates, StatusChange
      <4>. QED BY <2>1, <4>1 DEF Promise!SetAside
    <3>. QED BY <3>1, <3>2, <3>3
  <2>. QED BY <2>2, <2>3
<1>5. CASE CompleteRefused(l) \/ FailError(l) \/ RenewError(l)
  BY <1>5, StatusSame DEF CompleteRefused, FailError, RenewError
<1>6. CASE Renew(l)
  <2>1. job' = job \/ job' = [job EXCEPT ![loop[l].job].lapsed = FALSE]
    BY <1>6 DEF Renew
  <2>2. \A k \in Job : job'[k].state = job[k].state
    BY <2>1 DEF IInv, TypeOK, Row
  <2>. QED BY <1>6, <2>2, StatusSame DEF Renew
<1>. QED BY <1>1, <1>2, <1>3, <1>4, <1>5, <1>6 DEF Step

LEMMA RefinedStep == IInv /\ IInv' /\ [Next]_vars => [Promise!DJNext]_(Promise!djVars)
<1> SUFFICES ASSUME IInv, IInv', [Next]_vars
             PROVE  Promise!DJNext \/ UNCHANGED <<Status, performed>>
  BY DEF Promise!djVars
<1>1. ASSUME NEW j \in Job, Enqueue(j) \/ Redrive(j) \/ BackoffEnds(j) \/ Lapse(j)
      PROVE  Promise!DJNext \/ UNCHANGED <<Status, performed>>
  BY <1>1, RefinedRows DEF Promise!DJNext
<1>2. ASSUME NEW l \in Loop, Step(l) \/ Renew(l) \/ RenewError(l)
      PROVE  Promise!DJNext \/ UNCHANGED <<Status, performed>>
  BY <1>2, RefinedLoop DEF Promise!DJNext
<1>3. ASSUME NEW r \in Replica, Crash(r) PROVE UNCHANGED <<Status, performed>>
  BY <1>3, StatusSame DEF Crash
<1>4. CASE UNCHANGED vars
  BY <1>4, StatusSame DEF vars
<1>. QED BY <1>1, <1>2, <1>3, <1>4 DEF Next

\* Leases, tokens and workers keep the promise of DurableJobs: accepted jobs
\* stay, are done only after their work, once, and with their follow-up
\* (PaymentStore, PaymentWorker).
THEOREM JobsAreDurable == Spec => ImplementsDurableJobs
BY RefinedInit, RefinedStep, Invariance, PTL DEF Spec, ImplementsDurableJobs, Promise!DJSpec
=============================================================================
