----------------------------- MODULE DurableJobs -----------------------------
(***************************************************************************)
(* What the payment service's job table promises, without leases, tokens   *)
(* or workers: a job once accepted is never forgotten, its work is done    *)
(* before it counts as done, it is done once, and what follows from it is  *)
(* accepted in the same step.  Its work may be repeated at any time.       *)
(***************************************************************************)
CONSTANTS Job, Followers(_)

VARIABLES
  status,    \* what became of each job
  performed  \* the jobs whose work was carried out at least once

djVars == <<status, performed>>

DJInit ==
  /\ status = [j \in Job |-> "absent"]
  /\ performed = {}

Accept(j) ==
  /\ status[j] = "absent"
  /\ status' = [status EXCEPT ![j] = "open"]
  /\ UNCHANGED performed

Perform(j) ==
  /\ status[j] # "absent"
  /\ performed' = performed \cup {j}
  /\ UNCHANGED status

Finish(j) ==
  /\ status[j] = "open"
  /\ j \in performed
  /\ status' = [k \in Job |->
       IF k = j THEN "done"
       ELSE IF k \in Followers(j) /\ status[k] = "absent" THEN "open"
       ELSE status[k]]
  /\ UNCHANGED performed

SetAside(j) ==
  /\ status[j] = "open"
  /\ status' = [status EXCEPT ![j] = "aside"]
  /\ UNCHANGED performed

TakeUp(j) ==
  /\ status[j] = "aside"
  /\ status' = [status EXCEPT ![j] = "open"]
  /\ UNCHANGED performed

DJNext == \E j \in Job : Accept(j) \/ Perform(j) \/ Finish(j) \/ SetAside(j) \/ TakeUp(j)

DJSpec == DJInit /\ [][DJNext]_djVars
=============================================================================
