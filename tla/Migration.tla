----------------------------- MODULE Migration -----------------------------
(***************************************************************************)
(* migrateInventory (inventory.ts) and PaymentStore.migrate                *)
(* (payment-store.ts), the same transaction on two databases: an advisory  *)
(* lock, a comparison with the recorded checksum, the SQL file and its     *)
(* record.  Deployers of one or several builds run it at the same time,    *)
(* each with the file of its build; they fail, are killed and are started  *)
(* again.                                                                  *)
(***************************************************************************)
EXTENDS Integers

CONSTANTS
  Deployer,
  File,       \* the SQL files of the builds, told apart by their checksum
  MaxFaults   \* bound: statements that fail, connections that are lost

\* What is asked of the constants.
MigrationAssumption == MaxFaults \in Nat

VARIABLES
  pc,       \* the statement each deployer is about to run
  file,     \* the SQL file of its build
  lock,     \* holder of the advisory lock, a set of at most one
  tables,   \* committed: the file that made the tables, a set of at most one
  version,  \* committed: the file recorded as version 001, likewise
  made,     \* what each open transaction has made, likewise
  faults

vars == <<pc, file, lock, tables, version, made, faults>>

Open == {"reading", "applying", "recording", "committing"}

Init ==
  /\ pc = [d \in Deployer |-> "begin"]
  /\ file \in [Deployer -> File]
  /\ lock = {}
  /\ tables = {} /\ version = {}
  /\ made = [d \in Deployer |-> {}]
  /\ faults = 0

\* BEGIN and pg_advisory_xact_lock, which waits for the holder's transaction.
TakeLock(d) ==
  /\ pc[d] = "begin"
  /\ lock = {}
  /\ lock' = {d}
  /\ pc' = [pc EXCEPT ![d] = "reading"]
  /\ UNCHANGED <<file, tables, version, made, faults>>

\* ROLLBACK, or the database's own when the connection is gone.
Ended(d, how) ==
  /\ pc' = [pc EXCEPT ![d] = how]
  /\ lock' = lock \ {d}
  /\ made' = [made EXCEPT ![d] = {}]

Compare(d) ==
  /\ pc[d] = "reading"
  /\ \/ /\ version = {}
        /\ pc' = [pc EXCEPT ![d] = "applying"]
        /\ UNCHANGED <<lock, made>>
     \/ /\ version = {file[d]}
        /\ pc' = [pc EXCEPT ![d] = "committing"]
        /\ UNCHANGED <<lock, made>>
     \/ /\ version \notin {{}, {file[d]}}
        /\ Ended(d, "changed")
  /\ UNCHANGED <<file, tables, version, faults>>

\* The file says CREATE ... IF NOT EXISTS: tables that are there stay as they
\* are.  Two transactions that make the same tables wait for each other.
ApplyFile(d) ==
  /\ pc[d] = "applying"
  /\ \A e \in Deployer \ {d} : made[e] = {}
  /\ made' = [made EXCEPT ![d] = IF tables = {} THEN {file[d]} ELSE tables]
  /\ pc' = [pc EXCEPT ![d] = "recording"]
  /\ UNCHANGED <<file, lock, tables, version, faults>>

\* INSERT of the version, its primary key.
Record(d) ==
  /\ pc[d] = "recording"
  /\ IF version = {}
     THEN pc' = [pc EXCEPT ![d] = "committing"] /\ UNCHANGED <<lock, made>>
     ELSE Ended(d, "duplicate")
  /\ UNCHANGED <<file, tables, version, faults>>

Commit(d) ==
  /\ pc[d] = "committing"
  /\ IF made[d] = {} THEN UNCHANGED <<tables, version>>
     ELSE tables' = made[d] /\ version' = {file[d]}
  /\ Ended(d, "done")
  /\ UNCHANGED <<file, faults>>

\* A statement fails or times out, the wait for the lock included, or the
\* process dies.
Fault(d) ==
  /\ faults < MaxFaults
  /\ pc[d] \in Open \union {"begin"}
  /\ faults' = faults + 1
  /\ Ended(d, "faulted")
  /\ UNCHANGED <<file, tables, version>>

\* COMMIT takes effect and its answer is lost.
CommitUnanswered(d) ==
  /\ pc[d] = "committing"
  /\ faults < MaxFaults
  /\ faults' = faults + 1
  /\ IF made[d] = {} THEN UNCHANGED <<tables, version>>
     ELSE tables' = made[d] /\ version' = {file[d]}
  /\ Ended(d, "faulted")
  /\ UNCHANGED file

\* The deployment is started again, with the same build or another.
StartAgain(d) ==
  /\ pc[d] \in {"faulted", "changed", "duplicate", "done"}
  /\ \E f \in File :
       /\ \/ pc[d] \in {"faulted", "duplicate"}
          \/ f # file[d]
       /\ file' = [file EXCEPT ![d] = f]
  /\ pc' = [pc EXCEPT ![d] = "begin"]
  /\ UNCHANGED <<lock, tables, version, made, faults>>

Step(d) == TakeLock(d) \/ Compare(d) \/ ApplyFile(d) \/ Record(d) \/ Commit(d)

Next == \E d \in Deployer :
  Step(d) \/ Fault(d) \/ CommitUnanswered(d) \/ StartAgain(d)

Spec == Init /\ [][Next]_vars

-----------------------------------------------------------------------------
(* Properties *)

AtMostOne(S) == \A x, y \in S : x = y

TypeOK ==
  /\ pc \in [Deployer -> Open \union {"begin", "done", "changed", "duplicate", "faulted"}]
  /\ file \in [Deployer -> File]
  /\ lock \subseteq Deployer /\ AtMostOne(lock)
  /\ tables \subseteq File /\ AtMostOne(tables)
  /\ version \subseteq File /\ AtMostOne(version)
  /\ made \in [Deployer -> SUBSET File]
  /\ faults \in 0..MaxFaults

\* A deployment that succeeded left the tables of its own file, whoever made
\* them: a changed file does not pass for an applied one.
DoneIsDeployed == \A d \in Deployer : pc[d] = "done" => tables = {file[d]}

\* Deployers of one build do not fail each other: a deployment that fails
\* without a fault brings a file other than the recorded one.
OnlyAChangeFails ==
  \A d \in Deployer :
    /\ pc[d] # "duplicate"
    /\ pc[d] = "changed" => version # {file[d]}

\* Every deployment ends, however many wait for the lock.
Waits(d) == pc[d] = "begin"
Over(d) == pc[d] \in {"done", "changed", "faulted"}
=============================================================================
