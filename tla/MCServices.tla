----------------------------- MODULE MCServices -----------------------------
(***************************************************************************)
(* The services and what they share, one component to a behaviour.          *)
(***************************************************************************)
EXTENDS Naturals, TLC

CONSTANTS
  \* of EventConsumer
  Member, Order, NoOne, Attempts, MaxLog, MaxFaults,
  \* of KafkaTopics, and its own bound on failed calls
  Brokers, Replicas, Minima, MaxOutages, TopicFaults, MaxRestarts,
  \* of TraceChain
  Payment, Clients, MaxRequests, MaxRecords,
  \* of ServiceRuntime, with the closing steps that throw
  MaxFlips, ClosingFaults,
  \* of RequestPipeline
  HttpRequest, Session, AllowedUsers, Configured, MaxSeries, Failure, Nobody, NoRole,
  \* of Migration, with its failed statements and lost connections
  Deployer, File, MigrationFaults,
  \* of RateLimit
  Caller, Limit, Window, Day, Delay, MaxTime, MaxCount,
  \* of ServiceClient
  Calls, Accounts, NoAnswer, MaxChanges

\* The sessions TLC chooses from: no user, and users whose token names no role,
\* a role in the second place, and two roles.
MCSession ==
  {[user |-> "nobody", claims |-> <<"none", "none", "none", "none">>],
   [user |-> "alice",  claims |-> <<"none", "none", "none", "none">>],
   [user |-> "bob",    claims |-> <<"none", "admin", "none", "none">>],
   [user |-> "carol",  claims |-> <<"user", "admin", "none", "none">>]}

Symmetry ==
  Permutations(Member) \union Permutations(Order) \union Permutations(HttpRequest)
    \union Permutations(Caller)

\* The component that runs: it has the variables that its module names.
VARIABLE part
VARIABLES
  log, owner, committed, orders, member, fixed,            \* the consumer's
  env, live, topics, proc, open, published, outages, restarts, \* the topics'
  minted, requests, job, records,                          \* the trace's
  service, up, migrated, linked, boot, on, busy, closed, ready, drain, flips, \* the runtime's
  path, answer, series, overflow,                          \* the pipeline's
  pc, file, lock, tables, made,                            \* the migration's
  clock, row, began, granted, refused,                     \* the rate limit's
  call, landed, cache,                                     \* the client's
  dead,    \* the consumer's and the trace's
  phase,   \* the runtime's and the pipeline's
  version, \* the migration's and the client's
  faults   \* the consumer's, the topics', the runtime's and the migration's

all ==
  <<part, log, owner, committed, orders, member, fixed, env, live, topics, proc, open, published,
    outages, restarts, minted, requests, job, records, service, up, migrated, linked, boot, on,
    busy, closed, ready, drain, flips, path, answer, series, overflow, pc, file, lock, tables,
    made, clock, row, began, granted, refused, call, landed, cache, dead, phase, version, faults>>

Consumer == INSTANCE EventConsumer
Topics == INSTANCE KafkaTopics WITH MaxFaults <- TopicFaults
Trace == INSTANCE TraceChain
Runtime == INSTANCE ServiceRuntime WITH MaxFaults <- ClosingFaults
Pipeline == INSTANCE RequestPipeline WITH Request <- HttpRequest
Migrate == INSTANCE Migration WITH MaxFaults <- MigrationFaults
Rate == INSTANCE RateLimit
Client == INSTANCE ServiceClient

ASSUME ServicesAssumption ==
  /\ Consumer!ConsumerAssumption
  /\ Topics!KafkaTopicsAssumption
  /\ Trace!TraceAssumption
  /\ Runtime!RuntimeAssumption
  /\ Pipeline!PipelineAssumption
  /\ Migrate!MigrationAssumption
  /\ Rate!RateLimitAssumption
  /\ Client!ClientAssumption

-----------------------------------------------------------------------------
(* One component to a behaviour.  What it has no name for stays Unused.      *)

Unused == "unused"

\* A behaviour of part p begins.
Begin(p) ==
  /\ part = p
  /\ p # "consumer" =>
       log = Unused /\ owner = Unused /\ committed = Unused /\ orders = Unused
       /\ member = Unused /\ fixed = Unused
  /\ p # "topics" =>
       env = Unused /\ live = Unused /\ topics = Unused /\ proc = Unused /\ open = Unused
       /\ published = Unused /\ outages = Unused /\ restarts = Unused
  /\ p # "trace" =>
       minted = Unused /\ requests = Unused /\ job = Unused /\ records = Unused
  /\ p # "runtime" =>
       service = Unused /\ up = Unused /\ migrated = Unused /\ linked = Unused
       /\ boot = Unused /\ on = Unused /\ busy = Unused /\ closed = Unused /\ ready = Unused
       /\ drain = Unused /\ flips = Unused
  /\ p # "pipeline" =>
       path = Unused /\ answer = Unused /\ series = Unused /\ overflow = Unused
  /\ p # "migration" =>
       pc = Unused /\ file = Unused /\ lock = Unused /\ tables = Unused /\ made = Unused
  /\ p # "rate" =>
       clock = Unused /\ row = Unused /\ began = Unused /\ granted = Unused
       /\ refused = Unused
  /\ p # "client" =>
       call = Unused /\ landed = Unused /\ cache = Unused
  /\ p \notin {"consumer", "trace"} => dead = Unused
  /\ p \notin {"runtime", "pipeline"} => phase = Unused
  /\ p \notin {"migration", "client"} => version = Unused
  /\ p \notin {"consumer", "topics", "runtime", "migration"} => faults = Unused

\* A step of part p.
In(p) ==
  /\ part = p /\ part' = p
  /\ p # "consumer" => UNCHANGED <<log, owner, committed, orders, member, fixed>>
  /\ p # "topics" => UNCHANGED <<env, live, topics, proc, open, published, outages, restarts>>
  /\ p # "trace" => UNCHANGED <<minted, requests, job, records>>
  /\ p # "runtime" => UNCHANGED <<service, up, migrated, linked, boot, on, busy, closed, ready, drain, flips>>
  /\ p # "pipeline" => UNCHANGED <<path, answer, series, overflow>>
  /\ p # "migration" => UNCHANGED <<pc, file, lock, tables, made>>
  /\ p # "rate" => UNCHANGED <<clock, row, began, granted, refused>>
  /\ p # "client" => UNCHANGED <<call, landed, cache>>
  /\ p \notin {"consumer", "trace"} => UNCHANGED dead
  /\ p \notin {"runtime", "pipeline"} => UNCHANGED phase
  /\ p \notin {"migration", "client"} => UNCHANGED version
  /\ p \notin {"consumer", "topics", "runtime", "migration"} => UNCHANGED faults

Init ==
  \/ Begin("consumer") /\ Consumer!Init
  \/ Begin("topics") /\ Topics!Init
  \/ Begin("trace") /\ Trace!Init
  \/ Begin("runtime") /\ Runtime!Init
  \/ Begin("pipeline") /\ Pipeline!Init
  \/ Begin("migration") /\ Migrate!Init
  \/ Begin("rate") /\ Rate!Init
  \/ Begin("client") /\ Client!Init

ConsumerStep == In("consumer") /\ Consumer!Next
TopicsStep == In("topics") /\ Topics!Next
TraceStep == In("trace") /\ Trace!Next
RuntimeStep == In("runtime") /\ Runtime!Next
PipelineStep == In("pipeline") /\ Pipeline!Next
MigrateStep == In("migration") /\ Migrate!Next
RateStep == In("rate") /\ Rate!Next
ClientStep == In("client") /\ Client!Next

Next ==
  \/ ConsumerStep \/ TopicsStep \/ TraceStep \/ RuntimeStep
  \/ PipelineStep \/ MigrateStep \/ RateStep \/ ClientStep

Spec == Init /\ [][Next]_all

-----------------------------------------------------------------------------
(* Properties: each conjunct is stated and explained in its component's module *)

\* The variables of each component have their types, and its counters their
\* bounds: a record is not handled more often than it has attempts, no topic
\* is created that nobody could write to, only a health call fails untranslated.
ServicesTypes ==
  /\ part = "consumer" => Consumer!TypeOK
  /\ part = "topics" => Topics!TypeOK
  /\ part = "trace" => Trace!TypeOK
  /\ part = "runtime" => Runtime!TypeOK
  /\ part = "pipeline" => Pipeline!TypeOK
  /\ part = "migration" => Migrate!TypeOK
  /\ part = "rate" => Rate!TypeOK
  /\ part = "client" => Client!TypeOK

\* What was paid is not lost between the services, however deliveries, faults and
\* starts interleave: no offset passes a payment that left no trace, one payment
\* makes one order, a consumer that runs has its topics and its quarantine, and
\* the records of a payment carry one trace that is nobody else's.
MessagesSettle ==
  /\ part = "consumer" => Consumer!NothingSkipped /\ Consumer!OneOrderPerPayment
  /\ part = "topics" => Topics!AttachedHasItsTopics
  /\ part = "trace" => Trace!OneTrace /\ Trace!TracesTellPaymentsApart

\* A process that was told to stop uses nothing that it has closed, does not look
\* ready, and ends with 0 only when all is drained and closed; no call of the
\* Kafka administration leaves its connection behind.
ProcessesEndClean ==
  /\ part = "runtime" => Runtime!NothingUsesAClosedDependency /\ Runtime!CleanExit /\ Runtime!DrainingIsNotReady
  /\ part = "topics" => Topics!NoConnectionLeft

\* Callers, operators and deployers are told what happened: an account sees its
\* own data, fresh where it matters; a refused write was not done; each answer is
\* counted once and no counter falls; a refusal by the rate limit is earned and
\* two windows are the most that passes in a span shorter than a window by the
\* time statements wait; a migration that succeeded left its own tables, and
\* deployers of one build do not fail each other.
CallersAreServed ==
  /\ part = "client" => Client!OwnDataOnly /\ Client!FreshWhereItMatters /\ Client!RefusedIsNotDone
  /\ part = "pipeline" => Pipeline!AnswersAreCounted
  /\ part = "rate" => Rate!TwoWindowsAtMost /\ Rate!RefusalIsEarned
  /\ part = "migration" => Migrate!DoneIsDeployed /\ Migrate!OnlyAChangeFails
CallersAreServedRight ==
  [][CallersAreServed' /\ (part = "pipeline" => Pipeline!CountersOnlyGrow)]_all
=============================================================================
