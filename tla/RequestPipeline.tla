--------------------------- MODULE RequestPipeline ---------------------------
(***************************************************************************)
(* One request through a service: createServiceApp's middlewares, the check *)
(* of the caller, the handler, and the counters that                        *)
(* createTelemetryMiddleware keeps for Prometheus (hono-utils/src/index.ts, *)
(* observability.ts; types/src/auth.ts).  A handler that outlives the       *)
(* timeout is answered for and goes on by itself.                           *)
(***************************************************************************)
EXTENDS Integers, FiniteSets, FiniteSetsExt, Functions

CONSTANTS
  Request,
  Session,      \* what Clerk makes of a token: [user, claims]
  AllowedUsers, \* ADMIN_USER_IDS
  Configured,   \* Clerk's keys are set
  MaxSeries,    \* MAX_HTTP_METRIC_LABEL_SETS
  Failure,      \* statuses a handler answers with when it does not succeed
  Nobody, NoRole

\* What is asked of the constants.
PipelineAssumption ==
  IsFiniteSet(Request) /\ MaxSeries \in Nat /\ Failure \subseteq 200..599

VARIABLES
  phase,     \* of each request: new, running, abandoned or over
  path,      \* where it went
  answer,    \* its status, or 0
  series,    \* httpRecords: count by label set
  overflow   \* overflowRecords: count by class of status

vars == <<phase, path, answer, series, overflow>>

Path == {"probe", "member", "admin", "unknown", "metrics"}
Class(status) == status \div 100
NoSeries == [l \in {} |-> 0]

Init ==
  /\ phase = [q \in Request |-> "new"]
  /\ path = [q \in Request |-> "unknown"]
  /\ answer = [q \in Request |-> 0]
  /\ series = NoSeries
  /\ overflow = NoSeries

\* The first of the four places of a token that names a role decides.
RoleIn(claims) ==
  LET named == {i \in DOMAIN claims : claims[i] # NoRole} IN
  IF named = {} THEN NoRole ELSE claims[Min(named)]

IsPlatformAdmin(s) == s.user \in AllowedUsers \/ RoleIn(s.claims) = "admin"

\* The status a request is turned away with, or 0.
Refusal(p, s, tooLarge) ==
  CASE tooLarge -> 413
    [] p = "unknown" -> 404
    [] p \in {"member", "admin"} /\ ~Configured -> 503
    [] p \in {"member", "admin"} /\ s.user = Nobody -> 401
    [] p = "admin" /\ ~IsPlatformAdmin(s) -> 403
    [] OTHER -> 0

CountedIn(records, key) ==
  IF key \in DOMAIN records THEN [records EXCEPT ![key] = @ + 1]
  ELSE [k \in DOMAIN records \union {key} |-> IF k = key THEN 1 ELSE records[k]]

\* Once the table is full a new label counts as overflow.
RecordHttp(label) ==
  IF label \in DOMAIN series \/ Cardinality(DOMAIN series) < MaxSeries
  THEN series' = CountedIn(series, label) /\ UNCHANGED overflow
  ELSE overflow' = CountedIn(overflow, Class(label.status)) /\ UNCHANGED series

\* createTelemetryMiddleware's finally: reading the counters does not count.
Answer(q, p, status) ==
  /\ answer' = [answer EXCEPT ![q] = status]
  /\ IF p = "metrics" THEN UNCHANGED <<series, overflow>>
     ELSE RecordHttp([path |-> p, status |-> status])

Arrive(q, p, s, tooLarge) ==
  /\ phase[q] = "new"
  /\ path' = [path EXCEPT ![q] = p]
  /\ LET refusal == Refusal(p, s, tooLarge) IN
     IF refusal = 0
     THEN phase' = [phase EXCEPT ![q] = "running"] /\ UNCHANGED <<answer, series, overflow>>
     ELSE phase' = [phase EXCEPT ![q] = "over"] /\ Answer(q, p, refusal)

\* The handler returns or throws within the time.
Finish(q, status) ==
  /\ phase[q] = "running"
  /\ phase' = [phase EXCEPT ![q] = "over"]
  /\ Answer(q, path[q], status)
  /\ UNCHANGED path

\* timeout(): the request is answered 408 and its handler left to itself.
TimeOut(q) ==
  /\ phase[q] = "running"
  /\ phase' = [phase EXCEPT ![q] = "abandoned"]
  /\ Answer(q, path[q], 408)
  /\ UNCHANGED path

\* What the abandoned handler returns is nobody's answer.
FinishLate(q, status) ==
  /\ phase[q] = "abandoned"
  /\ phase' = [phase EXCEPT ![q] = "over"]
  /\ UNCHANGED <<path, answer, series, overflow>>

Next ==
  \E q \in Request :
    \/ \E p \in Path, s \in Session, tooLarge \in BOOLEAN : Arrive(q, p, s, tooLarge)
    \/ \E status \in {200} \union Failure : Finish(q, status) \/ FinishLate(q, status)
    \/ TimeOut(q)

Spec == Init /\ [][Next]_vars

-----------------------------------------------------------------------------
(* Properties *)

Counter == [path : Path, status : 200..599]

TypeOK ==
  /\ phase \in [Request -> {"new", "running", "abandoned", "over"}]
  /\ path \in [Request -> Path]
  /\ answer \in [Request -> {0} \union 200..599]
  /\ DOMAIN series \subseteq Counter /\ Cardinality(DOMAIN series) <= MaxSeries
  /\ DOMAIN overflow \subseteq 2..5

\* One element for each answer of a class that the table has counted.
SeriesUnits(c) ==
  UNION {{<<l, k>> : k \in 1..series[l]} : l \in {x \in DOMAIN series : Class(x.status) = c}}

\* The rates an operator alerts on, by class of status, are exact: whatever
\* the number of label sets and however late a handler ends, the counters of a
\* class sum to the answers of that class.
AnswersAreCounted ==
  \A c \in 2..5 :
    Cardinality(SeriesUnits(c)) + (IF c \in DOMAIN overflow THEN overflow[c] ELSE 0)
    = Cardinality({q \in Request : path[q] # "metrics" /\ Class(answer[q]) = c})

\* Of every step: a scrape never finds a counter lower than the one before, or gone:
\* Prometheus would take it for a restart of the service.
CountersOnlyGrow ==
  /\ \A l \in DOMAIN series : l \in DOMAIN series' /\ series'[l] >= series[l]
  /\ \A c \in DOMAIN overflow : c \in DOMAIN overflow' /\ overflow'[c] >= overflow[c]
=============================================================================
