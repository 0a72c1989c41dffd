----------------------------- MODULE TraceChain -----------------------------
(***************************************************************************)
(* The W3C trace of a payment: from the HTTP request that reports it        *)
(* (hono-utils/tracing.ts), through the job table of payment-service, into  *)
(* the headers of payment.successful (kafka/instrumentation.ts), and out of *)
(* quarantine again (replay.ts).                                            *)
(*                                                                          *)
(* A header is abstracted to its trace id: a number, None when it is        *)
(* missing, Malformed when it does not parse.  Span ids are left out, and   *)
(* so are the rules of parsing.                                             *)
(***************************************************************************)
EXTENDS Integers, Sequences

CONSTANTS
  Payment,
  Clients,      \* callers bring the trace ids 1..Clients along
  MaxRequests,  \* bound on reports of payments
  MaxRecords    \* bound on the records of payment.successful

\* What is asked of the constants.
TraceAssumption == {Clients, MaxRequests, MaxRecords} \subseteq Nat

None == 0
Malformed == -1
Header == {None, Malformed} \union 1..Clients

VARIABLES
  minted,    \* trace ids made so far, Clients included
  requests,  \* reports so far
  job,       \* the rows of a payment's two jobs: [state, trace]
  records,   \* payment.successful: [payment, trace]
  dead       \* the records that were quarantined

vars == <<minted, requests, job, records, dead>>

Kind == {"enrich", "publish"}
Absent == [state |-> "absent", trace |-> None]

Parsed(h) == IF h > 0 THEN h ELSE None

Fresh == minted + 1

\* A valid header's id goes on, any other is replaced by a fresh one.
Carried(h) == IF Parsed(h) # None THEN h ELSE Fresh
Mint(h) == minted' = IF Parsed(h) # None THEN minted ELSE minted + 1

Init ==
  /\ minted = Clients
  /\ requests = 0
  /\ job = [p \in Payment |-> [k \in Kind |-> Absent]]
  /\ records = <<>>
  /\ dead = {}

\* INSERT ... ON CONFLICT DO NOTHING: the first report names the trace.
Enqueue(p, h) ==
  job' = IF job[p]["enrich"].state = "absent"
         THEN [job EXCEPT ![p]["enrich"] = [state |-> "open", trace |-> h]]
         ELSE job

\* A request gets its trace before any handler sees it.
Request(p, h) ==
  /\ requests < MaxRequests /\ requests' = requests + 1
  /\ Mint(h)
  /\ UNCHANGED <<records, dead>>

Webhook(p, h) == Request(p, h) /\ Enqueue(p, Carried(h))

\* The status page's fallback enqueues without the trace of its request.
StatusPage(p, h) == Request(p, h) /\ Enqueue(p, None)

\* Reconciliation has no request, and an event on stripe.checkout.completed
\* brings its header as it is.
Report(p, h) ==
  /\ requests < MaxRequests /\ requests' = requests + 1
  /\ Enqueue(p, h)
  /\ UNCHANGED <<minted, records, dead>>

\* complete: the publication job inherits the column.
Enrich(p) ==
  /\ job[p]["enrich"].state = "open"
  /\ job' = [job EXCEPT
       ![p]["enrich"].state = "done",
       ![p]["publish"] = IF @ = Absent
                         THEN [state |-> "open", trace |-> job[p]["enrich"].trace]
                         ELSE @]
  /\ UNCHANGED <<minted, requests, records, dead>>

\* createKafkaTelemetryHeaders in a worker, where no ambient trace exists.
Outgoing(h) == Carried(h)

\* The worker passes the column on when there is one.  The attempt may be
\* repeated although it was sent.
Publish(p) ==
  LET h == job[p]["publish"].trace IN
  /\ job[p]["publish"].state = "open"
  /\ Len(records) < MaxRecords
  /\ records' = Append(records, [payment |-> p, trace |-> Outgoing(h)])
  /\ Mint(h)
  /\ \E s \in {"open", "done"} : job' = [job EXCEPT ![p]["publish"].state = s]
  /\ UNCHANGED <<requests, dead>>

Quarantine(i) ==
  /\ i \notin dead
  /\ dead' = dead \union {i}
  /\ UNCHANGED <<minted, requests, job, records>>

\* decodeReplay keeps a header that parses and drops any other.
Replay(i) ==
  /\ i \in dead
  /\ Len(records) < MaxRecords
  /\ records' = Append(records, [records[i] EXCEPT !.trace = Parsed(@)])
  /\ UNCHANGED <<minted, requests, job, dead>>

Next ==
  \/ \E p \in Payment :
       \/ \E h \in Header : Webhook(p, h) \/ StatusPage(p, h) \/ Report(p, h)
       \/ Enrich(p)
       \/ Publish(p)
  \/ \E i \in DOMAIN records : Quarantine(i) \/ Replay(i)

Spec == Init /\ [][Next]_vars

-----------------------------------------------------------------------------

TypeOK ==
  /\ minted \in Clients..(Clients + MaxRequests + MaxRecords)
  /\ requests \in 0..MaxRequests
  /\ job \in [Payment -> [Kind -> [state : {"absent", "open", "done"},
                                   trace : {None, Malformed} \union 1..minted]]]
  /\ records \in Seq([payment : Payment, trace : 1..minted])
  /\ Len(records) <= MaxRecords
  /\ dead \subseteq DOMAIN records

\* However often a payment is reported, published and replayed, its records
\* carry the trace that its first report had, if that could be read.
OneTrace ==
  \A i \in DOMAIN records :
    LET first == job[records[i].payment]["enrich"].trace IN
    Parsed(first) # None => records[i].trace = first

\* A trace that no caller brought along is seen on one payment only: whoever
\* follows it in the logs does not end at another customer's order.
TracesTellPaymentsApart ==
  \A i, j \in DOMAIN records :
    /\ records[i].trace = records[j].trace
    /\ records[i].trace > Clients
    => records[i].payment = records[j].payment

=============================================================================
