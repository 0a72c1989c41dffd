--------------------------- MODULE ServicesProofs ---------------------------
(***************************************************************************)
(* Proofs about the services that MCServices puts side by side, for any    *)
(* replicas, records, requests, callers and faults: the consumer of the    *)
(* events, EventConsumer, the topics the services start with, KafkaTopics, *)
(* the traces they pass on, TraceChain, how they start and stop,           *)
(* ServiceRuntime, the pipeline of a request, RequestPipeline, the         *)
(* migration of the databases, Migration, the rate limit, RateLimit, and   *)
(* the client through which they are called, ServiceClient.  At the end    *)
(* the theorems about the specification of MCServices itself.              *)
(***************************************************************************)
EXTENDS Integers, Sequences, FiniteSetTheorems, TLAPS, MCServices

-----------------------------------------------------------------------------
(* Counts as sets of units *)

\* One element for each unit that f counts at the members of S.
UnitsOf(f, S) == UNION {{<<l, k>> : k \in 1..f[l]} : l \in S}

\* Finitely many counts have finitely many units.
LEMMA UnitsFinite ==
  ASSUME NEW S, IsFiniteSet(S), NEW f, \A l \in S : f[l] \in Nat
  PROVE  IsFiniteSet(UnitsOf(f, S)) /\ Cardinality(UnitsOf(f, S)) \in Nat
<1> DEFINE Tagged(l) == {<<l, k>> : k \in 1..f[l]}
           Sets == {Tagged(l) : l \in S}
<1>1. IsFiniteSet(Sets)
  <2> DEFINE all_at == [l \in S |-> Tagged(l)]
  <2> HIDE DEF Tagged
  <2>1. all_at \in Surjection(S, Sets)
    BY DEF Surjection
  <2> QED BY <2>1, FS_Surjection
<1>2. ASSUME NEW l \in S PROVE IsFiniteSet(Tagged(l))
  <2> DEFINE units == [k \in 1..f[l] |-> <<l, k>>]
  <2>1. IsFiniteSet(1..f[l])
    <3>1. f[l] \in Int
      OBVIOUS
    <3> QED BY <3>1, FS_Interval
  <2>2. units \in Surjection(1..f[l], Tagged(l))
    BY DEF Surjection
  <2> QED BY <2>1, <2>2, FS_Surjection
<1>3. \A T \in Sets : IsFiniteSet(T)
  BY <1>2
<1>4. IsFiniteSet(UNION Sets)
  <2> HIDE DEF Sets
  <2> QED BY <1>1, <1>3, FS_UNION
<1>5. IsFiniteSet(UnitsOf(f, S))
  BY <1>4 DEF UnitsOf
<1> QED BY <1>5, FS_CardinalityType

\* One more at a member, or at a new one that counts one, is one more unit.
LEMMA UnitAdds ==
  ASSUME NEW S, IsFiniteSet(S), NEW f, \A l \in S : f[l] \in Nat, NEW x, NEW h,
         h[x] = IF x \in S THEN f[x] + 1 ELSE 1,
         \A l \in S : l # x => h[l] = f[l]
  PROVE  Cardinality(UnitsOf(h, S \union {x})) = Cardinality(UnitsOf(f, S)) + 1
<1>1. h[x] \in Nat \ {0}
  OBVIOUS
<1>2. UnitsOf(h, S \union {x}) = UnitsOf(f, S) \union {<<x, h[x]>>}
  <2>1. x \in S => 1..h[x] = 1..f[x] \union {h[x]}
    OBVIOUS
  <2>2. x \notin S => 1..h[x] = {h[x]}
    OBVIOUS
  <2> QED BY <2>1, <2>2 DEF UnitsOf
<1>3. <<x, h[x]>> \notin UnitsOf(f, S)
  <2>1. x \in S => h[x] \notin 1..f[x]
    OBVIOUS
  <2> QED BY <2>1 DEF UnitsOf
<1> QED BY <1>2, <1>3, UnitsFinite, FS_AddElement

-----------------------------------------------------------------------------
(* EventConsumer *)

\* A position in the partition that only settled records are below.
Passed(n) == n <= Len(log) /\ \A k \in 1..n : Consumer!Settled(k)

\* What is committed and what a member has resolved is behind them; a record
\* in hand exists.
PassedInv ==
  /\ Passed(committed)
  /\ \A m \in Member : Passed(member[m].at)
HandInv ==
  \A m \in Member :
    member[m].step \in {"find", "insert", "beat", "send"} => member[m].at < Len(log)

ConsumerInv ==
  Consumer!TypeOK /\ PassedInv /\ HandInv /\ Consumer!OneOrderPerPayment

\* Before the first record nothing has to be settled.
LEMMA InitConsumerInv ==
  ASSUME Consumer!ConsumerAssumption, Consumer!Init
  PROVE  ConsumerInv
<1> USE DEF Consumer!Init, Consumer!Down
<1>1. Consumer!TypeOK
  <2>1. log \in Seq(Consumer!Record) /\ dead \subseteq DOMAIN log
    OBVIOUS
  <2>2. 0 \in 0..Attempts - 1 /\ 0 \in 0..MaxFaults
    BY DEF Consumer!ConsumerAssumption
  <2>3. Consumer!Down \in [step : Consumer!Step, at : Nat, attempt : 0..Attempts - 1,
                           beatFailed : BOOLEAN, closing : BOOLEAN]
    BY <2>2 DEF Consumer!Step
  <2>4. member \in [Member -> [step : Consumer!Step, at : Nat, attempt : 0..Attempts - 1,
                               beatFailed : BOOLEAN, closing : BOOLEAN]]
    BY <2>3
  <2> QED BY <2>1, <2>2, <2>4 DEF Consumer!TypeOK
<1>2. PassedInv /\ HandInv /\ Consumer!OneOrderPerPayment
  BY DEF PassedInv, Passed, HandInv, Consumer!OneOrderPerPayment
<1> QED BY <1>1, <1>2 DEF ConsumerInv

\* The partition, the quarantine and the orders only grow.
Growth ==
  /\ Len(log') \in Nat /\ Len(log) <= Len(log')
  /\ \A k \in 1..Len(log) : log'[k] = log[k]
  /\ dead \subseteq dead' /\ orders \subseteq orders'

LEMMA NothingGrows ==
  ASSUME Consumer!TypeOK, UNCHANGED <<log, dead, orders>>
  PROVE  Growth
BY DEF Consumer!TypeOK, Growth

\* So what was settled stays settled, and what was passed stays passed.
LEMMA PassedStays ==
  ASSUME Consumer!TypeOK, Growth, NEW n \in Nat, Passed(n)
  PROVE  Passed(n)'
<1>1. Len(log) \in Nat
  BY DEF Consumer!TypeOK
<1>2. ASSUME NEW k \in 1..n
      PROVE  Consumer!Settled(k)'
  <2>1. k \in 1..Len(log) /\ Consumer!Settled(k)
    BY <1>1 DEF Passed
  <2> QED BY <2>1 DEF Growth, Consumer!Settled, Consumer!Stored
<1> QED BY <1>1, <1>2 DEF Growth, Passed

MemberRow == [step : Consumer!Step, at : Nat, attempt : 0..Attempts - 1,
              beatFailed : BOOLEAN, closing : BOOLEAN]
InHand(entry) == entry.step \in {"find", "insert", "beat", "send"}

\* A member may go to the start, to what is committed, stay where it is, or pass
\* a record that is settled.
LEMMA MemberMoves ==
  ASSUME Consumer!TypeOK, PassedInv, HandInv, Growth,
         NEW m \in Member, NEW entry \in MemberRow,
         member' = [member EXCEPT ![m] = entry],
         InHand(entry) => entry.at < Len(log'),
         \/ entry.at \in {0, committed, member[m].at}
         \/ entry.at = member[m].at + 1 /\ member[m].at < Len(log) /\ Consumer!Settled(entry.at)',
         committed' \in {committed, member[m].at}
  PROVE  PassedInv' /\ HandInv' /\ member' \in [Member -> MemberRow]
<1>0. /\ Len(log) \in Nat /\ committed \in Nat
      /\ member \in [Member -> MemberRow]
  BY DEF Consumer!TypeOK, MemberRow
<1>1. \A k \in Nat : Passed(k) => Passed(k)'
  BY PassedStays
<1>2. Passed(committed)'
  <2>1. Passed(committed) /\ Passed(member[m].at) /\ member[m].at \in Nat
    BY <1>0 DEF PassedInv, MemberRow
  <2>2. PICK k \in Nat : k = committed' /\ Passed(k)
    BY <1>0, <2>1
  <2> QED BY <1>1, <2>2 DEF Passed
<1>3. Passed(entry.at)'
  <2>1. CASE entry.at \in {0, committed, member[m].at}
    <3>1. Passed(entry.at)
      BY <1>0, <2>1 DEF PassedInv, Passed
    <3> QED BY <1>1, <3>1 DEF MemberRow
  <2>2. CASE entry.at = member[m].at + 1 /\ member[m].at < Len(log) /\ Consumer!Settled(entry.at)'
    <3>2. PICK n \in Nat : n = member[m].at
      BY <1>0 DEF MemberRow
    <3>3. \A k \in 1..n : Consumer!Settled(k)'
      BY <1>0, <1>1, <3>2 DEF PassedInv, Passed
    <3> QED BY <1>0, <2>2, <3>2, <3>3 DEF Growth, Passed
  <2> QED BY <2>1, <2>2
<1>4. \A q \in Member \ {m} : member'[q] = member[q] /\ Passed(member[q].at)'
  BY <1>0, <1>1 DEF PassedInv, Passed, MemberRow
<1>5. PassedInv'
  BY <1>0, <1>2, <1>3, <1>4 DEF PassedInv, Passed
<1>6. HandInv'
  BY <1>0, <1>4 DEF HandInv, InHand, Growth, MemberRow
<1> QED BY <1>0, <1>5, <1>6

\* A step of one member that adds nothing to the partition, the quarantine or the
\* orders keeps the invariant.
LEMMA MemberStep ==
  ASSUME ConsumerInv, UNCHANGED <<log, dead, orders, fixed>>,
         NEW m \in Member, NEW entry \in MemberRow,
         member' = [member EXCEPT ![m] = entry],
         InHand(entry) => entry.at < Len(log),
         \/ entry.at \in {0, committed, member[m].at}
         \/ entry.at = member[m].at + 1 /\ member[m].at < Len(log) /\ Consumer!Settled(entry.at),
         committed' \in {committed, member[m].at},
         owner' \in Member \union {NoOne}, faults' \in 0..MaxFaults
  PROVE  ConsumerInv'
<1>1. Consumer!TypeOK /\ PassedInv /\ HandInv /\ Consumer!OneOrderPerPayment /\ Growth
  BY NothingGrows DEF ConsumerInv
<1>2. Consumer!Settled(entry.at) => Consumer!Settled(entry.at)'
  BY DEF Consumer!Settled, Consumer!Stored
<1>3. PassedInv' /\ HandInv' /\ member' \in [Member -> MemberRow]
  <2>1. InHand(entry) => entry.at < Len(log')
    OBVIOUS
  <2>2. \/ entry.at \in {0, committed, member[m].at}
        \/ entry.at = member[m].at + 1 /\ member[m].at < Len(log) /\ Consumer!Settled(entry.at)'
    BY <1>2
  <2> QED BY <1>1, <2>1, <2>2, MemberMoves
<1>4. Consumer!TypeOK'
  BY <1>1, <1>3 DEF Consumer!TypeOK, MemberRow
<1>5. Consumer!OneOrderPerPayment'
  BY <1>1 DEF Consumer!OneOrderPerPayment
<1> QED BY <1>3, <1>4, <1>5 DEF ConsumerInv

\* Another record at the end of the partition settles or unsettles none.
LEMMA AppendConsumerInv ==
  ASSUME ConsumerInv, NEW record \in Consumer!Record, log' = Append(log, record),
         UNCHANGED <<owner, committed, dead, orders, member, fixed, faults>>
  PROVE  ConsumerInv'
<1>1. Consumer!TypeOK /\ PassedInv /\ HandInv /\ Consumer!OneOrderPerPayment
  BY DEF ConsumerInv
<1>2. /\ log \in Seq(Consumer!Record) /\ log' \in Seq(Consumer!Record)
      /\ Len(log) \in Nat /\ Len(log') = Len(log) + 1
      /\ \A k \in 1..Len(log) : log'[k] = log[k]
  BY <1>1 DEF Consumer!TypeOK
<1>3. Growth
  BY <1>2 DEF Growth
<1>4. Consumer!TypeOK'
  <2>1. DOMAIN log = 1..Len(log) /\ DOMAIN log' = 1..Len(log')
    BY <1>2
  <2>2. DOMAIN log \subseteq DOMAIN log'
    BY <1>2, <2>1
  <2> QED BY <1>1, <1>2, <2>2 DEF Consumer!TypeOK
<1>5. PassedInv'
  <2>1. \A k \in Nat : Passed(k) => Passed(k)'
    BY <1>1, <1>3, PassedStays
  <2> QED BY <1>1, <2>1 DEF PassedInv, Passed, Consumer!TypeOK
<1>6. HandInv' /\ Consumer!OneOrderPerPayment'
  BY <1>1, <1>2 DEF HandInv, Consumer!OneOrderPerPayment, Consumer!TypeOK
<1> QED BY <1>4, <1>5, <1>6 DEF ConsumerInv

\* Producers and the operator who replays a quarantined record append to it.
LEMMA ProducersConsumerInv ==
  ASSUME ConsumerInv
  PROVE  /\ \A o \in Order, kind \in Consumer!Kind : Consumer!Publish(o, kind) => ConsumerInv'
         /\ \A n \in dead : Consumer!Replay(n) => ConsumerInv'
<1>1. ASSUME NEW o \in Order, NEW kind \in Consumer!Kind, Consumer!Publish(o, kind)
      PROVE  ConsumerInv'
  <2>1. [order |-> o, kind |-> kind] \in Consumer!Record
    BY DEF Consumer!Record
  <2> QED BY <1>1, <2>1, AppendConsumerInv DEF Consumer!Publish
<1>2. ASSUME NEW n \in dead, Consumer!Replay(n)
      PROVE  ConsumerInv'
  <2>1. log[n] \in Consumer!Record
    BY DEF ConsumerInv, Consumer!TypeOK
  <2> QED BY <1>2, <2>1, AppendConsumerInv DEF Consumer!Replay
<1> QED BY <1>1, <1>2

\* The members of a group, and what a fault costs.
LEMMA ConsumerFields ==
  ASSUME ConsumerInv, Consumer!ConsumerAssumption, NEW m \in Member
  PROVE  /\ member[m] \in MemberRow
         /\ owner \in Member \union {NoOne} /\ faults \in 0..MaxFaults
         /\ Consumer!Fault => faults' \in 0..MaxFaults
         /\ InHand(member[m]) => member[m].at < Len(log)
         /\ committed \in Nat
<1>1. /\ member[m] \in MemberRow
      /\ owner \in Member \union {NoOne} /\ faults \in 0..MaxFaults
      /\ committed \in Nat
  BY DEF ConsumerInv, Consumer!TypeOK, MemberRow
<1>2. Consumer!Fault => faults' \in 0..MaxFaults
  BY <1>1 DEF Consumer!Fault, Consumer!ConsumerAssumption
<1>3. InHand(member[m]) => member[m].at < Len(log)
  BY DEF ConsumerInv, HandInv, InHand
<1> QED BY <1>1, <1>2, <1>3

LEMMA LeaveConsumerInv ==
  ASSUME ConsumerInv, NEW m \in Member, Consumer!Leave(m), Consumer!ConsumerAssumption,
         UNCHANGED <<log, dead, orders, fixed, committed>>, faults' \in 0..MaxFaults
  PROVE  ConsumerInv'
<1>1. Consumer!Down \in MemberRow /\ Consumer!Down.at = 0 /\ ~InHand(Consumer!Down)
  BY DEF Consumer!Down, MemberRow, Consumer!Step, InHand, Consumer!ConsumerAssumption
<1>2. owner' \in Member \union {NoOne}
  BY ConsumerFields DEF Consumer!Leave
<1> QED BY <1>1, <1>2, MemberStep DEF Consumer!Leave

\* Joining and leaving the group: a member starts from what is committed.
LEMMA GroupConsumerInv ==
  ASSUME ConsumerInv, Consumer!ConsumerAssumption, NEW m \in Member,
         \/ Consumer!Connect(m) \/ Consumer!Assign(m) \/ Consumer!Crash(m)
         \/ Consumer!Shutdown(m) \/ Consumer!Disconnect(m)
  PROVE  ConsumerInv'
<1>0. /\ member[m] \in MemberRow /\ member \in [Member -> MemberRow] /\ committed \in Nat
      /\ owner \in Member \union {NoOne} /\ faults \in 0..MaxFaults
      /\ Consumer!Fault => faults' \in 0..MaxFaults
      /\ InHand(member[m]) => member[m].at < Len(log)
  BY ConsumerFields DEF ConsumerInv, Consumer!TypeOK, MemberRow
<1>1. CASE Consumer!Connect(m)
  <2> DEFINE entry == [member[m] EXCEPT !.step = "waiting"]
  <2>1. entry \in MemberRow /\ entry.at = member[m].at /\ ~InHand(entry)
    BY <1>0 DEF MemberRow, Consumer!Step, InHand
  <2>2. member' = [member EXCEPT ![m] = entry]
    BY <1>0, <1>1 DEF Consumer!Connect
  <2> QED BY <1>0, <1>1, <2>1, <2>2, MemberStep DEF Consumer!Connect
<1>2. CASE Consumer!Assign(m)
  <2> DEFINE entry == [member[m] EXCEPT !.step = "idle", !.at = committed]
  <2>1. entry \in MemberRow /\ entry.at = committed /\ ~InHand(entry)
    BY <1>0 DEF MemberRow, Consumer!Step, InHand
  <2>2. member' = [member EXCEPT ![m] = entry]
    BY <1>0, <1>2 DEF Consumer!Assign
  <2>3. faults' \in 0..MaxFaults
    BY <1>0, <1>2 DEF Consumer!Assign
  <2> QED BY <1>0, <1>2, <2>1, <2>2, <2>3, MemberStep DEF Consumer!Assign
<1>3. CASE Consumer!Crash(m)
  BY <1>0, <1>3, LeaveConsumerInv DEF Consumer!Crash
<1>4. CASE Consumer!Shutdown(m)
  <2> DEFINE entry == [member[m] EXCEPT !.closing = TRUE]
  <2>1. entry \in MemberRow /\ entry.at = member[m].at /\ (InHand(entry) => InHand(member[m]))
    BY <1>0 DEF MemberRow, Consumer!Step, InHand
  <2>2. member' = [member EXCEPT ![m] = entry]
    BY <1>0, <1>4 DEF Consumer!Shutdown
  <2> QED BY <1>0, <1>4, <2>1, <2>2, MemberStep DEF Consumer!Shutdown
<1>5. CASE Consumer!Disconnect(m)
  BY <1>0, <1>5, LeaveConsumerInv DEF Consumer!Disconnect
<1> QED BY <1>1, <1>2, <1>3, <1>4, <1>5

\* A member that has passed one more record.
PassedOne(entry) == [entry EXCEPT !.step = "idle", !.at = @ + 1, !.beatFailed = FALSE]

LEMMA PassedOneRow ==
  ASSUME NEW entry \in MemberRow
  PROVE  /\ PassedOne(entry) \in MemberRow
         /\ PassedOne(entry).at = entry.at + 1
         /\ ~InHand(PassedOne(entry))
<1>1. entry.at + 1 \in Nat
  BY DEF MemberRow
<1>2. PassedOne(entry) = [entry EXCEPT !.step = "idle", !.at = entry.at + 1, !.beatFailed = FALSE]
  BY DEF PassedOne
<1>3. "idle" \in Consumer!Step /\ FALSE \in BOOLEAN
  BY DEF Consumer!Step
<1>4. PassedOne(entry) \in MemberRow /\ PassedOne(entry).at = entry.at + 1
  BY <1>1, <1>2, <1>3 DEF MemberRow
<1>5. PassedOne(entry).step = "idle"
  BY <1>2 DEF MemberRow
<1> QED BY <1>4, <1>5 DEF InHand

\* A record is resolved when it is settled.
LEMMA ResolvedConsumerInv ==
  ASSUME ConsumerInv, Consumer!ConsumerAssumption, NEW m \in Member,
         InHand(member[m]), Consumer!Resolved(m), Consumer!Settled(member[m].at + 1),
         UNCHANGED <<log, dead, orders, fixed, owner, committed, faults>>
  PROVE  ConsumerInv'
<1>0. /\ member[m] \in MemberRow /\ member \in [Member -> MemberRow]
      /\ owner \in Member \union {NoOne} /\ faults \in 0..MaxFaults
      /\ member[m].at < Len(log) /\ committed \in Nat
  BY ConsumerFields DEF ConsumerInv, Consumer!TypeOK, MemberRow
<1> DEFINE entry == PassedOne(member[m])
<1>1. entry \in MemberRow /\ entry.at = member[m].at + 1 /\ ~InHand(entry)
  BY <1>0, PassedOneRow
<1>2. member' = [member EXCEPT ![m] = entry]
  BY <1>0 DEF Consumer!Resolved, PassedOne
<1> HIDE DEF entry
<1> QED BY <1>0, <1>1, <1>2, MemberStep

\* A step that leaves the record in hand, or takes one up that exists.
LEMMA StayConsumerInv ==
  ASSUME ConsumerInv, Consumer!ConsumerAssumption, NEW m \in Member, NEW entry \in MemberRow,
         member' = [member EXCEPT ![m] = entry], entry.at = member[m].at,
         InHand(entry) => member[m].at < Len(log),
         UNCHANGED <<log, dead, orders, fixed, owner, committed>>, faults' \in 0..MaxFaults
  PROVE  ConsumerInv'
<1>0. owner \in Member \union {NoOne}
  BY ConsumerFields
<1> QED BY <1>0, MemberStep

LEMMA ToConsumerInv ==
  ASSUME ConsumerInv, Consumer!ConsumerAssumption, NEW m \in Member,
         NEW step \in {"insert", "beat"}, InHand(member[m]), Consumer!To(m, step),
         UNCHANGED <<log, dead, orders, fixed, owner, committed>>, faults' \in 0..MaxFaults
  PROVE  ConsumerInv'
<1> DEFINE entry == [member[m] EXCEPT !.step = step]
<1>0. member[m] \in MemberRow /\ member[m].at < Len(log) /\ member \in [Member -> MemberRow]
  BY ConsumerFields DEF ConsumerInv, Consumer!TypeOK, MemberRow
<1>1. entry \in MemberRow /\ entry.at = member[m].at
  BY <1>0 DEF MemberRow, Consumer!Step
<1>2. member' = [member EXCEPT ![m] = entry]
  BY <1>0 DEF Consumer!To
<1> HIDE DEF entry
<1> QED BY <1>0, <1>1, <1>2, StayConsumerInv

\* Handling a record, up to what the database answers.
LEMMA HandleConsumerInv ==
  ASSUME ConsumerInv, Consumer!ConsumerAssumption, NEW m \in Member,
         \/ Consumer!Take(m) \/ Consumer!BeatBeside(m) \/ Consumer!HandlerThrows(m)
         \/ Consumer!Find(m) \/ Consumer!Retry(m)
  PROVE  ConsumerInv'
<1>0. /\ member[m] \in MemberRow /\ member \in [Member -> MemberRow]
      /\ faults \in 0..MaxFaults
      /\ Consumer!Fault => faults' \in 0..MaxFaults
      /\ InHand(member[m]) => member[m].at < Len(log)
  BY ConsumerFields DEF ConsumerInv, Consumer!TypeOK, MemberRow
<1>1. CASE Consumer!Take(m)
  <2> DEFINE entry == [member[m] EXCEPT
                       !.step = IF Consumer!Current(m).kind = "malformed" THEN "send" ELSE "find",
                       !.attempt = 0]
  <2>1. entry \in MemberRow /\ entry.at = member[m].at
    <3>1. 0 \in 0..Attempts - 1
      BY DEF Consumer!ConsumerAssumption
    <3>2. (IF Consumer!Current(m).kind = "malformed" THEN "send" ELSE "find") \in Consumer!Step
      BY DEF Consumer!Step
    <3> QED BY <1>0, <3>1, <3>2 DEF MemberRow
  <2>2. member' = [member EXCEPT ![m] = entry] /\ member[m].at < Len(log)
    BY <1>0, <1>1 DEF Consumer!Take
  <2> HIDE DEF entry
  <2> QED BY <1>0, <1>1, <2>1, <2>2, StayConsumerInv DEF Consumer!Take
<1>2. CASE Consumer!BeatBeside(m)
  <2> DEFINE entry == [member[m] EXCEPT !.beatFailed = TRUE]
  <2>1. entry \in MemberRow /\ entry.at = member[m].at /\ entry.step = member[m].step
    BY <1>0 DEF MemberRow
  <2>2. member' = [member EXCEPT ![m] = entry] /\ faults' \in 0..MaxFaults
    BY <1>0, <1>2 DEF Consumer!BeatBeside
  <2> HIDE DEF entry
  <2> QED BY <1>0, <1>2, <2>1, <2>2, StayConsumerInv DEF Consumer!BeatBeside, InHand
<1>3. CASE Consumer!HandlerThrows(m)
  <2>1. InHand(member[m]) /\ faults' \in 0..MaxFaults
    BY <1>0, <1>3 DEF Consumer!HandlerThrows, InHand
  <2> QED BY <1>3, <2>1, ToConsumerInv DEF Consumer!HandlerThrows
<1>4. CASE Consumer!Find(m)
  <2>1. InHand(member[m]) /\ UNCHANGED <<log, owner, committed, dead, orders, fixed, faults>>
    BY <1>4 DEF Consumer!Find, InHand
  <2>2. CASE Consumer!Resolved(m) /\ Consumer!Stored(Consumer!Current(m).order)
    <3>1. Consumer!Settled(member[m].at + 1)
      BY <2>2 DEF Consumer!Settled, Consumer!Current
    <3> QED BY <2>1, <2>2, <3>1, ResolvedConsumerInv
  <2>3. CASE Consumer!To(m, "insert") \/ Consumer!To(m, "beat")
    BY <1>0, <2>1, <2>3, ToConsumerInv
  <2> QED BY <1>4, <2>2, <2>3 DEF Consumer!Find, Consumer!Handled
<1>5. CASE Consumer!Retry(m)
  <2> DEFINE last == member[m].attempt + 1 = Attempts
             entry == [member[m] EXCEPT !.step = IF last THEN "send" ELSE "find",
                                      !.attempt = IF last THEN 0 ELSE @ + 1,
                                      !.beatFailed = FALSE]
  <2>1. entry \in MemberRow /\ entry.at = member[m].at
    <3>1. (IF last THEN 0 ELSE member[m].attempt + 1) \in 0..Attempts - 1
      BY <1>0 DEF MemberRow, Consumer!ConsumerAssumption
    <3> QED BY <1>0, <3>1 DEF MemberRow, Consumer!Step
  <2>2. member' = [member EXCEPT ![m] = entry] /\ InHand(member[m])
    BY <1>0, <1>5 DEF Consumer!Retry, InHand
  <2> HIDE DEF entry
  <2> QED BY <1>0, <1>5, <2>1, <2>2, StayConsumerInv DEF Consumer!Retry
<1> QED BY <1>1, <1>2, <1>3, <1>4, <1>5

\* The order of the record in hand is stored, by this member or another.
LEMMA InsertConsumerInv ==
  ASSUME ConsumerInv, Consumer!ConsumerAssumption, NEW m \in Member, Consumer!Insert(m)
  PROVE  ConsumerInv'
<1>0. /\ member[m] \in MemberRow /\ member \in [Member -> MemberRow]
      /\ owner \in Member \union {NoOne} /\ faults \in 0..MaxFaults
      /\ Consumer!Fault => faults' \in 0..MaxFaults
      /\ InHand(member[m]) /\ member[m].at < Len(log)
      /\ log \in Seq(Consumer!Record) /\ Len(log) \in Nat
  <2>1. InHand(member[m])
    BY DEF Consumer!Insert, InHand
  <2> QED BY <2>1, ConsumerFields DEF ConsumerInv, Consumer!TypeOK, MemberRow
<1>1. CASE Consumer!Stored(Consumer!Current(m).order)
  <2>1. UNCHANGED <<log, owner, committed, dead, orders, fixed, faults>>
    BY <1>1 DEF Consumer!Insert
  <2>2. CASE Consumer!Resolved(m)
    <3>1. Consumer!Settled(member[m].at + 1)
      BY <1>1 DEF Consumer!Settled, Consumer!Current
    <3> QED BY <1>0, <2>1, <2>2, <3>1, ResolvedConsumerInv
  <2>3. CASE Consumer!To(m, "beat")
    BY <1>0, <2>1, <2>3, ToConsumerInv
  <2> QED BY <1>1, <2>2, <2>3 DEF Consumer!Insert, Consumer!Handled
<1>2. CASE ~Consumer!Stored(Consumer!Current(m).order)
  <2>0. PICK n \in Nat : n = member[m].at + 1
    BY <1>0 DEF MemberRow
  <2> DEFINE o == log[n].order
             d == [order |-> o, offset |-> n, by |-> m]
  <2>1. /\ UNCHANGED <<log, owner, committed, dead, fixed>> /\ faults' \in 0..MaxFaults
        /\ orders' = orders \union {d}
        /\ Consumer!Resolved(m) \/ Consumer!To(m, "beat")
    BY <1>0, <1>2, <2>0 DEF Consumer!Insert, Consumer!Handled, Consumer!Current
  <2>2. n \in 1..Len(log) /\ log[n] \in Consumer!Record /\ o \in Order
        /\ n \in DOMAIN log /\ n = member[m].at + 1
    <3>1. n \in 1..Len(log)
      BY <1>0, <2>0 DEF MemberRow
    <3>2. log[n] \in Consumer!Record /\ n \in DOMAIN log
      BY <1>0, <3>1
    <3> QED BY <2>0, <3>1, <3>2 DEF Consumer!Record
  <2>3. \A e \in orders : e.order # o
    BY <1>2, <2>0 DEF Consumer!Stored, Consumer!Current
  <2>4. Growth
    BY <1>0, <2>1 DEF Growth
  <2>5. Consumer!Settled(n)'
    <3>1. d \in orders' /\ d.order = log'[n].order
      BY <2>1
    <3> QED BY <3>1 DEF Consumer!Settled, Consumer!Stored
  <2>6. PassedInv' /\ HandInv' /\ member' \in [Member -> MemberRow]
    <3>0. Consumer!TypeOK /\ PassedInv /\ HandInv
      BY DEF ConsumerInv
    <3>1. CASE Consumer!Resolved(m)
      <4>1. PICK entry \in MemberRow : entry = PassedOne(member[m])
        BY <1>0, PassedOneRow
      <4>2. entry.at = n /\ ~InHand(entry)
        BY <1>0, <2>2, <4>1, PassedOneRow
      <4>3. member' = [member EXCEPT ![m] = entry]
        BY <1>0, <3>1, <4>1 DEF Consumer!Resolved, PassedOne
      <4> QED BY <1>0, <2>1, <2>2, <2>4, <2>5, <3>0, <4>2, <4>3, MemberMoves
    <3>2. CASE Consumer!To(m, "beat")
      <4> DEFINE entry == [member[m] EXCEPT !.step = "beat"]
      <4>1. entry \in MemberRow /\ entry.at = member[m].at
        BY <1>0 DEF MemberRow, Consumer!Step
      <4>2. member' = [member EXCEPT ![m] = entry]
        BY <1>0, <3>2 DEF Consumer!To
      <4> HIDE DEF entry
      <4> QED BY <1>0, <2>1, <2>4, <3>0, <4>1, <4>2, MemberMoves
    <3> QED BY <2>1, <3>1, <3>2
  <2>7. Consumer!TypeOK'
    <3>1. orders' \subseteq [order : Order, offset : DOMAIN log', by : Member]
      BY <2>1, <2>2 DEF ConsumerInv, Consumer!TypeOK
    <3> QED BY <2>1, <2>6, <3>1 DEF ConsumerInv, Consumer!TypeOK, MemberRow
  <2>8. Consumer!OneOrderPerPayment'
    BY <2>1, <2>3 DEF ConsumerInv, Consumer!OneOrderPerPayment
  <2> QED BY <2>6, <2>7, <2>8 DEF ConsumerInv
<1> QED BY <1>1, <1>2

\* What Kafka took into the dead-letter topic is settled.
LEMMA QuarantineConsumerInv ==
  ASSUME ConsumerInv, Consumer!ConsumerAssumption, NEW m \in Member, Consumer!Quarantine(m)
  PROVE  ConsumerInv'
<1>0. /\ member[m] \in MemberRow /\ member \in [Member -> MemberRow]
      /\ member[m].at < Len(log)
      /\ log \in Seq(Consumer!Record) /\ Len(log) \in Nat
      /\ Consumer!TypeOK /\ PassedInv /\ HandInv
  <2>1. InHand(member[m])
    BY DEF Consumer!Quarantine, InHand
  <2> QED BY <2>1, ConsumerFields DEF ConsumerInv, Consumer!TypeOK, MemberRow
<1>1. PICK n \in DOMAIN log : n = member[m].at + 1
  BY <1>0 DEF MemberRow
<1>1a. PICK entry \in MemberRow : entry = PassedOne(member[m])
  BY <1>0, PassedOneRow
<1>2. /\ UNCHANGED <<log, owner, committed, orders, fixed, faults>>
      /\ dead' = dead \union {n} /\ member' = [member EXCEPT ![m] = entry]
  BY <1>0, <1>1, <1>1a DEF Consumer!Quarantine, Consumer!Resolved, PassedOne
<1>3. entry.at = n /\ ~InHand(entry)
  BY <1>0, <1>1, <1>1a, PassedOneRow
<1>4. Growth /\ Consumer!Settled(n)'
  BY <1>0, <1>2 DEF Growth, Consumer!Settled
<1>5. PassedInv' /\ HandInv' /\ member' \in [Member -> MemberRow]
  <2>1. entry.at = member[m].at + 1 /\ Consumer!Settled(entry.at)'
    BY <1>1, <1>3, <1>4 DEF Consumer!Settled
  <2> QED BY <1>0, <1>2, <1>3, <1>4, <2>1, MemberMoves
<1>6. Consumer!TypeOK'
  BY <1>0, <1>1, <1>2, <1>5 DEF Consumer!TypeOK, MemberRow
<1>7. Consumer!OneOrderPerPayment'
  BY <1>2 DEF ConsumerInv, Consumer!OneOrderPerPayment
<1> QED BY <1>5, <1>6, <1>7 DEF ConsumerInv

\* An owner commits what it passed; a member that is refused starts again.
LEMMA CommitConsumerInv ==
  ASSUME ConsumerInv, Consumer!ConsumerAssumption, NEW m \in Member,
         \/ Consumer!BeatThrows(m) \/ Consumer!QuarantineThrows(m) \/ Consumer!Commit(m)
  PROVE  ConsumerInv'
<1>0. /\ member[m] \in MemberRow /\ member \in [Member -> MemberRow]
      /\ owner \in Member \union {NoOne} /\ faults \in 0..MaxFaults
      /\ Consumer!Fault => faults' \in 0..MaxFaults
      /\ InHand(member[m]) => member[m].at < Len(log)
  BY ConsumerFields DEF ConsumerInv, Consumer!TypeOK, MemberRow
<1>1. CASE Consumer!BeatThrows(m) \/ Consumer!QuarantineThrows(m)
  BY <1>0, <1>1, LeaveConsumerInv DEF Consumer!BeatThrows, Consumer!QuarantineThrows
<1>2. CASE Consumer!Commit(m) /\ Consumer!Owns(m)
  <2>1. /\ member' = [member EXCEPT ![m] = member[m]] /\ committed' = member[m].at
        /\ UNCHANGED <<log, dead, orders, fixed, owner, faults>>
    BY <1>0, <1>2 DEF Consumer!Commit
  <2> QED BY <1>0, <2>1, MemberStep
<1>3. CASE Consumer!Commit(m) /\ ~Consumer!Owns(m)
  BY <1>0, <1>3, LeaveConsumerInv DEF Consumer!Commit
<1> QED BY <1>1, <1>2, <1>3

\* The invariant holds throughout.
LEMMA ConsumerInvKept ==
  ASSUME Consumer!ConsumerAssumption, ConsumerInv, [Consumer!Next]_(Consumer!vars)
  PROVE  ConsumerInv'
<1>1. CASE Consumer!Fix
  <2>1. UNCHANGED <<log, owner, committed, dead, orders, member, faults>> /\ fixed' \in BOOLEAN
    BY <1>1 DEF Consumer!Fix
  <2> QED BY <2>1 DEF ConsumerInv, Consumer!TypeOK, PassedInv, Passed, HandInv,
            Consumer!OneOrderPerPayment, Consumer!Settled, Consumer!Stored
<1>2. ASSUME NEW m \in Member,
             \/ Consumer!Connect(m) \/ Consumer!Assign(m) \/ Consumer!Crash(m)
             \/ Consumer!Shutdown(m) \/ Consumer!Disconnect(m)
             \/ Consumer!Take(m) \/ Consumer!BeatBeside(m) \/ Consumer!HandlerThrows(m)
             \/ Consumer!Find(m) \/ Consumer!Insert(m) \/ Consumer!Retry(m)
             \/ Consumer!BeatThrows(m) \/ Consumer!Quarantine(m)
             \/ Consumer!QuarantineThrows(m) \/ Consumer!Commit(m)
      PROVE  ConsumerInv'
  BY <1>2, GroupConsumerInv, HandleConsumerInv, InsertConsumerInv,
     QuarantineConsumerInv, CommitConsumerInv
<1>3. CASE UNCHANGED Consumer!vars
  BY <1>3 DEF ConsumerInv, Consumer!TypeOK, PassedInv, Passed, HandInv, Consumer!vars,
     Consumer!OneOrderPerPayment, Consumer!Settled, Consumer!Stored
<1> QED BY <1>1, <1>2, <1>3, ProducersConsumerInv DEF Consumer!Next

LEMMA ConsumerInvariance ==
  ASSUME Consumer!ConsumerAssumption
  PROVE  Consumer!Spec => []ConsumerInv
<1>1. Consumer!Init => ConsumerInv
  BY InitConsumerInv
<1>2. ConsumerInv /\ [Consumer!Next]_(Consumer!vars) => ConsumerInv'
  BY ConsumerInvKept
<1> QED BY <1>1, <1>2, PTL DEF Consumer!Spec

\* The invariant holds the promises of the consumer.
LEMMA ConsumerPromises ==
  ASSUME Consumer!ConsumerAssumption, ConsumerInv
  PROVE  /\ Consumer!TypeOK
         /\ Consumer!NothingSkipped
         /\ Consumer!OneOrderPerPayment
<1>1. ConsumerInv => Consumer!TypeOK
  BY DEF ConsumerInv
<1>2. ConsumerInv => Consumer!NothingSkipped
  BY DEF ConsumerInv, PassedInv, Passed, Consumer!NothingSkipped
<1>3. ConsumerInv => Consumer!OneOrderPerPayment
  BY DEF ConsumerInv
<1> QED BY <1>1, <1>2, <1>3

\* A consumer's variables have their types, and no record is handled more often
\* than it has attempts.
THEOREM ConsumerTypeCorrect ==
  ASSUME Consumer!ConsumerAssumption
  PROVE  Consumer!Spec => []Consumer!TypeOK
<1>1. ConsumerInv => Consumer!TypeOK
  BY ConsumerPromises
<1> QED BY <1>1, ConsumerInvariance, PTL

\* No payment is skipped: whatever is below the committed offset is an order or
\* in quarantine, for any members, records, rebalances and failures.
THEOREM NoPaymentSkipped ==
  ASSUME Consumer!ConsumerAssumption
  PROVE  Consumer!Spec => []Consumer!NothingSkipped
<1>1. ConsumerInv => Consumer!NothingSkipped
  BY ConsumerPromises
<1> QED BY <1>1, ConsumerInvariance, PTL

\* One payment makes one order, however often its record is delivered or replayed
\* and whoever handles it at the same time.
THEOREM PaymentsOrderOnce ==
  ASSUME Consumer!ConsumerAssumption
  PROVE  Consumer!Spec => []Consumer!OneOrderPerPayment
<1>1. ConsumerInv => Consumer!OneOrderPerPayment
  BY ConsumerPromises
<1> QED BY <1>1, ConsumerInvariance, PTL

-----------------------------------------------------------------------------
(* KafkaTopics *)

\* Whoever is about to create topics has found the settings sound, and who has
\* come through a call finds all that it wanted, whoever made it.
CallsInv ==
  \A s \in Topics!Service :
    /\ proc[s].at \in {"list", "create"} => Topics!Sound
    /\ proc[s].at = "create" => Topics!Wanted(s) \subseteq proc[s].missing \union Topics!Existing
    /\ proc[s].at \in {"close", "done"} /\ proc[s].ok => Topics!Wanted(s) \subseteq Topics!Existing

TopicsInv ==
  /\ env \in [replicas : Nat, min : Nat]
  /\ open \in [Topics!Service -> {0, 1}]
  /\ Topics!TypeOK /\ CallsInv
  /\ Topics!AttachedHasItsTopics /\ Topics!NoConnectionLeft

\* A topic once made stays as it was made.
TopicsStay ==
  \A t \in Topics!Topic : topics[t] # Topics!Absent => topics'[t] = topics[t]

LEMMA DefaultsAreSome ==
  ASSUME env \in [replicas : Nat, min : Nat]
  PROVE  /\ Topics!Defaults.min \in Nat \ {0} /\ Topics!Defaults.replicas \in Nat
         /\ Topics!Defaults # Topics!Absent
BY DEF Topics!Defaults, Topics!Absent

LEMMA InitTopicsInv ==
  ASSUME Topics!KafkaTopicsAssumption, Topics!Init
  PROVE  TopicsInv
<1> USE DEF Topics!Init
<1>1. env \in [replicas : Nat, min : Nat]
  BY DEF Topics!KafkaTopicsAssumption
<1>2. Topics!TypeOK
  <2>1. live \in 0..Brokers
    BY DEF Topics!KafkaTopicsAssumption
  <2>2. Topics!Existing = {}
    BY DEF Topics!Existing
  <2> QED BY <2>1, <2>2 DEF Topics!TypeOK, Topics!Resting
<1>3. CallsInv /\ Topics!AttachedHasItsTopics /\ Topics!NoConnectionLeft
  BY DEF CallsInv,
            Topics!AttachedHasItsTopics, Topics!NoConnectionLeft, Topics!Resting
<1> QED BY <1>1, <1>2, <1>3 DEF TopicsInv

Rows == [stage : {"own", "dead"}, missing : SUBSET Topics!Topic, ok : BOOLEAN, attached : BOOLEAN,
         at : {"idle", "connect", "cluster", "list", "create", "close", "done", "over"}]
Calling == {"cluster", "list", "create", "close"}

\* What each service still wants, where topics only come into being.
LEMMA ServiceStep ==
  ASSUME TopicsInv, NEW s \in Topics!Service, TopicsStay, UNCHANGED env,
         live' \in 0..Brokers,
         \A t \in Topics!Topic : topics'[t] = topics[t] \/
            (topics'[t] = Topics!Defaults /\ Topics!Sound),
         NEW entry \in Rows, proc' = [proc EXCEPT ![s] = entry],
         entry.at \in {"list", "create"} => Topics!Sound,
         entry.at = "create" =>
           Topics!Wanted(s)' \subseteq entry.missing \union Topics!Existing',
         entry.at \in {"close", "done"} /\ entry.ok => Topics!Wanted(s)' \subseteq Topics!Existing',
         entry.attached /\ ~proc[s].attached /\ s # "product" =>
           /\ Topics!Subscribed(s) \subseteq Topics!Existing
           /\ Topics!DeadLetters(s) \subseteq Topics!Existing,
         open' \in [Topics!Service -> {0, 1}],
         open'[s] = IF entry.at \in Calling THEN 1 ELSE 0,
         \A u \in Topics!Service : u # s => open'[u] = open[u]
  PROVE  TopicsInv'
<1>1. Topics!Existing \subseteq Topics!Existing'
  BY DEF TopicsStay, Topics!Existing, Topics!Absent
<1>2. /\ proc'[s] = entry /\ \A u \in Topics!Service : u # s => proc'[u] = proc[u]
  BY DEF TopicsInv, Topics!TypeOK
<1>3. Topics!TypeOK'
  <2>1. \A t \in Topics!Existing' : topics'[t].min \in 1..topics'[t].replicas
    BY DefaultsAreSome DEF TopicsInv, Topics!TypeOK, Topics!Existing, Topics!Sound, Topics!Absent
  <2>2. proc' \in [Topics!Service -> Rows]
    BY DEF TopicsInv, Topics!TypeOK, Rows
  <2> QED BY <2>1, <2>2 DEF Topics!TypeOK, Rows
<1>4. CallsInv'
  <2>1. Topics!Sound' = Topics!Sound
    BY DEF Topics!Sound, Topics!Defaults
  <2>2. \A u \in Topics!Service : u # s => Topics!Wanted(u)' = Topics!Wanted(u)
    BY <1>2 DEF Topics!Wanted
  <2>3. SUFFICES ASSUME NEW u \in Topics!Service
                 PROVE  /\ proc'[u].at \in {"list", "create"} => Topics!Sound'
                        /\ proc'[u].at = "create" =>
                             Topics!Wanted(u)' \subseteq proc'[u].missing \union Topics!Existing'
                        /\ proc'[u].at \in {"close", "done"} /\ proc'[u].ok =>
                             Topics!Wanted(u)' \subseteq Topics!Existing'
    BY DEF CallsInv
  <2>4. CASE u = s
    BY <1>2, <2>1, <2>4
  <2>5. CASE u # s
    BY <1>1, <1>2, <2>1, <2>2, <2>5 DEF TopicsInv, CallsInv
  <2> QED BY <2>4, <2>5
<1>5. Topics!AttachedHasItsTopics'
  BY <1>1, <1>2 DEF TopicsInv, Topics!AttachedHasItsTopics, Topics!DeadLetters, Topics!Service
<1>6. Topics!NoConnectionLeft'
  BY <1>2 DEF TopicsInv, Topics!NoConnectionLeft, Calling
<1> QED BY <1>2, <1>3, <1>4, <1>5, <1>6 DEF TopicsInv

\* A call that makes no topic.
LEMMA NoTopicStep ==
  ASSUME TopicsInv, NEW s \in Topics!Service, UNCHANGED <<env, topics, live>>,
         NEW entry \in Rows, proc' = [proc EXCEPT ![s] = entry],
         entry.at \in {"list", "create"} => Topics!Sound,
         entry.at = "create" => Topics!Wanted(s)' \subseteq entry.missing \union Topics!Existing,
         entry.at \in {"close", "done"} /\ entry.ok => Topics!Wanted(s)' \subseteq Topics!Existing,
         entry.attached /\ ~proc[s].attached /\ s # "product" =>
           /\ Topics!Subscribed(s) \subseteq Topics!Existing
           /\ Topics!DeadLetters(s) \subseteq Topics!Existing,
         \/ UNCHANGED open /\ (entry.at \in Calling <=> proc[s].at \in Calling)
         \/ entry.at \in Calling /\ open' = [open EXCEPT ![s] = 1]
         \/ entry.at \notin Calling /\ open' = [open EXCEPT ![s] = 0]
  PROVE  TopicsInv'
<1>1. TopicsStay /\ live' \in 0..Brokers /\ Topics!Existing' = Topics!Existing
  BY DEF TopicsInv, Topics!TypeOK, TopicsStay, Topics!Existing
<1>2. /\ open' \in [Topics!Service -> {0, 1}]
      /\ open'[s] = IF entry.at \in Calling THEN 1 ELSE 0
      /\ \A u \in Topics!Service : u # s => open'[u] = open[u]
  BY DEF TopicsInv, Topics!NoConnectionLeft, Calling
<1> QED BY <1>1, <1>2, ServiceStep

LEMMA ConnectKeeps ==
  ASSUME TopicsInv, NEW s \in Topics!Service, Topics!Connect(s)
  PROVE  TopicsInv'
<1> USE DEF Topics!Connect, Topics!At
<1>1. /\ proc[s] \in Rows /\ proc \in [Topics!Service -> Rows]
      /\ open[s] = 0 /\ open \in [Topics!Service -> {0, 1}]
  BY DEF TopicsInv, Topics!TypeOK, Rows, Topics!NoConnectionLeft
<1>2. CASE proc' = [proc EXCEPT ![s].at = "cluster"] /\ open' = [open EXCEPT ![s] = @ + 1]
  <2>1. PICK entry : entry = [proc[s] EXCEPT !.at = "cluster"]
    OBVIOUS
  <2>2. entry \in Rows /\ entry.at = "cluster" /\ entry.attached = proc[s].attached
    BY <1>1, <2>1 DEF Rows
  <2>3. proc' = [proc EXCEPT ![s] = entry] /\ open' = [open EXCEPT ![s] = 1]
    BY <1>1, <1>2, <2>1
  <2> QED BY <2>2, <2>3, NoTopicStep DEF Calling
<1>3. CASE proc' = [proc EXCEPT ![s].at = "done", ![s].ok = FALSE] /\ UNCHANGED open
  <2>1. PICK entry : entry = [proc[s] EXCEPT !.at = "done", !.ok = FALSE]
    OBVIOUS
  <2>2. entry \in Rows /\ entry.at = "done" /\ ~entry.ok /\ entry.attached = proc[s].attached
    BY <1>1, <2>1 DEF Rows
  <2>3. proc' = [proc EXCEPT ![s] = entry]
    BY <1>1, <1>3, <2>1
  <2> QED BY <1>3, <2>2, <2>3, NoTopicStep DEF Calling
<1> QED BY <1>2, <1>3

\* A call that fails ends in finally.
LEMMA FailedKeeps ==
  ASSUME TopicsInv, NEW s \in Topics!Service, proc[s].at \in {"cluster", "list", "create"},
         proc' = Topics!Failed(s), UNCHANGED <<env, live, open>>, TopicsStay,
         \A t \in Topics!Topic : topics'[t] = topics[t] \/
            (topics'[t] = Topics!Defaults /\ Topics!Sound)
  PROVE  TopicsInv'
<1>1. /\ proc[s] \in Rows /\ proc \in [Topics!Service -> Rows] /\ open[s] = 1
      /\ open \in [Topics!Service -> {0, 1}] /\ live' \in 0..Brokers
  BY DEF TopicsInv, Topics!TypeOK, Rows, Topics!NoConnectionLeft
<1>2. PICK entry : entry = [proc[s] EXCEPT !.at = "close", !.ok = FALSE]
  OBVIOUS
<1>3. entry \in Rows /\ entry.at = "close" /\ ~entry.ok /\ entry.attached = proc[s].attached
  BY <1>1, <1>2 DEF Rows
<1>4. proc' = [proc EXCEPT ![s] = entry] /\ UNCHANGED open
  BY <1>1, <1>2 DEF Topics!Failed
<1> QED BY <1>1, <1>3, <1>4, ServiceStep DEF Calling

LEMMA DescribeClusterKeeps ==
  ASSUME TopicsInv, NEW s \in Topics!Service, Topics!DescribeCluster(s)
  PROVE  TopicsInv'
<1> USE DEF Topics!DescribeCluster, Topics!At
<1>1. proc[s] \in Rows /\ proc \in [Topics!Service -> Rows] /\ TopicsStay
  BY DEF TopicsInv, Topics!TypeOK, Rows, TopicsStay
<1>2. CASE Topics!Sound /\ proc' = [proc EXCEPT ![s].at = "list"]
  <2>1. PICK entry : entry = [proc[s] EXCEPT !.at = "list"]
    OBVIOUS
  <2>2. entry \in Rows /\ entry.at = "list" /\ entry.attached = proc[s].attached
    BY <1>1, <2>1 DEF Rows
  <2>3. proc' = [proc EXCEPT ![s] = entry]
    BY <1>1, <1>2, <2>1
  <2> QED BY <1>2, <2>2, <2>3, NoTopicStep DEF Calling
<1>3. CASE proc' = Topics!Failed(s)
  BY <1>1, <1>3, FailedKeeps
<1> QED BY <1>2, <1>3

LEMMA ListTopicsKeeps ==
  ASSUME TopicsInv, NEW s \in Topics!Service, Topics!ListTopics(s)
  PROVE  TopicsInv'
<1> USE DEF Topics!ListTopics
<1>1. /\ proc[s] \in Rows /\ proc \in [Topics!Service -> Rows] /\ TopicsStay /\ Topics!Sound
      /\ Topics!Wanted(s) \subseteq Topics!Topic
  BY DEF TopicsInv, Topics!TypeOK, Rows, TopicsStay, CallsInv, Topics!Wanted, Topics!OwnTopics,
         Topics!DeadLetters, Topics!Topic, Topics!Service
<1>2. PICK missing : missing = Topics!Wanted(s) \ Topics!Existing
  OBVIOUS
<1>3. CASE proc' = [proc EXCEPT ![s].missing = missing,
                               ![s].at = IF missing = {} THEN "close" ELSE "create"]
  <2>1. PICK entry : entry = [proc[s] EXCEPT !.missing = missing,
                                         !.at = IF missing = {} THEN "close" ELSE "create"]
    OBVIOUS
  <2>2. /\ entry \in Rows /\ entry.at = (IF missing = {} THEN "close" ELSE "create")
        /\ entry.missing = missing /\ entry.stage = proc[s].stage /\ entry.attached = proc[s].attached
    BY <1>1, <1>2, <2>1 DEF Rows
  <2>3. proc' = [proc EXCEPT ![s] = entry]
    BY <1>1, <1>3, <2>1
  <2>4. Topics!Wanted(s)' = Topics!Wanted(s)
    BY <1>1, <2>2, <2>3 DEF Topics!Wanted
  <2> QED BY <1>1, <1>2, <2>2, <2>3, <2>4, NoTopicStep DEF Calling
<1>4. CASE proc' = Topics!Failed(s)
  BY <1>1, <1>4, FailedKeeps
<1> QED BY <1>2, <1>3, <1>4

\* The topics of a creation are as the settings want them, and the others stay.
LEMMA CreatedOnes ==
  ASSUME NEW news \in SUBSET Topics!Topic, topics' = Topics!Created(news), UNCHANGED env
  PROVE  /\ TopicsStay
         /\ \A t \in Topics!Topic : topics'[t] = topics[t] \/ topics'[t] = Topics!Defaults
         /\ env \in [replicas : Nat, min : Nat] => news \union Topics!Existing \subseteq Topics!Existing'
<1>1. \A t \in Topics!Topic :
        topics'[t] = IF t \in news \ Topics!Existing THEN Topics!Defaults ELSE topics[t]
  BY DEF Topics!Created
<1> QED BY <1>1, DefaultsAreSome DEF TopicsStay, Topics!Existing, Topics!Absent

LEMMA CreateTopicsKeeps ==
  ASSUME TopicsInv, NEW s \in Topics!Service, Topics!CreateTopics(s)
  PROVE  TopicsInv'
<1> USE DEF Topics!CreateTopics, Topics!At
<1>1. /\ proc[s] \in Rows /\ proc \in [Topics!Service -> Rows] /\ Topics!Sound
      /\ Topics!Wanted(s) \subseteq proc[s].missing \union Topics!Existing
      /\ open[s] = 1 /\ open \in [Topics!Service -> {0, 1}] /\ live' \in 0..Brokers
      /\ proc[s].missing \in SUBSET Topics!Topic /\ env \in [replicas : Nat, min : Nat]
  BY DEF TopicsInv, Topics!TypeOK, Rows, CallsInv, Topics!NoConnectionLeft
<1>2. CASE topics' = Topics!Created(proc[s].missing) /\ proc' = [proc EXCEPT ![s].at = "close"]
  <2>1. PICK entry : entry = [proc[s] EXCEPT !.at = "close"]
    OBVIOUS
  <2>2. entry \in Rows /\ entry.at = "close" /\ entry.stage = proc[s].stage /\ entry.attached = proc[s].attached
    BY <1>1, <2>1 DEF Rows
  <2>3. proc' = [proc EXCEPT ![s] = entry] /\ UNCHANGED open
    BY <1>1, <1>2, <2>1
  <2>4. PICK news \in SUBSET Topics!Topic : news = proc[s].missing
    BY <1>1
  <2>5. /\ TopicsStay /\ news \union Topics!Existing \subseteq Topics!Existing'
        /\ \A t \in Topics!Topic : topics'[t] = topics[t] \/ topics'[t] = Topics!Defaults
    BY <1>1, <1>2, <2>4, CreatedOnes
  <2>6. Topics!Wanted(s)' = Topics!Wanted(s)
    BY <1>1, <2>2, <2>3 DEF Topics!Wanted
  <2>7. Topics!Wanted(s)' \subseteq Topics!Existing'
    BY <1>1, <2>4, <2>5, <2>6
  <2>8. UNCHANGED env
    OBVIOUS
  <2> QED BY <1>1, <2>2, <2>3, <2>5, <2>7, <2>8, ServiceStep DEF Calling
<1>3. CASE proc' = Topics!Failed(s) /\ \E news \in SUBSET proc[s].missing : topics' = Topics!Created(news)
  <2>1. PICK news \in SUBSET Topics!Topic : topics' = Topics!Created(news)
    BY <1>1, <1>3
  <2> QED BY <1>1, <1>3, <2>1, CreatedOnes, FailedKeeps
<1>4. CASE proc' = Topics!Failed(s) /\ UNCHANGED topics
  <2>1. TopicsStay
    BY <1>4 DEF TopicsStay
  <2> QED BY <1>4, <2>1, FailedKeeps
<1> QED BY <1>2, <1>3, <1>4

LEMMA DisconnectKeeps ==
  ASSUME TopicsInv, NEW s \in Topics!Service, Topics!Disconnect(s)
  PROVE  TopicsInv'
<1>1. /\ proc[s] \in Rows /\ proc \in [Topics!Service -> Rows]
      /\ open[s] = 1 /\ open \in [Topics!Service -> {0, 1}]
      /\ proc[s].ok => Topics!Wanted(s) \subseteq Topics!Existing
  BY DEF TopicsInv, Topics!TypeOK, Rows, CallsInv, Topics!NoConnectionLeft, Topics!Disconnect
<1>2. PICK entry : entry = [proc[s] EXCEPT !.at = "done"]
  OBVIOUS
<1>3. /\ entry \in Rows /\ entry.at = "done" /\ entry.ok = proc[s].ok /\ entry.stage = proc[s].stage
      /\ entry.attached = proc[s].attached
  BY <1>1, <1>2 DEF Rows
<1>4. proc' = [proc EXCEPT ![s] = entry] /\ open' = [open EXCEPT ![s] = 0]
  BY <1>1, <1>2 DEF Topics!Disconnect, Topics!At
<1>5. Topics!Wanted(s)' = Topics!Wanted(s)
  BY <1>1, <1>3, <1>4 DEF Topics!Wanted
<1>6. UNCHANGED <<env, topics, live>>
  BY DEF Topics!Disconnect
<1>7. entry.at \notin Calling /\ entry.at \notin {"list", "create"}
  BY <1>3 DEF Calling
<1>8. entry.ok => Topics!Wanted(s)' \subseteq Topics!Existing
  BY <1>1, <1>3, <1>5
<1> QED BY <1>3, <1>4, <1>6, <1>7, <1>8, NoTopicStep

LEMMA BeginCallKeeps ==
  ASSUME TopicsInv, NEW s \in Topics!Service, Topics!Begin(s)
  PROVE  TopicsInv'
<1> USE DEF Topics!Begin
<1>1. proc[s] \in Rows /\ proc \in [Topics!Service -> Rows]
  BY DEF TopicsInv, Topics!TypeOK, Rows
<1>2. PICK entry : entry = [proc[s] EXCEPT !.at = "connect", !.stage = "own", !.ok = TRUE]
  OBVIOUS
<1>3. entry \in Rows /\ entry.at = "connect" /\ entry.attached = proc[s].attached
  BY <1>1, <1>2 DEF Rows
<1>4. proc' = [proc EXCEPT ![s] = entry]
  BY <1>1, <1>2
<1> QED BY <1>3, <1>4, NoTopicStep DEF Calling

LEMMA ProceedKeeps ==
  ASSUME TopicsInv, NEW s \in Topics!Service, Topics!Proceed(s)
  PROVE  TopicsInv'
<1> USE DEF Topics!Proceed, Topics!At, Topics!After
<1>1. proc[s] \in Rows /\ proc \in [Topics!Service -> Rows]
  BY DEF TopicsInv, Topics!TypeOK, Rows
<1>2. ASSUME NEW place \in {"idle", "over"}, proc' = [proc EXCEPT ![s].at = place]
      PROVE  TopicsInv'
  <2>1. PICK entry : entry = [proc[s] EXCEPT !.at = place]
    OBVIOUS
  <2>2. entry \in Rows /\ entry.at = place /\ entry.attached = proc[s].attached
    BY <1>1, <2>1 DEF Rows
  <2>3. proc' = [proc EXCEPT ![s] = entry]
    BY <1>1, <1>2, <2>1
  <2> QED BY <2>2, <2>3, NoTopicStep DEF Calling
<1>3. CASE proc' = [proc EXCEPT ![s].at = "connect", ![s].stage = "dead"]
  <2>1. PICK entry : entry = [proc[s] EXCEPT !.at = "connect", !.stage = "dead"]
    OBVIOUS
  <2>2. entry \in Rows /\ entry.at = "connect" /\ entry.attached = proc[s].attached
    BY <1>1, <2>1 DEF Rows
  <2>3. proc' = [proc EXCEPT ![s] = entry]
    BY <1>1, <1>3, <2>1
  <2> QED BY <2>2, <2>3, NoTopicStep DEF Calling
<1>4. CASE Topics!Attach(s) /\ proc[s].ok /\ (proc[s].stage = "own" => s = "product")
  <2>1. PICK entry :
    entry = [proc[s] EXCEPT !.at = IF s = "product" THEN "over" ELSE "idle", !.attached = TRUE]
    OBVIOUS
  <2>2. entry \in Rows /\ entry.at \in {"idle", "over"} /\ entry.attached
    BY <1>1, <2>1 DEF Rows
  <2>3. proc' = [proc EXCEPT ![s] = entry]
    BY <1>1, <1>4, <2>1 DEF Topics!Attach
  <2>4. Topics!Subscribed(s) \subseteq Topics!Existing
    BY <1>4 DEF Topics!Attach
  <2>5. s # "product" => Topics!DeadLetters(s) \subseteq Topics!Existing
    BY <1>1, <1>4 DEF TopicsInv, CallsInv, Topics!Wanted, Rows
  <2> QED BY <2>2, <2>3, <2>4, <2>5, NoTopicStep DEF Calling
<1>5. \/ \E place \in {"idle", "over"} : proc' = [proc EXCEPT ![s].at = place]
      \/ proc' = [proc EXCEPT ![s].at = "connect", ![s].stage = "dead"]
      \/ Topics!Attach(s) /\ proc[s].ok /\ (proc[s].stage = "own" => s = "product")
  <2>1. Topics!After(s) \in {"idle", "over"}
    OBVIOUS
  <2> QED BY <2>1
<1> QED BY <1>2, <1>3, <1>4, <1>5

LEMMA RestartKeeps ==
  ASSUME TopicsInv, NEW s \in Topics!Service, Topics!Restart(s)
  PROVE  TopicsInv'
<1>1. PICK entry : entry = Topics!Resting
  OBVIOUS
<1>2. entry \in Rows /\ entry.at = "idle" /\ ~entry.attached
  BY <1>1 DEF Rows, Topics!Resting
<1> QED BY <1>1, <1>2, NoTopicStep DEF Topics!Restart, Calling

LEMMA NextTopicsInv ==
  ASSUME Topics!KafkaTopicsAssumption, TopicsInv, [Topics!Next]_(Topics!vars)
  PROVE  TopicsInv'
<1>1. ASSUME UNCHANGED <<env, topics, proc, open>>, live' \in 0..Brokers
      PROVE  TopicsInv'
  BY <1>1 DEF TopicsInv, Topics!TypeOK, CallsInv,
            Topics!AttachedHasItsTopics, Topics!NoConnectionLeft,
     Topics!Existing, Topics!Wanted, Topics!Sound, Topics!Defaults
<1>2. live \in 0..Brokers /\ Brokers \in Nat \ {0}
  BY DEF TopicsInv, Topics!TypeOK, Topics!KafkaTopicsAssumption
<1>3. CASE UNCHANGED Topics!vars
  BY <1>1, <1>2, <1>3 DEF Topics!vars, Topics!bounds
<1>4. CASE Topics!Publish
  BY <1>1, <1>2, <1>4 DEF Topics!Publish
<1>5. ASSUME NEW n \in {0, Brokers - 1, Brokers}, Topics!BrokersChange(n)
      PROVE  TopicsInv'
  BY <1>1, <1>2, <1>5 DEF Topics!BrokersChange
<1> QED BY <1>3, <1>4, <1>5, BeginCallKeeps, ConnectKeeps, DescribeClusterKeeps,
          ListTopicsKeeps, CreateTopicsKeeps,
           DisconnectKeeps, ProceedKeeps, RestartKeeps DEF Topics!Next, Topics!Call

LEMMA TopicsInvariance ==
  ASSUME Topics!KafkaTopicsAssumption
  PROVE  Topics!Spec => []TopicsInv
<1>1. Topics!Init => TopicsInv
  BY InitTopicsInv
<1>2. TopicsInv /\ [Topics!Next]_(Topics!vars) => TopicsInv'
  BY NextTopicsInv
<1> QED BY <1>1, <1>2, PTL DEF Topics!Spec

\* The invariant holds what is promised of the topics.
LEMMA TopicsPromises ==
  ASSUME Topics!KafkaTopicsAssumption, TopicsInv
  PROVE  /\ Topics!TypeOK
         /\ Topics!AttachedHasItsTopics
         /\ Topics!NoConnectionLeft
<1>1. TopicsInv => Topics!TypeOK
  BY DEF TopicsInv
<1>2. TopicsInv => Topics!AttachedHasItsTopics
  BY DEF TopicsInv
<1>3. TopicsInv => Topics!NoConnectionLeft
  BY DEF TopicsInv
<1> QED BY <1>1, <1>2, <1>3

\* The topics can be written to, and the services are at a step of theirs.
THEOREM TopicsTypeCorrect ==
  ASSUME Topics!KafkaTopicsAssumption
  PROVE  Topics!Spec => []Topics!TypeOK
<1>1. TopicsInv => Topics!TypeOK
  BY TopicsPromises
<1> QED BY <1>1, TopicsInvariance, PTL

\* A consumer that runs has its topics and its place for dead letters, for any
\* brokers, outages, failures and restarts.
THEOREM ConsumersHaveTheirTopics ==
  ASSUME Topics!KafkaTopicsAssumption
  PROVE  Topics!Spec => []Topics!AttachedHasItsTopics
<1>1. TopicsInv => Topics!AttachedHasItsTopics
  BY TopicsPromises
<1> QED BY <1>1, TopicsInvariance, PTL

\* No call leaves its connection open.
THEOREM CallsDisconnect ==
  ASSUME Topics!KafkaTopicsAssumption
  PROVE  Topics!Spec => []Topics!NoConnectionLeft
<1>1. TopicsInv => Topics!NoConnectionLeft
  BY TopicsPromises
<1> QED BY <1>1, TopicsInvariance, PTL

-----------------------------------------------------------------------------
(* TraceChain *)

\* The jobs of a payment hold one trace, and none before they exist; what was
\* published was first a job.
JobsInv ==
  \A p \in Payment :
    /\ \A k \in Trace!Kind : job[p][k].state = "absent" => job[p][k] = Trace!Absent
    /\ job[p]["publish"].state # "absent" =>
         /\ job[p]["enrich"].state = "done"
         /\ job[p]["publish"].trace = job[p]["enrich"].trace
RecordsInv ==
  \A i \in DOMAIN records : job[records[i].payment]["publish"].state # "absent"

\* A trace that was made here is found with one payment, in its jobs and records.
At(p, x) == \/ \E k \in Trace!Kind : job[p][k].trace = x
            \/ \E i \in DOMAIN records : records[i].payment = p /\ records[i].trace = x
OnePayment == \A p, q \in Payment : \A x \in Nat : x > Clients /\ At(p, x) /\ At(q, x) => p = q

TraceInv ==
  /\ Trace!TypeOK /\ minted <= Clients + requests + Len(records)
  /\ JobsInv /\ RecordsInv /\ Trace!OneTrace /\ OnePayment

LEMMA TraceNaturals ==
  ASSUME Trace!TraceAssumption
  PROVE  Clients \in Nat /\ MaxRequests \in Nat /\ MaxRecords \in Nat
BY DEF Trace!TraceAssumption

LEMMA InitTraceInv ==
  ASSUME Trace!TraceAssumption, Trace!Init
  PROVE  TraceInv
<1> USE TraceNaturals DEF Trace!Init
<1>1. Trace!TypeOK
  <2>1. job \in [Payment -> [Trace!Kind -> [state : {"absent", "open", "done"},
                                             trace : {Trace!None, Trace!Malformed} \union 1..minted]]]
    BY DEF Trace!Absent
  <2> QED BY <2>1 DEF Trace!TypeOK
<1>2. \A p \in Payment : \A k \in Trace!Kind : job[p][k].trace = 0 /\ job[p][k] = Trace!Absent
  BY DEF Trace!Absent, Trace!None
<1>3. JobsInv /\ RecordsInv /\ Trace!OneTrace
  BY <1>2 DEF JobsInv, RecordsInv, Trace!OneTrace, Trace!Absent, Trace!Kind
<1>4. OnePayment
  BY <1>2 DEF OnePayment, At
<1>5. minted <= Clients + requests + Len(records)
  OBVIOUS
<1> QED BY <1>1, <1>3, <1>4, <1>5 DEF TraceInv

LEMMA LongerSeq ==
  ASSUME NEW S, NEW T, S \subseteq T
  PROVE  Seq(S) \subseteq Seq(T)
OBVIOUS

\* A header's trace goes on, or a fresh one is made for it.
LEMMA CarriedIsKnown ==
  ASSUME Trace!TraceAssumption, minted \in Nat, Clients <= minted,
         NEW h \in {Trace!None, Trace!Malformed} \union 1..minted, Trace!Mint(h)
  PROVE  /\ Trace!Carried(h) \in 1..minted' /\ minted' \in {minted, minted + 1}
         /\ (Trace!Carried(h) = h /\ h # Trace!None /\ minted' = minted)
            \/ (Trace!Carried(h) = minted + 1 /\ minted' = minted + 1
                /\ Trace!Parsed(h) = Trace!None)
BY TraceNaturals DEF Trace!Carried, Trace!Mint, Trace!Parsed, Trace!None, Trace!Malformed,
                     Trace!Fresh

\* Records stay records, and rows stay rows, when traces are made.
LEMMA RecordsStayTyped ==
  ASSUME Trace!TypeOK, minted \in Nat, minted' \in Nat, minted <= minted'
  PROVE  /\ records \in Seq([payment : Payment, trace : 1..minted'])
         /\ \A i \in DOMAIN records : records[i] \in [payment : Payment, trace : 1..minted]
<1>1. PICK S : S = [payment : Payment, trace : 1..minted]
  OBVIOUS
<1>2. PICK T : T = [payment : Payment, trace : 1..minted']
  OBVIOUS
<1>3. S \subseteq T
  BY <1>1, <1>2
<1>4. records \in Seq(S)
  BY <1>1 DEF Trace!TypeOK
<1>5. \A i \in DOMAIN records : records[i] \in S
  BY <1>4
<1>6. records \in Seq(T)
  BY <1>3, <1>4, LongerSeq
<1> QED BY <1>1, <1>2, <1>5, <1>6

TraceRows(n) == [Payment -> [Trace!Kind -> [state : {"absent", "open", "done"},
                                        trace : {Trace!None, Trace!Malformed} \union 1..n]]]

LEMMA RowsStayTyped ==
  ASSUME Trace!TypeOK, minted \in Nat, minted' \in Nat, minted <= minted'
  PROVE  job \in TraceRows(minted')
<1>1. {Trace!None, Trace!Malformed} \union 1..minted
        \subseteq {Trace!None, Trace!Malformed} \union 1..minted'
  OBVIOUS
<1>2. [state : {"absent", "open", "done"}, trace : {Trace!None, Trace!Malformed} \union 1..minted]
      \subseteq [state : {"absent", "open", "done"}, trace : {Trace!None, Trace!Malformed} \union 1..minted']
  BY <1>1
<1> QED BY <1>2 DEF Trace!TypeOK, TraceRows

\* No payment has a trace that was not made yet.
LEMMA MadeBefore ==
  ASSUME Trace!TypeOK, minted \in Nat, NEW q \in Payment, NEW x \in Nat, At(q, x)
  PROVE  x <= minted
<1>1. CASE \E k \in Trace!Kind : job[q][k].trace = x
  <2>1. \A k \in Trace!Kind : job[q][k].trace \in {0, -1} \union 1..minted
    BY DEF Trace!TypeOK, Trace!None, Trace!Malformed
  <2>2. PICK k \in Trace!Kind : job[q][k].trace = x
    BY <1>1
  <2>3. x \in {0, -1} \union 1..minted
    BY <2>1, <2>2
  <2> QED BY <2>3
<1>2. CASE \E i \in DOMAIN records : records[i].payment = q /\ records[i].trace = x
  <2>1. PICK S : S = [payment : Payment, trace : 1..minted]
    OBVIOUS
  <2>2. records \in Seq(S)
    BY <2>1 DEF Trace!TypeOK
  <2>3. \A i \in DOMAIN records : records[i] \in S
    BY <2>2
  <2> QED BY <1>2, <2>1, <2>3
<1> QED BY <1>1, <1>2 DEF At

\* A report enqueues the first job of its payment, or finds it there.
LEMMA EnqueueKeeps ==
  ASSUME Trace!TraceAssumption, TraceInv, NEW p \in Payment, NEW h \in Int, Trace!Enqueue(p, h),
         UNCHANGED <<records, dead>>, requests' \in 0..MaxRequests, requests' = requests + 1,
         minted' \in {minted, minted + 1},
         h \in {Trace!None, Trace!Malformed} \union 1..minted',
         h <= Clients \/ h = minted + 1
  PROVE  TraceInv'
<1> USE TraceNaturals
<1>1. /\ minted \in Nat /\ requests \in Nat /\ Clients <= minted /\ Len(records) \in 0..MaxRecords
      /\ minted' <= Clients + requests' + Len(records')
      /\ minted' \in Clients..(Clients + MaxRequests + MaxRecords) /\ minted <= minted'
  BY DEF TraceInv, Trace!TypeOK
<1>2. job \in TraceRows(minted')
  BY <1>1, RowsStayTyped DEF TraceInv
<1>3. /\ records \in Seq([payment : Payment, trace : 1..minted'])
      /\ \A i \in DOMAIN records : records[i] \in [payment : Payment, trace : 1..minted]
  BY <1>1, RecordsStayTyped DEF TraceInv
<1>4. CASE job' = job
  <2>1. Trace!TypeOK'
    BY <1>1, <1>2, <1>3, <1>4 DEF TraceInv, Trace!TypeOK, TraceRows
  <2>2. JobsInv' /\ RecordsInv' /\ Trace!OneTrace'
    BY <1>4 DEF TraceInv, JobsInv, RecordsInv, Trace!OneTrace
  <2>3. OnePayment'
    BY <1>4 DEF TraceInv, OnePayment, At
  <2> QED BY <1>1, <2>1, <2>2, <2>3 DEF TraceInv
<1>5. CASE /\ job[p]["enrich"].state = "absent"
           /\ job' = [job EXCEPT ![p]["enrich"] = [state |-> "open", trace |-> h]]
  <2>1. /\ job'[p]["enrich"] = [state |-> "open", trace |-> h]
        /\ job'[p]["publish"] = job[p]["publish"]
        /\ \A q \in Payment : q # p => job'[q] = job[q]
    BY <1>2, <1>5 DEF TraceRows, Trace!Kind
  <2>2. job[p]["publish"].state = "absent" /\ job[p]["publish"].trace = 0
    BY <1>5 DEF TraceInv, JobsInv, Trace!Kind, Trace!Absent, Trace!None
  <2>3. \A i \in DOMAIN records : records[i].payment # p
    BY <2>2 DEF TraceInv, RecordsInv
  <2>4. Trace!TypeOK'
    <3>1. job' \in TraceRows(minted')
      BY <1>2, <1>5 DEF TraceRows, Trace!Kind
    <3> QED BY <1>1, <1>3, <3>1 DEF TraceInv, Trace!TypeOK, TraceRows
  <2>5. JobsInv'
    BY <2>1, <2>2 DEF TraceInv, JobsInv, Trace!Kind, Trace!Absent
  <2>6. RecordsInv' /\ Trace!OneTrace'
    BY <1>3, <2>1, <2>3 DEF TraceInv, RecordsInv, Trace!OneTrace
  <2>7. OnePayment'
    <3>1. \A q \in Payment : \A x \in Nat : q # p => (At(q, x)' <=> At(q, x))
      BY <2>1 DEF At
    <3>2. \A x \in Nat : At(p, x)' => x \in {0, h}
      BY <2>1, <2>2, <2>3 DEF At, Trace!Kind
    <3>3. \A q \in Payment : \A x \in Nat : At(q, x) => x <= minted
      BY <1>1, MadeBefore DEF TraceInv
    <3> QED BY <1>1, <3>1, <3>2, <3>3 DEF TraceInv, OnePayment
  <2> QED BY <1>1, <2>4, <2>5, <2>6, <2>7 DEF TraceInv
<1> QED BY <1>4, <1>5 DEF Trace!Enqueue

\* A record of a payment that was published before, with a trace the payment
\* already has or a fresh one.
LEMMA AppendKeeps ==
  ASSUME Trace!TraceAssumption, TraceInv, NEW p \in Payment, NEW x \in 1..minted',
         records' = Append(records, [payment |-> p, trace |-> x]), Len(records) < MaxRecords,
         minted' \in {minted, minted + 1}, UNCHANGED <<requests, dead>>,
         job' \in TraceRows(minted'),
         \A q \in Payment : \A k \in Trace!Kind :
           /\ job'[q][k].trace = job[q][k].trace
           /\ (job'[q][k].state = "absent" <=> job[q][k].state = "absent")
           /\ (k = "enrich" => job'[q][k] = job[q][k]),
         job[p]["publish"].state # "absent",
         Trace!Parsed(job[p]["enrich"].trace) # Trace!None => x = job[p]["enrich"].trace,
         At(p, x) \/ x = minted + 1
  PROVE  TraceInv'
<1> USE TraceNaturals
<1>1. /\ minted \in Nat /\ requests \in Nat /\ Clients <= minted /\ Len(records) \in 0..MaxRecords
      /\ requests \in 0..MaxRequests /\ minted' \in Nat /\ minted <= minted'
      /\ minted <= Clients + requests + Len(records)
  BY DEF TraceInv, Trace!TypeOK
<1>2. /\ records \in Seq([payment : Payment, trace : 1..minted'])
      /\ \A i \in DOMAIN records : records[i] \in [payment : Payment, trace : 1..minted]
      /\ DOMAIN records = 1..Len(records)
  <2>1. DOMAIN records = 1..Len(records)
    BY DEF TraceInv, Trace!TypeOK
  <2> QED BY <1>1, <2>1, RecordsStayTyped DEF TraceInv
<1>3. /\ records' \in Seq([payment : Payment, trace : 1..minted'])
      /\ Len(records') = Len(records) + 1 /\ DOMAIN records' = 1..Len(records) + 1
      /\ records'[Len(records) + 1] = [payment |-> p, trace |-> x]
      /\ \A i \in DOMAIN records : i \in DOMAIN records' /\ records'[i] = records[i]
      /\ \A i \in DOMAIN records' : i \in DOMAIN records \/ i = Len(records) + 1
  <2>1. PICK T : T = [payment : Payment, trace : 1..minted']
    OBVIOUS
  <2>2. records \in Seq(T) /\ [payment |-> p, trace |-> x] \in T
    BY <1>2, <2>1
  <2> QED BY <1>1, <1>2, <2>1, <2>2
<1>4. Trace!TypeOK' /\ minted' <= Clients + requests' + Len(records')
  <2>1. dead' \subseteq DOMAIN records'
    BY <1>3 DEF TraceInv, Trace!TypeOK
  <2>2. minted' \in Clients..(Clients + MaxRequests + MaxRecords)
        /\ minted' <= Clients + requests' + Len(records')
    BY <1>1, <1>3
  <2> QED BY <1>1, <1>3, <2>1, <2>2 DEF Trace!TypeOK, TraceRows
<1>5. JobsInv'
  <2>1. ASSUME NEW q \in Payment, NEW k \in Trace!Kind, job'[q][k].state = "absent"
        PROVE  job'[q][k] = Trace!Absent
    <3>1. job[q][k] = Trace!Absent
      BY <2>1 DEF TraceInv, JobsInv
    <3>2. job'[q][k].trace = Trace!None
      BY <3>1 DEF Trace!Absent
    <3>3. job'[q][k] \in [state : {"absent", "open", "done"},
                          trace : {Trace!None, Trace!Malformed} \union 1..minted']
      BY DEF TraceRows
    <3> QED BY <2>1, <3>2, <3>3 DEF Trace!Absent
  <2>2. ASSUME NEW q \in Payment, job'[q]["publish"].state # "absent"
        PROVE  /\ job'[q]["enrich"].state = "done"
               /\ job'[q]["publish"].trace = job'[q]["enrich"].trace
    BY <2>2 DEF TraceInv, JobsInv, Trace!Kind
  <2> QED BY <2>1, <2>2 DEF JobsInv
<1>6. RecordsInv' /\ Trace!OneTrace'
  <2>1. \A i \in DOMAIN records : records[i].payment \in Payment
    BY <1>2
  <2>2. \A q \in Payment : /\ job'[q]["enrich"] = job[q]["enrich"]
                           /\ (job'[q]["publish"].state = "absent" <=>
                               job[q]["publish"].state = "absent")
    BY DEF Trace!Kind
  <2>3. RecordsInv'
    BY <1>3, <2>1, <2>2 DEF TraceInv, RecordsInv
  <2>4. ASSUME NEW i \in DOMAIN records',
               Trace!Parsed(job'[records'[i].payment]["enrich"].trace) # Trace!None
        PROVE  records'[i].trace = job'[records'[i].payment]["enrich"].trace
    <3>1. CASE i \in DOMAIN records
      BY <1>3, <2>1, <2>2, <2>4, <3>1 DEF TraceInv, Trace!OneTrace
    <3>2. CASE i = Len(records) + 1
      BY <1>3, <2>2, <2>4, <3>2
    <3> QED BY <1>3, <3>1, <3>2
  <2> QED BY <2>3, <2>4 DEF Trace!OneTrace
<1>7. OnePayment'
  <2>1. \A q \in Payment : \A y \in Nat : At(q, y)' => At(q, y) \/ (q = p /\ y = x)
    BY <1>3 DEF At
  <2>2. \A q \in Payment : \A y \in Nat : At(q, y) => y <= minted
    BY <1>1, MadeBefore DEF TraceInv
  <2> QED BY <1>1, <2>1, <2>2 DEF TraceInv, OnePayment
<1> QED BY <1>4, <1>5, <1>6, <1>7 DEF TraceInv

LEMMA PublishKeeps ==
  ASSUME Trace!TraceAssumption, TraceInv, NEW p \in Payment, Trace!Publish(p)
  PROVE  TraceInv'
<1> USE TraceNaturals
<1>1. PICK h : h = job[p]["publish"].trace
  OBVIOUS
<1>2. PICK s \in {"open", "done"} : job' = [job EXCEPT ![p]["publish"].state = s]
  BY DEF Trace!Publish
<1>3. /\ minted \in Nat /\ Clients <= minted
      /\ h \in {Trace!None, Trace!Malformed} \union 1..minted
      /\ job[p]["publish"].state # "absent" /\ job[p]["enrich"].trace = h
  <2>1. minted \in Nat /\ Clients <= minted /\ job[p]["publish"].state = "open"
    BY DEF TraceInv, Trace!TypeOK, Trace!Publish
  <2>2. job[p]["publish"].trace \in {Trace!None, Trace!Malformed} \union 1..minted
    BY DEF TraceInv, Trace!TypeOK, Trace!Kind
  <2>3. job[p]["enrich"].trace = job[p]["publish"].trace
    BY <2>1 DEF TraceInv, JobsInv
  <2> QED BY <1>1, <2>1, <2>2, <2>3
<1>4. /\ Len(records) < MaxRecords /\ UNCHANGED <<requests, dead>> /\ Trace!Mint(h)
      /\ records' = Append(records, [payment |-> p, trace |-> Trace!Carried(h)])
  BY <1>1 DEF Trace!Publish, Trace!Outgoing
<1>5. /\ Trace!Carried(h) \in 1..minted' /\ minted' \in {minted, minted + 1}
      /\ Trace!Carried(h) = h \/ Trace!Carried(h) = minted + 1
      /\ Trace!Parsed(h) # Trace!None => Trace!Carried(h) = h
  BY <1>3, <1>4, CarriedIsKnown
<1>6. job \in TraceRows(minted')
  BY <1>3, <1>5, RowsStayTyped DEF TraceInv
<1>7. /\ job' \in TraceRows(minted')
      /\ \A q \in Payment : \A k \in Trace!Kind :
           /\ job'[q][k].trace = job[q][k].trace
           /\ (job'[q][k].state = "absent" <=> job[q][k].state = "absent")
           /\ (k = "enrich" => job'[q][k] = job[q][k])
  BY <1>2, <1>3, <1>6 DEF TraceRows, Trace!Kind
<1>8. At(p, h)
  BY <1>1 DEF At, Trace!Kind
<1> QED BY <1>3, <1>4, <1>5, <1>7, <1>8, AppendKeeps

LEMMA ReplayKeeps ==
  ASSUME Trace!TraceAssumption, TraceInv, NEW i \in DOMAIN records, Trace!Replay(i)
  PROVE  TraceInv'
<1> USE TraceNaturals
<1>1. PICK p, x : p = records[i].payment /\ x = records[i].trace
  OBVIOUS
<1>2. minted \in Nat /\ minted' = minted /\ job' = job /\ job \in TraceRows(minted)
  BY DEF TraceInv, Trace!TypeOK, Trace!Replay, TraceRows
<1>3. records[i] \in [payment : Payment, trace : 1..minted]
  BY <1>2, RecordsStayTyped DEF TraceInv
<1>4. records' = Append(records, [payment |-> p, trace |-> x]) /\ Len(records) < MaxRecords
  <2>1. [records[i] EXCEPT !.trace = Trace!Parsed(@)] = [payment |-> p, trace |-> x]
    BY <1>1, <1>3 DEF Trace!Parsed
  <2> QED BY <2>1 DEF Trace!Replay
<1>5. /\ p \in Payment /\ x \in 1..minted' /\ At(p, x)
      /\ job[p]["publish"].state # "absent"
      /\ Trace!Parsed(job[p]["enrich"].trace) # Trace!None => x = job[p]["enrich"].trace
  BY <1>1, <1>2, <1>3 DEF At, TraceInv, RecordsInv, Trace!OneTrace
<1> QED BY <1>2, <1>4, <1>5, AppendKeeps DEF Trace!Replay

LEMMA EnrichKeeps ==
  ASSUME Trace!TraceAssumption, TraceInv, NEW p \in Payment, Trace!Enrich(p)
  PROVE  TraceInv'
<1>1. /\ minted \in Nat /\ job \in TraceRows(minted) /\ UNCHANGED <<minted, requests, records, dead>>
      /\ job[p]["enrich"].state = "open" /\ job[p]["publish"] = Trace!Absent
  <2>1. job[p]["publish"].state = "absent"
    BY DEF TraceInv, JobsInv, Trace!Enrich
  <2> QED BY <2>1, TraceNaturals DEF TraceInv, JobsInv, Trace!Kind, Trace!TypeOK, TraceRows, Trace!Enrich
<1>2. /\ job' \in TraceRows(minted)
      /\ job'[p]["enrich"] = [state |-> "done", trace |-> job[p]["enrich"].trace]
      /\ job'[p]["publish"] = [state |-> "open", trace |-> job[p]["enrich"].trace]
      /\ \A q \in Payment : q # p => job'[q] = job[q]
  BY <1>1 DEF TraceRows, Trace!Kind, Trace!Enrich
<1>3. Trace!TypeOK'
  BY <1>1, <1>2 DEF TraceInv, Trace!TypeOK, TraceRows
<1>4. JobsInv'
  BY <1>1, <1>2 DEF TraceInv, JobsInv, Trace!Kind
<1>5. \A i \in DOMAIN records : records[i].payment \in Payment
  BY <1>1, RecordsStayTyped DEF TraceInv
<1>6. RecordsInv' /\ Trace!OneTrace'
  BY <1>1, <1>2, <1>5 DEF TraceInv, RecordsInv, Trace!OneTrace
<1>7. OnePayment'
  <2>1. \A q \in Payment : \A x \in Nat : At(q, x)' => At(q, x)
    BY <1>1, <1>2 DEF At, Trace!Kind
  <2> QED BY <2>1 DEF TraceInv, OnePayment
<1> QED BY <1>1, <1>3, <1>4, <1>6, <1>7 DEF TraceInv

\* Every report of a payment, with the header it brings or without.
LEMMA ReportsKeep ==
  ASSUME Trace!TraceAssumption, TraceInv, NEW p \in Payment, NEW h \in Trace!Header,
         Trace!Webhook(p, h) \/ Trace!StatusPage(p, h) \/ Trace!Report(p, h)
  PROVE  TraceInv'
<1> USE TraceNaturals
<1>1. /\ minted \in Nat /\ Clients <= minted /\ requests \in 0..MaxRequests
      /\ h \in {Trace!None, Trace!Malformed} \union 1..minted /\ h <= Clients /\ h \in Int
      /\ {Trace!None, 0} = {0} /\ Trace!None <= Clients
  BY DEF TraceInv, Trace!TypeOK, Trace!Header, Trace!None, Trace!Malformed
<1>2. /\ requests' = requests + 1 /\ requests' \in 0..MaxRequests /\ UNCHANGED <<records, dead>>
  BY <1>1 DEF Trace!Webhook, Trace!StatusPage, Trace!Report, Trace!Request
<1>3. CASE Trace!Webhook(p, h) \/ Trace!StatusPage(p, h)
  <2>1. /\ Trace!Carried(h) \in 1..minted' /\ minted' \in {minted, minted + 1}
        /\ Trace!Carried(h) <= Clients \/ Trace!Carried(h) = minted + 1
    BY <1>1, <1>3, CarriedIsKnown DEF Trace!Webhook, Trace!StatusPage, Trace!Request
  <2>2. PICK x \in Int : Trace!Enqueue(p, x) /\ x \in {Trace!None, Trace!Carried(h)}
    BY <1>3, <2>1 DEF Trace!Webhook, Trace!StatusPage, Trace!None
  <2>3. x \in {Trace!None, Trace!Malformed} \union 1..minted' /\ (x <= Clients \/ x = minted + 1)
    BY <1>1, <2>1, <2>2
  <2> QED BY <1>2, <2>1, <2>2, <2>3, EnqueueKeeps
<1>4. CASE Trace!Report(p, h)
  BY <1>1, <1>2, <1>4, EnqueueKeeps DEF Trace!Report
<1> QED BY <1>3, <1>4

LEMMA TraceInvKept ==
  ASSUME Trace!TraceAssumption, TraceInv, [Trace!Next]_(Trace!vars)
  PROVE  TraceInv'
<1>1. ASSUME NEW p \in Payment, NEW h \in Trace!Header,
             Trace!Webhook(p, h) \/ Trace!StatusPage(p, h) \/ Trace!Report(p, h)
      PROVE  TraceInv'
  BY <1>1, ReportsKeep
<1>2. ASSUME NEW p \in Payment, Trace!Enrich(p)
      PROVE  TraceInv'
  BY <1>2, EnrichKeeps
<1>3. ASSUME NEW p \in Payment, Trace!Publish(p)
      PROVE  TraceInv'
  BY <1>3, PublishKeeps
<1>4. ASSUME NEW i \in DOMAIN records, Trace!Replay(i)
      PROVE  TraceInv'
  BY <1>4, ReplayKeeps
<1>5. ASSUME NEW i \in DOMAIN records, Trace!Quarantine(i)
      PROVE  TraceInv'
  <2>1. UNCHANGED <<minted, requests, job, records>> /\ dead' = dead \union {i}
    BY <1>5 DEF Trace!Quarantine
  <2>2. Trace!TypeOK' /\ minted' <= Clients + requests' + Len(records')
    BY <2>1 DEF TraceInv, Trace!TypeOK
  <2>3. JobsInv' /\ RecordsInv'
    BY <2>1 DEF TraceInv, JobsInv, RecordsInv
  <2>4. Trace!OneTrace'
    BY <2>1 DEF TraceInv, Trace!OneTrace
  <2>5. OnePayment'
    BY <2>1 DEF TraceInv, OnePayment, At
  <2> QED BY <2>2, <2>3, <2>4, <2>5 DEF TraceInv
<1>6. CASE UNCHANGED Trace!vars
  BY <1>6 DEF Trace!vars, TraceInv, Trace!TypeOK, JobsInv, RecordsInv,
              Trace!OneTrace, OnePayment, At
<1> QED BY <1>1, <1>2, <1>3, <1>4, <1>5, <1>6 DEF Trace!Next

LEMMA TraceInvariance ==
  ASSUME Trace!TraceAssumption
  PROVE  Trace!Spec => []TraceInv
<1>1. Trace!Init => TraceInv
  BY InitTraceInv
<1>2. TraceInv /\ [Trace!Next]_(Trace!vars) => TraceInv'
  BY TraceInvKept
<1> QED BY <1>1, <1>2, PTL DEF Trace!Spec

\* The invariant holds what is promised of the traces.
LEMMA TracePromises ==
  ASSUME Trace!TraceAssumption, TraceInv
  PROVE  /\ Trace!TypeOK
         /\ Trace!OneTrace
         /\ Trace!TracesTellPaymentsApart
<1>1. TraceInv => Trace!TypeOK
  BY DEF TraceInv
<1>2. TraceInv => Trace!OneTrace
  BY DEF TraceInv
<1>3. TraceInv => Trace!TracesTellPaymentsApart
  <2> SUFFICES ASSUME TraceInv, NEW i \in DOMAIN records, NEW j \in DOMAIN records,
                      records[i].trace = records[j].trace, records[i].trace > Clients
               PROVE  records[i].payment = records[j].payment
    BY DEF Trace!TracesTellPaymentsApart
  <2>1. PICK S : S = [payment : Payment, trace : 1..minted]
    OBVIOUS
  <2>2. records \in Seq(S)
    BY <2>1 DEF TraceInv, Trace!TypeOK
  <2>3. /\ records[i].payment \in Payment /\ records[j].payment \in Payment
        /\ records[i].trace \in Nat
    <3>1. records[i] \in S /\ records[j] \in S
      BY <2>2
    <3> QED BY <2>1, <3>1
  <2> QED BY <2>3 DEF TraceInv, OnePayment, At
<1> QED BY <1>1, <1>2, <1>3

\* Every trace a job or a record holds was made, by the callers or here.
THEOREM TraceTypeCorrect ==
  ASSUME Trace!TraceAssumption
  PROVE  Trace!Spec => []Trace!TypeOK
<1>1. TraceInv => Trace!TypeOK
  BY TracePromises
<1> QED BY <1>1, TraceInvariance, PTL

\* However often a payment is reported, published and replayed, its records
\* carry the trace of its first report.
THEOREM RecordsKeepTheTrace ==
  ASSUME Trace!TraceAssumption
  PROVE  Trace!Spec => []Trace!OneTrace
<1>1. TraceInv => Trace!OneTrace
  BY TracePromises
<1> QED BY <1>1, TraceInvariance, PTL

\* A trace that no caller brought along is seen on one payment only.
THEOREM TracesDiffer ==
  ASSUME Trace!TraceAssumption
  PROVE  Trace!Spec => []Trace!TracesTellPaymentsApart
<1>1. TraceInv => Trace!TracesTellPaymentsApart
  BY TracePromises
<1> QED BY <1>1, TraceInvariance, PTL

-----------------------------------------------------------------------------
(* ServiceRuntime *)

Last(s) == Len(Runtime!Steps(s))
StoppedBy(s, k) == Runtime!Stops(Runtime!Steps(s)[k])
ClosedBy(s, k) == Runtime!Closes(Runtime!Steps(s)[k])

LEMMA ClosingSteps ==
  /\ \A x \in {"http", "health", "bootstrap", "tasks", "workers"} : Runtime!Closes(x) = {}
  /\ \A x \in {"consumer", "producer", "inventory", "database"} : Runtime!Closes(x) = {x}
BY DEF Runtime!Closes

\* The drain of each service, spelled out.
LEMMA ProductDrain ==
  /\ Last("product") = 7
  /\ StoppedBy("product", 1) = {"http"} /\ StoppedBy("product", 2) = {"health"}
  /\ StoppedBy("product", 3) = {"bootstrap"} /\ StoppedBy("product", 4) = {"relay"}
  /\ \A k \in 5..7 : StoppedBy("product", k) = {}
  /\ \A k \in 1..4 : ClosedBy("product", k) = {}
  /\ \A k \in 5..7 : ClosedBy("product", k) \subseteq {"producer", "inventory", "database"}
BY DEF Last, StoppedBy, ClosedBy, Runtime!Steps, Runtime!Stops, Runtime!Closes

LEMMA OrderDrain ==
  /\ Last("order") = 5
  /\ StoppedBy("order", 1) = {"http"} /\ StoppedBy("order", 2) = {"health"}
  /\ StoppedBy("order", 3) = {"bootstrap"} /\ StoppedBy("order", 4) = {"consumer"}
  /\ StoppedBy("order", 5) = {}
  /\ \A k \in 1..3 : ClosedBy("order", k) = {}
  /\ ClosedBy("order", 4) = {"consumer"} /\ ClosedBy("order", 5) = {"database"}
<1>1. Runtime!Steps("order") = <<"http", "health", "bootstrap", "consumer", "database">>
  BY DEF Runtime!Steps
<1>2. Last("order") = 5
  BY <1>1 DEF Last
<1>3. /\ StoppedBy("order", 1) = {"http"} /\ StoppedBy("order", 2) = {"health"}
      /\ StoppedBy("order", 3) = {"bootstrap"} /\ StoppedBy("order", 4) = {"consumer"}
      /\ StoppedBy("order", 5) = {}
  BY <1>1 DEF StoppedBy, Runtime!Stops
<1>4. /\ ClosedBy("order", 1) = {} /\ ClosedBy("order", 2) = {} /\ ClosedBy("order", 3) = {}
      /\ ClosedBy("order", 4) = {"consumer"} /\ ClosedBy("order", 5) = {"database"}
  BY <1>1, ClosingSteps DEF ClosedBy
<1> QED BY <1>2, <1>3, <1>4

LEMMA PaymentDrain ==
  /\ Last("payment") = 6
  /\ StoppedBy("payment", 1) = {"http"} /\ StoppedBy("payment", 2) = {"monitor", "kafka", "reconcile"}
  /\ StoppedBy("payment", 3) = {"workers"} /\ StoppedBy("payment", 4) = {"consumer"}
  /\ \A k \in 5..6 : StoppedBy("payment", k) = {}
  /\ \A k \in 1..3 : ClosedBy("payment", k) = {}
  /\ ClosedBy("payment", 4) = {"consumer"}
  /\ \A k \in 5..6 : ClosedBy("payment", k) \subseteq {"producer", "database"}
<1>1. Runtime!Steps("payment") = <<"http", "tasks", "workers", "consumer", "producer", "database">>
  BY DEF Runtime!Steps
<1>2. Last("payment") = 6
  BY <1>1 DEF Last
<1>3. /\ StoppedBy("payment", 1) = {"http"}
      /\ StoppedBy("payment", 2) = {"monitor", "kafka", "reconcile"}
      /\ StoppedBy("payment", 3) = {"workers"} /\ StoppedBy("payment", 4) = {"consumer"}
      /\ StoppedBy("payment", 5) = {} /\ StoppedBy("payment", 6) = {}
  BY <1>1 DEF StoppedBy, Runtime!Stops
<1>4. /\ ClosedBy("payment", 1) = {} /\ ClosedBy("payment", 2) = {} /\ ClosedBy("payment", 3) = {}
      /\ ClosedBy("payment", 4) = {"consumer"}
      /\ ClosedBy("payment", 5) \subseteq {"producer", "database"}
      /\ ClosedBy("payment", 6) \subseteq {"producer", "database"}
  BY <1>1, ClosingSteps DEF ClosedBy
<1> QED BY <1>2, <1>3, <1>4

LEMMA AwaitedOnes ==
  /\ Runtime!Awaited("product") = {"http", "health", "bootstrap", "relay"}
  /\ Runtime!Awaited("order") = {"http", "health", "bootstrap", "consumer"}
  /\ Runtime!Awaited("payment") = {"http", "monitor", "kafka", "reconcile", "workers", "consumer"}
BY DEF Runtime!Awaited, Runtime!Steps, Runtime!Stops, Runtime!ToSet

\* What an activity uses is closed by its own step at the earliest, and all that
\* is ever started is stopped by one step.
LEMMA Layout ==
  ASSUME NEW s \in Runtime!Service
  PROVE  /\ Last(s) \in 5..7
         /\ \A k \in 1..Last(s) : StoppedBy(s, k) \subseteq Runtime!Awaited(s)
         /\ \A a \in Runtime!Awaited(s) : \E k \in 1..Last(s) : a \in StoppedBy(s, k)
         /\ \A j, k \in 1..Last(s) : k < j =>
              /\ StoppedBy(s, j) \cap StoppedBy(s, k) = {}
              /\ \A a \in StoppedBy(s, j) : Runtime!Uses(a) \cap ClosedBy(s, k) = {}
<1>1. CASE s = "product"
  <2>1. \A j, k \in 1..7 : k < j /\ StoppedBy(s, j) # {} => j \in 1..4 /\ k \in 1..3
    BY <1>1, ProductDrain
  <2> QED BY <1>1, <2>1, ProductDrain, AwaitedOnes
<1>2. CASE s = "order"
  BY <1>2, OrderDrain, AwaitedOnes
<1>3. CASE s = "payment"
  BY <1>3, PaymentDrain, AwaitedOnes
<1> QED BY <1>1, <1>2, <1>3 DEF Runtime!Service

LEMMA ClosableOnes ==
  ASSUME NEW s \in Runtime!Service
  PROVE  Runtime!Closable(s) = UNION {ClosedBy(s, k) : k \in 1..Last(s)}
<1>1. DOMAIN Runtime!Steps(s) = 1..Last(s)
  <2>1. CASE s = "product"
    BY <2>1 DEF Last, Runtime!Steps
  <2>2. CASE s = "order"
    BY <2>2 DEF Last, Runtime!Steps
  <2>3. CASE s = "payment"
    BY <2>3 DEF Last, Runtime!Steps
  <2> QED BY <2>1, <2>2, <2>3 DEF Runtime!Service
<1> QED BY <1>1 DEF Runtime!Closable, Runtime!ToSet, ClosedBy

\* Where the activities that start late are stopped.
LEMMA LateOnes ==
  /\ "bootstrap" \in StoppedBy("product", 3) /\ "bootstrap" \in StoppedBy("order", 3)
  /\ "bootstrap" \notin Runtime!Awaited("payment")
  /\ "relay" \in StoppedBy("product", 4)
  /\ "consumer" \in StoppedBy("order", 4) /\ "consumer" \in StoppedBy("payment", 4)
  /\ "kafka" \in StoppedBy("payment", 2)
  /\ "kafka" \notin Runtime!Awaited("product") /\ "kafka" \notin Runtime!Awaited("order")
BY ProductDrain, OrderDrain, PaymentDrain, AwaitedOnes

\* Steps that were taken have stopped their activities; the one that is asked
\* lets none begin.
StoppedOnes ==
  \A k \in 1..Last(service) :
    /\ k < drain.step \/ (k = drain.step /\ drain.asked) => StoppedBy(service, k) \cap on = {}
    /\ k < drain.step => StoppedBy(service, k) \cap busy = {}

\* What is closed was closed by such a step, and without a failure all of them did.
ClosedOnes ==
  /\ \A x \in closed : \E k \in 1..Last(service) : k < drain.step /\ x \in ClosedBy(service, k)
  /\ ~drain.failed => \A k \in 1..Last(service) : k < drain.step => ClosedBy(service, k) \subseteq closed

BootInv ==
  /\ boot \in {"storage", "kafka"} => "bootstrap" \in busy
  /\ service = "payment" => boot = "done"
  /\ boot = "timer" => service = "order"

PhaseInv ==
  /\ phase = "up" => drain = Runtime!NoDrain
  /\ phase = "draining" => 1 <= drain.step
  /\ phase = "draining" /\ service # "payment" => ready = {}
  /\ phase = "exit 0" => drain.step = Last(service) + 1 /\ ~drain.failed

RunInv == Runtime!TypeOK /\ StoppedOnes /\ ClosedOnes /\ BootInv /\ PhaseInv

LEMMA RuntimeFacts ==
  ASSUME Runtime!RuntimeAssumption, RunInv
  PROVE  /\ MaxFlips \in Nat /\ ClosingFaults \in Nat
         /\ service \in Runtime!Service /\ Last(service) \in 5..7
         /\ drain \in [step : 0..Last(service) + 1, asked : BOOLEAN, failed : BOOLEAN]
         /\ drain.step \in 0..Last(service) + 1
         /\ on \subseteq Runtime!Awaited(service)
         /\ busy \subseteq Runtime!Awaited(service) \union {"abandoned"}
         /\ ready \subseteq Runtime!Required(service)
  BY Layout DEF RunInv, Runtime!TypeOK, Last, Runtime!RuntimeAssumption

LEMMA InitRunInv ==
  ASSUME Runtime!RuntimeAssumption, Runtime!Init
  PROVE  RunInv
<1>1. service \in Runtime!Service /\ Last(service) \in 5..7
  BY Layout DEF Runtime!Init
<1>2. on \subseteq Runtime!Awaited(service) /\ busy \subseteq Runtime!Awaited(service)
  BY AwaitedOnes DEF Runtime!Init, Runtime!Loops, Runtime!Service
<1>3. drain = [step |-> 0, asked |-> FALSE, failed |-> FALSE]
  BY DEF Runtime!Init, Runtime!NoDrain
<1>4. Runtime!TypeOK
  BY <1>1, <1>2, <1>3 DEF Runtime!Init, Runtime!TypeOK, Last, Runtime!RuntimeAssumption
<1>5. StoppedOnes /\ ClosedOnes
  BY <1>1, <1>3 DEF Runtime!Init, StoppedOnes, ClosedOnes
<1>6. BootInv /\ PhaseInv
  BY DEF Runtime!Init, BootInv, PhaseInv
<1> QED BY <1>4, <1>5, <1>6 DEF RunInv

\* Work begins only where the drain has not come yet.
LEMMA WorkKeeps ==
  ASSUME Runtime!RuntimeAssumption, RunInv, UNCHANGED <<service, closed, drain>>,
         \A a \in on' : a \notin on => \A k \in 1..Last(service) :
           k < drain.step \/ (k = drain.step /\ drain.asked) => a \notin StoppedBy(service, k),
         \A a \in busy' : a \notin busy => \A k \in 1..Last(service) :
           k < drain.step => a \notin StoppedBy(service, k)
  PROVE  StoppedOnes' /\ ClosedOnes'
<1>1. StoppedOnes /\ ClosedOnes
  BY DEF RunInv
<1>2. StoppedOnes'
  BY <1>1 DEF StoppedOnes
<1>3. ClosedOnes'
  BY <1>1 DEF ClosedOnes
<1> QED BY <1>2, <1>3

LEMMA OutsideKeeps ==
  ASSUME Runtime!RuntimeAssumption, RunInv,
         Runtime!Migrate \/ (\E x \in {"database", "kafka"} : Runtime!Flip(x))
           \/ UNCHANGED Runtime!vars
  PROVE  RunInv'
<1>1. UNCHANGED <<service, linked, boot, on, busy, closed, ready, drain, phase, faults>>
  BY DEF Runtime!Migrate, Runtime!Flip, Runtime!vars, Runtime!outside
<1>2. up' \subseteq {"database", "kafka"} /\ migrated' \in BOOLEAN /\ flips' \in 0..MaxFlips
  <2>1. up \subseteq {"database", "kafka"} /\ migrated \in BOOLEAN /\ flips \in 0..MaxFlips
        /\ MaxFlips \in Nat
    BY RuntimeFacts DEF RunInv, Runtime!TypeOK
  <2>2. CASE Runtime!Migrate
    BY <2>1, <2>2 DEF Runtime!Migrate
  <2>3. CASE \E x \in {"database", "kafka"} : Runtime!Flip(x)
    BY <2>1, <2>3 DEF Runtime!Flip
  <2>4. CASE UNCHANGED Runtime!vars
    BY <2>1, <2>4 DEF Runtime!vars, Runtime!outside
  <2> QED BY <2>2, <2>3, <2>4
<1>3. Runtime!TypeOK'
  BY <1>1, <1>2 DEF RunInv, Runtime!TypeOK
<1> QED BY <1>1, <1>3 DEF RunInv, StoppedOnes, ClosedOnes, BootInv, PhaseInv

\* Requests, ticks, messages and passes, and how they end.
LEMMA WorkRuns ==
  ASSUME Runtime!RuntimeAssumption, RunInv,
         \/ \E a \in on : Runtime!Begin(a)
         \/ \E a \in busy : Runtime!Finish(a)
         \/ Runtime!Abandon
  PROVE  RunInv'
<1>1. UNCHANGED <<service, up, migrated, flips, linked, boot, on, closed, ready, drain, phase, faults>>
  BY DEF Runtime!Begin, Runtime!Finish, Runtime!Abandon, Runtime!outside
<1>2. /\ \A a \in busy' : a \in busy \/ a \in on \/ a = "abandoned"
      /\ "bootstrap" \in busy => "bootstrap" \in busy'
  BY DEF Runtime!Begin, Runtime!Finish, Runtime!Abandon
<1>3. Runtime!TypeOK'
  BY <1>1, <1>2 DEF RunInv, Runtime!TypeOK
<1>4. \A a \in busy' : a \notin busy => \A k \in 1..Last(service) :
        k < drain.step => a \notin StoppedBy(service, k)
  <2>1. \A k \in 1..Last(service) : "abandoned" \notin StoppedBy(service, k)
    BY RuntimeFacts, Layout, AwaitedOnes DEF Runtime!Service
  <2> QED BY <1>2, <2>1 DEF RunInv, StoppedOnes
<1>5. StoppedOnes' /\ ClosedOnes'
  BY <1>1, <1>4, WorkKeeps
<1>6. BootInv' /\ PhaseInv'
  BY <1>1, <1>2 DEF RunInv, BootInv, PhaseInv
<1> QED BY <1>3, <1>5, <1>6 DEF RunInv

\* A monitor that comes back does not make a draining process ready.
LEMMA CheckKeeps ==
  ASSUME Runtime!RuntimeAssumption, RunInv, NEW a \in busy, Runtime!Check(a)
  PROVE  RunInv'
<1>1. UNCHANGED <<service, up, migrated, flips, linked, boot, on, closed, drain, phase, faults>>
  BY DEF Runtime!Check, Runtime!outside
<1>2. busy' = busy \ {a} /\ a \in {"health", "monitor"}
  BY DEF Runtime!Check, Runtime!Rested
<1>3. /\ ready' \in {ready, ready \union Runtime!Required(service), ready \ {"database"}}
      /\ service # "payment" /\ phase = "draining" => ready' \subseteq ready
  BY DEF Runtime!Check, Runtime!Monitored, Runtime!Draining
<1>4. Runtime!TypeOK'
  BY <1>1, <1>2, <1>3 DEF RunInv, Runtime!TypeOK
<1>5. StoppedOnes' /\ ClosedOnes'
  BY <1>1, <1>2, WorkKeeps
<1>6. BootInv' /\ PhaseInv'
  BY <1>1, <1>2, <1>3 DEF RunInv, BootInv, PhaseInv
<1> QED BY <1>4, <1>5, <1>6 DEF RunInv

\* An activity that a later step stops may still be started.
LEMMA LaterStep ==
  ASSUME Runtime!RuntimeAssumption, RunInv, NEW early \in busy,
         NEW i \in 1..Last(service), NEW j \in 1..Last(service), i < j,
         early \in StoppedBy(service, i), NEW late \in StoppedBy(service, j)
  PROVE  \A k \in 1..Last(service) :
           k < drain.step \/ (k = drain.step /\ drain.asked) => late \notin StoppedBy(service, k)
<1>1. drain.step <= i
  BY RuntimeFacts DEF RunInv, StoppedOnes
<1> QED BY <1>1, RuntimeFacts, Layout

LEMMA StartKafkaKeeps ==
  ASSUME Runtime!RuntimeAssumption, RunInv, Runtime!StartKafka
  PROVE  RunInv'
<1>1. /\ UNCHANGED <<service, up, migrated, flips, linked, boot, closed, ready, drain, phase, faults>>
      /\ "kafka" \in busy /\ busy' = busy \ {"kafka"} /\ on' \in {on, on \union {"consumer"}}
  BY DEF Runtime!StartKafka, Runtime!Rested, Runtime!outside
<1>2. service = "payment" /\ Last(service) = 6
  BY <1>1, RuntimeFacts, LateOnes, PaymentDrain DEF Runtime!Service
<1>3. \A k \in 1..Last(service) :
        k < drain.step \/ (k = drain.step /\ drain.asked) => "consumer" \notin StoppedBy(service, k)
  BY <1>1, <1>2, LaterStep, LateOnes
<1>4. Runtime!TypeOK'
  BY <1>1, <1>2, AwaitedOnes DEF RunInv, Runtime!TypeOK
<1>5. StoppedOnes' /\ ClosedOnes'
  BY <1>1, <1>3, WorkKeeps
<1>6. BootInv' /\ PhaseInv'
  BY <1>1 DEF RunInv, BootInv, PhaseInv
<1> QED BY <1>4, <1>5, <1>6 DEF RunInv

\* Bootstrap, whose step of the drain comes third.
LEMMA BootStorageKeeps ==
  ASSUME Runtime!RuntimeAssumption, RunInv, Runtime!BootStorage
  PROVE  RunInv'
<1>1. /\ UNCHANGED <<service, up, migrated, flips, on, closed, drain, faults>>
      /\ boot = "storage" /\ phase \in {"up", "draining"} /\ linked \in BOOLEAN
      /\ service # "payment"
  BY DEF Runtime!BootStorage, Runtime!outside, Runtime!Alive, RunInv, BootInv, Runtime!TypeOK
<1>2. linked' \in BOOLEAN
  BY <1>1 DEF Runtime!BootStorage
<1>3. \/ /\ boot' = "kafka" /\ phase = "up" /\ phase' = phase /\ busy' = busy
         /\ ready' = ready \union {"database"}
      \/ /\ busy' = busy \ {"bootstrap"} /\ ready' \in {ready, ready \ {"database"}}
         /\ \/ phase' = phase /\ boot' = "done"
            \/ phase' = "exit 1" /\ boot' = "done"
            \/ phase' = phase /\ boot' = "timer" /\ service = "order"
  <2>1. CASE "database" \in up /\ migrated
    BY <1>1, <2>1 DEF Runtime!BootStorage, Runtime!Draining
  <2>2. CASE ~("database" \in up /\ migrated)
    <3>1. service \in {"product", "order"}
      BY <1>1, RuntimeFacts DEF Runtime!Service
    <3> QED BY <1>1, <2>2, <3>1 DEF Runtime!BootStorage, Runtime!BootFails, Runtime!Draining
  <2> QED BY <2>1, <2>2
<1>4. Runtime!TypeOK'
  BY <1>1, <1>2, <1>3 DEF RunInv, Runtime!TypeOK, Runtime!Required
<1>5. StoppedOnes' /\ ClosedOnes'
  BY <1>1, <1>3, WorkKeeps
<1>6. BootInv'
  BY <1>1, <1>3 DEF RunInv, BootInv
<1>7. PhaseInv'
  BY <1>1, <1>3 DEF RunInv, PhaseInv
<1> QED BY <1>4, <1>5, <1>6, <1>7 DEF RunInv

LEMMA BootKafkaKeeps ==
  ASSUME Runtime!RuntimeAssumption, RunInv, Runtime!BootKafka
  PROVE  RunInv'
<1>1. /\ UNCHANGED <<service, up, migrated, flips, linked, closed, ready, drain, faults>>
      /\ boot = "kafka" /\ phase \in {"up", "draining"}
      /\ "bootstrap" \in busy /\ busy' = busy \ {"bootstrap"}
      /\ service \in {"product", "order"}
  BY RuntimeFacts DEF Runtime!BootKafka, Runtime!outside, Runtime!Alive, RunInv, BootInv, Runtime!Service
<1>2. /\ \/ on' = on
         \/ service = "product" /\ on' = on \union {"relay"}
         \/ service = "order" /\ on' = on \union {"consumer"}
      /\ \/ phase' = phase /\ boot' = "done"
         \/ phase' = phase /\ boot' = "timer" /\ service = "order"
  <2>1. CASE service = "order" /\ "kafka" \notin up
    BY <2>1 DEF Runtime!BootKafka, Runtime!BootFails
  <2>2. CASE ~(service = "order" /\ "kafka" \notin up)
    BY <2>2 DEF Runtime!BootKafka
  <2> QED BY <2>1, <2>2
<1>3. \A a \in on' : a \notin on => \A k \in 1..Last(service) :
        k < drain.step \/ (k = drain.step /\ drain.asked) => a \notin StoppedBy(service, k)
  <2>1. 3 \in 1..Last(service) /\ 4 \in 1..Last(service)
    BY RuntimeFacts
  <2> QED BY <1>1, <1>2, <2>1, LaterStep, LateOnes
<1>4. Runtime!TypeOK'
  BY <1>1, <1>2, AwaitedOnes DEF RunInv, Runtime!TypeOK
<1>5. StoppedOnes' /\ ClosedOnes'
  BY <1>1, <1>3, WorkKeeps
<1>6. BootInv' /\ PhaseInv'
  BY <1>1, <1>2 DEF RunInv, BootInv, PhaseInv
<1> QED BY <1>4, <1>5, <1>6 DEF RunInv

LEMMA TimerKeeps ==
  ASSUME Runtime!RuntimeAssumption, RunInv, Runtime!TimerFires
  PROVE  RunInv'
<1>1. /\ UNCHANGED <<service, up, migrated, flips, linked, on, closed, ready, drain, phase, faults>>
      /\ service = "order" /\ phase \in {"up", "draining"}
      /\ \/ boot' = "done" /\ busy' = busy
         \/ boot' = "storage" /\ busy' = busy \union {"bootstrap"} /\ phase = "up"
  BY DEF Runtime!TimerFires, Runtime!outside, Runtime!Alive, Runtime!Draining, RunInv, BootInv
<1>2. phase = "up" => drain.step = 0
  BY DEF RunInv, PhaseInv, Runtime!NoDrain
<1>3. Runtime!TypeOK'
  BY <1>1, AwaitedOnes DEF RunInv, Runtime!TypeOK
<1>4. StoppedOnes' /\ ClosedOnes'
  <2>1. \A k \in 1..Last(service) : phase = "up" => ~(k < drain.step)
    BY <1>2, RuntimeFacts
  <2> QED BY <1>1, <2>1, WorkKeeps
<1>5. BootInv' /\ PhaseInv'
  BY <1>1 DEF RunInv, BootInv, PhaseInv
<1> QED BY <1>3, <1>4, <1>5 DEF RunInv

LEMMA SignalKeeps ==
  ASSUME Runtime!RuntimeAssumption, RunInv, Runtime!Signal
  PROVE  RunInv'
<1>1. /\ UNCHANGED <<service, up, migrated, flips, linked, on, busy, closed, faults>>
      /\ phase' = "draining" /\ ready' = {} /\ boot' \in {boot, "done"}
      /\ drain' = [step |-> 1, asked |-> FALSE, failed |-> FALSE]
  BY DEF Runtime!Signal, Runtime!outside, Runtime!NoDrain
<1>2. drain = Runtime!NoDrain
  BY DEF Runtime!Signal, RunInv, PhaseInv
<1>3. Runtime!TypeOK'
  <2>1. drain' \in [step : 0..Last(service) + 1, asked : BOOLEAN, failed : BOOLEAN]
    BY <1>1, RuntimeFacts
  <2> QED BY <1>1, <2>1 DEF RunInv, Runtime!TypeOK, Last
<1>4. StoppedOnes' /\ ClosedOnes'
  BY <1>1, <1>2, RuntimeFacts DEF RunInv, StoppedOnes, ClosedOnes, Runtime!NoDrain
<1>5. BootInv'
  BY <1>1 DEF RunInv, BootInv
<1>6. PhaseInv'
  <2>1. drain'.step = 1 /\ phase' = "draining" /\ ready' = {}
    BY <1>1
  <2> QED BY <2>1 DEF PhaseInv
<1> QED BY <1>3, <1>4, <1>5, <1>6 DEF RunInv

LEMMA AskStepKeeps ==
  ASSUME Runtime!RuntimeAssumption, RunInv, Runtime!AskStep
  PROVE  RunInv'
<1>1. /\ UNCHANGED <<service, up, migrated, flips, linked, boot, busy, closed, ready, phase, faults>>
      /\ phase = "draining" /\ drain.step \in 1..Last(service)
      /\ on' = on \ StoppedBy(service, drain.step)
      /\ drain' = [drain EXCEPT !.asked = TRUE]
  BY RuntimeFacts DEF Runtime!AskStep, Runtime!outside, Runtime!MoreSteps, Runtime!Draining,
                   Runtime!Step, Last, StoppedBy, RunInv, PhaseInv
<1>2. /\ drain'.step = drain.step /\ drain'.failed = drain.failed
      /\ drain' \in [step : 0..Last(service) + 1, asked : BOOLEAN, failed : BOOLEAN]
  BY <1>1, RuntimeFacts
<1>3. Runtime!TypeOK'
  BY <1>1, <1>2 DEF RunInv, Runtime!TypeOK, Last
<1>4. StoppedOnes' /\ ClosedOnes'
  BY <1>1, <1>2 DEF RunInv, StoppedOnes, ClosedOnes
<1>5. BootInv' /\ PhaseInv'
  BY <1>1, <1>2 DEF RunInv, BootInv, PhaseInv
<1> QED BY <1>3, <1>4, <1>5 DEF RunInv

\* A step ends when what it stops is at rest, or by a disconnect that throws.
LEMMA StepEnds ==
  ASSUME Runtime!RuntimeAssumption, RunInv, Runtime!StepDone \/ Runtime!StepThrows
  PROVE  RunInv'
<1>1. /\ UNCHANGED <<service, up, migrated, flips, linked, boot, on, busy, ready, phase>>
      /\ phase = "draining" /\ drain.step \in 1..Last(service) /\ drain.asked
      /\ faults' \in 0..ClosingFaults
  <2>1. phase = "draining" => 1 <= drain.step
    BY DEF RunInv, PhaseInv
  <2>2. faults \in 0..ClosingFaults /\ ClosingFaults \in Nat
    BY RuntimeFacts DEF RunInv, Runtime!TypeOK
  <2>3. drain.step \in 0..Last(service) + 1 /\ Last(service) \in 5..7
    BY RuntimeFacts
  <2>4. CASE Runtime!StepDone
    BY <2>1, <2>2, <2>3, <2>4 DEF Runtime!StepDone, Runtime!outside, Runtime!MoreSteps,
                                  Runtime!Draining, Last
  <2>5. CASE Runtime!StepThrows
    BY <2>1, <2>2, <2>3, <2>5 DEF Runtime!StepThrows, Runtime!outside, Runtime!MoreSteps,
                                  Runtime!Draining, Last
  <2> QED BY <2>4, <2>5
<1>2. StoppedBy(service, drain.step) \cap busy = {}
  BY DEF Runtime!StepDone, Runtime!StepThrows, Runtime!Quiet, Runtime!Step, StoppedBy, Runtime!Stops
<1>3. /\ drain'.step = drain.step + 1 /\ drain'.asked = FALSE
      /\ drain' \in [step : 0..Last(service) + 1, asked : BOOLEAN, failed : BOOLEAN]
      /\ ~drain'.failed => /\ ~drain.failed
                          /\ closed' = closed \union ClosedBy(service, drain.step)
      /\ closed' \in {closed, closed \union ClosedBy(service, drain.step)}
  <2>1. drain.failed \in BOOLEAN /\ drain.step + 1 \in 0..Last(service) + 1
    BY <1>1, RuntimeFacts
  <2>2. CASE Runtime!StepDone
    <3>1. closed' = closed \union ClosedBy(service, drain.step)
      BY <2>2 DEF Runtime!StepDone, Runtime!Step, ClosedBy
    <3>2. drain' = [step |-> drain.step + 1, asked |-> FALSE, failed |-> drain.failed]
      BY <2>1, <2>2 DEF Runtime!StepDone, Runtime!NextStep
    <3> QED BY <2>1, <3>1, <3>2
  <2>3. CASE Runtime!StepThrows
    <3>1. closed' = closed
      BY <2>3 DEF Runtime!StepThrows
    <3>2. drain' = [step |-> drain.step + 1, asked |-> FALSE, failed |-> TRUE]
      BY <2>1, <2>3 DEF Runtime!StepThrows, Runtime!NextStep
    <3> QED BY <2>1, <3>1, <3>2
  <2> QED BY <2>2, <2>3
<1>4. closed' \subseteq Runtime!Closable(service)
  BY <1>1, <1>3, RuntimeFacts, ClosableOnes DEF RunInv, Runtime!TypeOK
<1>5. Runtime!TypeOK'
  BY <1>1, <1>3, <1>4 DEF RunInv, Runtime!TypeOK, Last
<1>6. StoppedOnes'
  BY <1>1, <1>2, <1>3, RuntimeFacts DEF RunInv, StoppedOnes
<1>7. ClosedOnes'
  BY <1>1, <1>3, RuntimeFacts DEF RunInv, ClosedOnes
<1>8. BootInv' /\ PhaseInv'
  BY <1>1, <1>3 DEF RunInv, BootInv, PhaseInv
<1> QED BY <1>5, <1>6, <1>7, <1>8 DEF RunInv

LEMMA StepsRunOut ==
  ASSUME Runtime!RuntimeAssumption, RunInv, ~(drain.step <= Last(service))
  PROVE  drain.step = Last(service) + 1
BY RuntimeFacts

LEMMA StepsRanOut ==
  ASSUME Runtime!RuntimeAssumption, RunInv, drain.step = Last(service) + 1
  PROVE  \A k \in 1..Last(service) : k < drain.step
BY RuntimeFacts

LEMMA ExitKeeps ==
  ASSUME Runtime!RuntimeAssumption, RunInv, Runtime!Exit \/ Runtime!Deadline
  PROVE  RunInv'
<1>1. /\ UNCHANGED <<service, up, migrated, flips, linked, boot, on, busy, closed, ready, drain, faults>>
      /\ phase' \in {"exit 0", "exit 1"}
      /\ phase' = "exit 0" => ~drain.failed /\ ~(drain.step <= Last(service))
  BY DEF Runtime!Exit, Runtime!Deadline, Runtime!outside, Runtime!MoreSteps, Runtime!Draining, Last
<1>2. phase' = "exit 0" => drain.step = Last(service) + 1
  BY <1>1, StepsRunOut
<1>3. Runtime!TypeOK'
  BY <1>1 DEF RunInv, Runtime!TypeOK
<1>4. StoppedOnes' /\ ClosedOnes'
  BY <1>1 DEF RunInv, StoppedOnes, ClosedOnes
<1>5. BootInv' /\ PhaseInv'
  BY <1>1, <1>2 DEF RunInv, BootInv, PhaseInv
<1> QED BY <1>3, <1>4, <1>5 DEF RunInv

LEMMA RunInvKept ==
  ASSUME Runtime!RuntimeAssumption, RunInv, [Runtime!Next]_(Runtime!vars)
  PROVE  RunInv'
<1>1. CASE Runtime!Work
  <2>1. ASSUME NEW a \in busy, Runtime!Check(a)
        PROVE  RunInv'
    BY <2>1, CheckKeeps
  <2> QED BY <1>1, <2>1, WorkRuns, StartKafkaKeeps DEF Runtime!Work
<1>2. CASE Runtime!Boot
  BY <1>2, BootStorageKeeps, BootKafkaKeeps, TimerKeeps DEF Runtime!Boot
<1>3. CASE Runtime!Drain
  BY <1>3, AskStepKeeps, StepEnds, ExitKeeps DEF Runtime!Drain
<1>4. CASE Runtime!Signal \/ Runtime!StepThrows
  BY <1>4, SignalKeeps, StepEnds
<1>5. CASE \/ Runtime!Migrate \/ \E x \in {"database", "kafka"} : Runtime!Flip(x)
           \/ UNCHANGED Runtime!vars
  BY <1>5, OutsideKeeps
<1> QED BY <1>1, <1>2, <1>3, <1>4, <1>5 DEF Runtime!Next

LEMMA RunInvariance ==
  ASSUME Runtime!RuntimeAssumption
  PROVE  Runtime!Spec => []RunInv
<1>1. Runtime!Init => RunInv
  BY InitRunInv
<1>2. RunInv /\ [Runtime!Next]_(Runtime!vars) => RunInv'
  BY RunInvKept
<1> QED BY <1>1, <1>2, PTL DEF Runtime!Spec

\* The invariant holds what is promised of start and stop.
LEMMA RuntimePromises ==
  ASSUME Runtime!RuntimeAssumption, RunInv
  PROVE  /\ Runtime!TypeOK
         /\ Runtime!NothingUsesAClosedDependency
         /\ Runtime!CleanExit
         /\ Runtime!DrainingIsNotReady
<1>1. RunInv => Runtime!TypeOK
  BY DEF RunInv
<1>2. RunInv => Runtime!NothingUsesAClosedDependency
  <2> SUFFICES ASSUME RunInv, NEW a \in busy, a \in Runtime!Awaited(service),
                      NEW x \in closed, x \in Runtime!Uses(a)
               PROVE  FALSE
    BY DEF Runtime!NothingUsesAClosedDependency
  <2>1. PICK j \in 1..Last(service) : a \in StoppedBy(service, j)
    BY RuntimeFacts, Layout
  <2>2. PICK k \in 1..Last(service) : k < drain.step /\ x \in ClosedBy(service, k)
    BY DEF RunInv, ClosedOnes
  <2>3. ~(j < drain.step)
    BY <2>1 DEF RunInv, StoppedOnes
  <2>4. k < j
    BY <2>2, <2>3, RuntimeFacts
  <2> QED BY <2>1, <2>2, <2>4, RuntimeFacts, Layout
<1>3. RunInv => Runtime!CleanExit
  <2> SUFFICES ASSUME RunInv, phase = "exit 0"
               PROVE  closed = Runtime!Closable(service) /\ on = {} /\ busy \subseteq {"abandoned"}
    BY DEF Runtime!CleanExit
  <2>1. /\ drain.step = Last(service) + 1 /\ ~drain.failed
        /\ \A k \in 1..Last(service) : k < drain.step
    <3>1. drain.step = Last(service) + 1 /\ ~drain.failed
      BY DEF RunInv, PhaseInv
    <3> QED BY <3>1, StepsRanOut
  <2>2. closed = Runtime!Closable(service)
    <3>1. \A k \in 1..Last(service) : ClosedBy(service, k) \subseteq closed
      BY <2>1 DEF RunInv, ClosedOnes
    <3>2. closed \subseteq Runtime!Closable(service)
      BY DEF RunInv, Runtime!TypeOK
    <3>3. Runtime!Closable(service) = UNION {ClosedBy(service, k) : k \in 1..Last(service)}
      BY RuntimeFacts, ClosableOnes
    <3> QED BY <3>1, <3>2, <3>3
  <2>3. \A a \in Runtime!Awaited(service) : a \notin on /\ a \notin busy
    BY <2>1, RuntimeFacts, Layout DEF RunInv, StoppedOnes
  <2> QED BY <2>2, <2>3, RuntimeFacts
<1>4. RunInv => Runtime!DrainingIsNotReady
  BY DEF RunInv, PhaseInv, Runtime!DrainingIsNotReady, Runtime!IsReady, Runtime!Required,
         Runtime!Draining
<1> QED BY <1>1, <1>2, <1>3, <1>4

\* An activity begins and ends within those its service has, and closes and
\* marks ready only what it has.
THEOREM RuntimeTypeCorrect ==
  ASSUME Runtime!RuntimeAssumption
  PROVE  Runtime!Spec => []Runtime!TypeOK
<1>1. RunInv => Runtime!TypeOK
  BY RuntimePromises
<1> QED BY <1>1, RunInvariance, PTL

\* No work runs on a dependency that the drain has closed (shutdown.ts).
THEOREM WorkHasItsDependencies ==
  ASSUME Runtime!RuntimeAssumption
  PROVE  Runtime!Spec => []Runtime!NothingUsesAClosedDependency
<1>1. RunInv => Runtime!NothingUsesAClosedDependency
  BY RuntimePromises
<1> QED BY <1>1, RunInvariance, PTL

\* Exit code 0 says that everything was drained and closed.
THEOREM CleanExitIsClean ==
  ASSUME Runtime!RuntimeAssumption
  PROVE  Runtime!Spec => []Runtime!CleanExit
<1>1. RunInv => Runtime!CleanExit
  BY RuntimePromises
<1> QED BY <1>1, RunInvariance, PTL

\* A draining product or order process never looks ready.
THEOREM DrainingLooksUnready ==
  ASSUME Runtime!RuntimeAssumption
  PROVE  Runtime!Spec => []Runtime!DrainingIsNotReady
<1>1. RunInv => Runtime!DrainingIsNotReady
  BY RuntimePromises
<1> QED BY <1>1, RunInvariance, PTL

-----------------------------------------------------------------------------
(* Migration *)

\* What the advisory lock buys: whoever is past it is alone, so what it compared is
\* still what is committed.
LockAlone == \A d \in Deployer : pc[d] \in Migrate!Open => lock = {d}

RecordedIsMade == version = tables

\* What the transaction of a deployer has made, and what it knows of the
\* committed version.
TransactionInv ==
  \A d \in Deployer :
    /\ pc[d] \notin {"recording", "committing"} => made[d] = {}
    /\ pc[d] \in {"applying", "recording"} => version = {}
    /\ pc[d] = "recording" => made[d] = {file[d]}
    /\ pc[d] = "committing" =>
         \/ made[d] = {file[d]} /\ version = {}
         \/ made[d] = {} /\ version = {file[d]}

\* What a deployment that ended may conclude.
EndedInv ==
  \A d \in Deployer :
    /\ pc[d] = "done" => version = {file[d]}
    /\ pc[d] = "changed" => version # {} /\ version # {file[d]}
    /\ pc[d] # "duplicate"

MigrationInv == Migrate!TypeOK /\ LockAlone /\ RecordedIsMade /\ TransactionInv /\ EndedInv

\* The invariant holds before any deployment.
LEMMA InitMigrationInv == ASSUME Migrate!MigrationAssumption PROVE Migrate!Init => MigrationInv
  BY DEF Migrate!MigrationAssumption, Migrate!Init, MigrationInv, Migrate!TypeOK, Migrate!AtMostOne,
         LockAlone, RecordedIsMade, TransactionInv, EndedInv, Migrate!Open

\* The lock is taken when nobody has it.
LEMMA TakeLockKeeps ==
  ASSUME Migrate!MigrationAssumption, MigrationInv, NEW d \in Deployer, Migrate!TakeLock(d)
  PROVE  MigrationInv'
<1> USE DEF MigrationInv, Migrate!TakeLock
<1>1. Migrate!TypeOK'
  BY DEF Migrate!TypeOK, Migrate!AtMostOne, Migrate!Open
<1>2. LockAlone' /\ RecordedIsMade'
  BY DEF Migrate!TypeOK, LockAlone, RecordedIsMade, Migrate!Open
<1>3. TransactionInv' /\ EndedInv'
  BY DEF Migrate!TypeOK, LockAlone, TransactionInv, EndedInv, Migrate!Open
<1> QED BY <1>1, <1>2, <1>3

\* Comparing changes nothing, and ends the transaction of a changed file.
LEMMA CompareKeeps ==
  ASSUME Migrate!MigrationAssumption, MigrationInv, NEW d \in Deployer, Migrate!Compare(d)
  PROVE  MigrationInv'
<1> USE DEF MigrationInv, Migrate!Compare, Migrate!Ended
<1>1. Migrate!TypeOK'
  BY DEF Migrate!TypeOK, Migrate!AtMostOne, Migrate!Open
<1>2. LockAlone' /\ RecordedIsMade'
  BY DEF Migrate!TypeOK, LockAlone, RecordedIsMade, Migrate!Open
<1>3. TransactionInv' /\ EndedInv'
  BY DEF Migrate!TypeOK, LockAlone, TransactionInv, EndedInv, Migrate!Open
<1> QED BY <1>1, <1>2, <1>3

\* The file runs only when nothing is recorded, hence nothing made.
LEMMA ApplyFileKeeps ==
  ASSUME Migrate!MigrationAssumption, MigrationInv, NEW d \in Deployer, Migrate!ApplyFile(d)
  PROVE  MigrationInv'
<1> USE DEF MigrationInv, Migrate!ApplyFile
<1>0. tables = {}
  BY DEF TransactionInv, RecordedIsMade
<1>1. Migrate!TypeOK'
  BY <1>0 DEF Migrate!TypeOK, Migrate!AtMostOne, Migrate!Open
<1>2. LockAlone' /\ RecordedIsMade'
  BY DEF Migrate!TypeOK, LockAlone, RecordedIsMade, Migrate!Open
<1>3. TransactionInv' /\ EndedInv'
  BY <1>0 DEF Migrate!TypeOK, TransactionInv, EndedInv, Migrate!Open
<1> QED BY <1>1, <1>2, <1>3

\* The insert finds no other record: the lock has been held since the look.
LEMMA RecordKeeps ==
  ASSUME Migrate!MigrationAssumption, MigrationInv, NEW d \in Deployer, Migrate!Record(d)
  PROVE  MigrationInv'
<1> USE DEF MigrationInv, Migrate!Record
<1>0. version = {}
  BY DEF TransactionInv
<1>1. Migrate!TypeOK'
  BY <1>0 DEF Migrate!TypeOK, Migrate!AtMostOne, Migrate!Open
<1>2. LockAlone' /\ RecordedIsMade'
  BY <1>0 DEF Migrate!TypeOK, LockAlone, RecordedIsMade, Migrate!Open
<1>3. TransactionInv' /\ EndedInv'
  BY <1>0 DEF Migrate!TypeOK, TransactionInv, EndedInv, Migrate!Open
<1> QED BY <1>1, <1>2, <1>3

\* What a commit does to the tables, whether its answer arrives or not: no
\* other transaction is open, and nothing recorded changes.
LEMMA CommittedKeeps ==
  ASSUME Migrate!MigrationAssumption, MigrationInv, NEW d \in Deployer, pc[d] = "committing",
         NEW how \in {"done", "faulted"}, Migrate!Ended(d, how),
         IF made[d] = {} THEN UNCHANGED <<tables, version>>
         ELSE tables' = made[d] /\ version' = {file[d]},
         file' = file, faults' \in 0..MigrationFaults
  PROVE  MigrationInv'
<1> USE DEF MigrationInv
<1>1. version' = {file[d]} /\ tables' = {file[d]} /\ file[d] \in File
  BY DEF TransactionInv, RecordedIsMade, Migrate!TypeOK
<1>2. /\ pc' = [pc EXCEPT ![d] = how]
      /\ made' = [made EXCEPT ![d] = {}]
      /\ lock' = {}
  BY DEF Migrate!Ended, LockAlone, Migrate!Open
<1>3. \A e \in Deployer \ {d} : pc[e] \notin Migrate!Open
  BY DEF LockAlone, Migrate!Open
<1>4. Migrate!TypeOK'
  BY <1>1, <1>2 DEF Migrate!TypeOK, Migrate!AtMostOne, Migrate!Open
<1>5. LockAlone' /\ RecordedIsMade'
  BY <1>1, <1>2, <1>3 DEF Migrate!TypeOK, LockAlone, RecordedIsMade, Migrate!Open
<1>6. version # {} => version' = version
  BY DEF TransactionInv
<1>7. TransactionInv'
  BY <1>1, <1>2, <1>3 DEF Migrate!TypeOK, TransactionInv, Migrate!Open
<1>8. ASSUME NEW e \in Deployer PROVE EndedInv!(e)'
  <2>1. CASE e = d
    BY <2>1, <1>1, <1>2 DEF Migrate!TypeOK, EndedInv
  <2>2. CASE e # d
    BY <2>2, <1>1, <1>2, <1>6 DEF Migrate!TypeOK, EndedInv
  <2> QED BY <2>1, <2>2
<1>9. EndedInv'
  BY <1>8 DEF EndedInv
<1> QED BY <1>4, <1>5, <1>7, <1>9

\* A fault undoes what was not committed.
LEMMA FaultKeeps ==
  ASSUME Migrate!MigrationAssumption, MigrationInv, NEW d \in Deployer, Migrate!Fault(d)
  PROVE  MigrationInv'
<1> USE DEF MigrationInv, Migrate!Fault, Migrate!Ended
<1>1. Migrate!TypeOK'
  BY DEF Migrate!MigrationAssumption, Migrate!TypeOK, Migrate!AtMostOne, Migrate!Open
<1>2. LockAlone' /\ RecordedIsMade'
  BY DEF Migrate!TypeOK, LockAlone, RecordedIsMade, Migrate!Open
<1>3. TransactionInv' /\ EndedInv'
  BY DEF Migrate!TypeOK, TransactionInv, EndedInv, Migrate!Open
<1> QED BY <1>1, <1>2, <1>3

\* A new run starts with nothing but its file.
LEMMA StartAgainKeeps ==
  ASSUME Migrate!MigrationAssumption, MigrationInv, NEW d \in Deployer, Migrate!StartAgain(d)
  PROVE  MigrationInv'
<1> USE DEF MigrationInv, Migrate!StartAgain
<1>1. Migrate!TypeOK'
  BY DEF Migrate!TypeOK, Migrate!AtMostOne, Migrate!Open
<1>2. LockAlone' /\ RecordedIsMade'
  BY DEF Migrate!TypeOK, LockAlone, RecordedIsMade, Migrate!Open
<1>3. TransactionInv' /\ EndedInv'
  BY DEF Migrate!TypeOK, TransactionInv, EndedInv, Migrate!Open
<1> QED BY <1>1, <1>2, <1>3

\* Every step keeps the invariant.
LEMMA NextMigrationInv ==
  ASSUME Migrate!MigrationAssumption
  PROVE  MigrationInv /\ [Migrate!Next]_(Migrate!vars) => MigrationInv'
<1> SUFFICES ASSUME MigrationInv, [Migrate!Next]_(Migrate!vars)
             PROVE  MigrationInv'
  OBVIOUS
<1>1. CASE UNCHANGED Migrate!vars
  BY <1>1 DEF Migrate!vars, MigrationInv, Migrate!TypeOK, Migrate!AtMostOne, LockAlone,
         RecordedIsMade, TransactionInv, EndedInv
<1>2. ASSUME NEW d \in Deployer, Migrate!Commit(d) PROVE MigrationInv'
  BY <1>2, CommittedKeeps DEF Migrate!Commit, MigrationInv, Migrate!TypeOK
<1>3. ASSUME NEW d \in Deployer, Migrate!CommitUnanswered(d) PROVE MigrationInv'
  <2>1. faults' \in 0..MigrationFaults
    BY <1>3 DEF Migrate!MigrationAssumption, Migrate!CommitUnanswered, MigrationInv, Migrate!TypeOK
  <2> QED BY <1>3, <2>1, CommittedKeeps DEF Migrate!CommitUnanswered
<1> QED BY <1>1, <1>2, <1>3, TakeLockKeeps, CompareKeeps, ApplyFileKeeps, RecordKeeps, FaultKeeps,
           StartAgainKeeps DEF Migrate!Next, Migrate!Step

\* The invariant, for every behaviour of the migration.
THEOREM MigrationInvariance ==
  ASSUME Migrate!MigrationAssumption
  PROVE  Migrate!Spec => []MigrationInv
<1>1. Migrate!Init => MigrationInv
  BY InitMigrationInv
<1>2. MigrationInv /\ [Migrate!Next]_(Migrate!vars) => MigrationInv'
  BY NextMigrationInv
<1> QED BY <1>1, <1>2, PTL DEF Migrate!Spec

\* The invariant holds what is promised of a deployment.
LEMMA MigratePromises ==
  ASSUME Migrate!MigrationAssumption, MigrationInv
  PROVE  /\ Migrate!TypeOK
         /\ Migrate!DoneIsDeployed
         /\ Migrate!OnlyAChangeFails
<1>1. MigrationInv => Migrate!TypeOK
  BY DEF MigrationInv
<1>2. MigrationInv => Migrate!DoneIsDeployed
  BY DEF MigrationInv, EndedInv, RecordedIsMade, Migrate!DoneIsDeployed
<1>3. MigrationInv => Migrate!OnlyAChangeFails
  BY DEF MigrationInv, EndedInv, Migrate!OnlyAChangeFails
<1> QED BY <1>1, <1>2, <1>3

\* The types of migrateInventory's transaction, at most one file recorded.
THEOREM MigrationTypeCorrect ==
  ASSUME Migrate!MigrationAssumption
  PROVE  Migrate!Spec => []Migrate!TypeOK
<1>1. MigrationInv => Migrate!TypeOK
  BY MigratePromises
<1> QED BY <1>1, MigrationInvariance, PTL

\* A deployment of migrateInventory that succeeded left its own file.
THEOREM MigrationsLeaveTheirFile ==
  ASSUME Migrate!MigrationAssumption
  PROVE  Migrate!Spec => []Migrate!DoneIsDeployed
<1>1. MigrationInv => Migrate!DoneIsDeployed
  BY MigratePromises
<1> QED BY <1>1, MigrationInvariance, PTL

\* Deployers of one build of migrateInventory never fail each other.
THEOREM BuildsDoNotFailEachOther ==
  ASSUME Migrate!MigrationAssumption
  PROVE  Migrate!Spec => []Migrate!OnlyAChangeFails
<1>1. MigrationInv => Migrate!OnlyAChangeFails
  BY MigratePromises
<1> QED BY <1>1, MigrationInvariance, PTL

-----------------------------------------------------------------------------
(* ServiceClient *)

Operations == {"catalog", "categories", "availability", "health", "products", "category",
               "orders", "checkout", "ops"}
Given(whom) == [for : whom, version : 0..MaxChanges]
CallRow ==
  [op : Operations, by : Accounts \union {Nobody}, policy : Client!Policies,
   at : {"unmade", "waiting", "told"}, since : 0..MaxChanges, atService : BOOLEAN,
   outcome : {"none", "ok", "refused", "failed", "raw"},
   answer : {NoAnswer} \union Given(Accounts \union {Nobody})]

\* What is in the cache was made for nobody in particular.
CacheIsAnonymous == cache \in [Operations -> {NoAnswer} \union Given({Nobody})]

\* A call is under the token its operation asks for, and ends with an answer
\* that is its own, and new if it has to be; only health calls end raw.
AskedInv(c) ==
  /\ Client!Op(c).token <=> call[c].by # Nobody
  /\ call[c].since <= version
  /\ call[c].outcome = "raw" => ~Client!Op(c).rpc
CallEndedInv(c) ==
  call[c].outcome = "ok" =>
    /\ call[c].answer \in Given({call[c].by})
    /\ (call[c].by # Nobody \/ call[c].op = "availability" \/ call[c].policy = "no-store")
         => call[c].answer.version >= call[c].since

\* What was done is no longer at the service, nor what was refused.
DoneInv(c) ==
  /\ c \in landed => call[c].at # "unmade" /\ ~call[c].atService
  /\ call[c].outcome = "refused" => call[c].at = "told" /\ ~call[c].atService /\ c \notin landed
  /\ call[c].at = "unmade" => ~call[c].atService

ClientInv ==
  /\ call \in [Calls -> CallRow] /\ landed \subseteq Calls /\ version \in 0..MaxChanges
  /\ CacheIsAnonymous
  /\ \A c \in Calls : AskedInv(c) /\ CallEndedInv(c) /\ DoneInv(c)

\* What the table of operations says.
LEMMA Operated ==
  /\ DOMAIN Client!Operation = Operations
  /\ \A o \in Operations :
       /\ Client!Operation[o].token \in BOOLEAN /\ Client!Operation[o].rpc \in BOOLEAN
       /\ Client!Operation[o].write \in BOOLEAN
       /\ Client!Operation[o].policy \in {"caller", "default", "no-store"}
  /\ ~Client!Operation["health"].token /\ Client!Operation["availability"].policy = "no-store"
<1> DEFINE Op == [token : BOOLEAN, rpc : BOOLEAN, write : BOOLEAN,
                  policy : {"caller", "default", "no-store"}]
<1>1. /\ Client!CatalogRead \in Op /\ Client!CategoryRead \in Op /\ Client!Availability \in Op
      /\ Client!Health \in Op /\ Client!ProductWrite \in Op /\ Client!CategoryWrite \in Op
      /\ Client!OrderRead \in Op /\ Client!CheckoutCall \in Op /\ Client!OpsRead \in Op
      /\ ~Client!Health.token /\ Client!Availability.policy = "no-store"
  BY DEF Client!CatalogRead, Client!CategoryRead, Client!Availability, Client!Health,
         Client!ProductWrite, Client!CategoryWrite, Client!OrderRead, Client!CheckoutCall,
         Client!OpsRead
<1>2. Client!Operation \in [Operations -> Op]
  BY <1>1 DEF Operations, Client!Operation
<1>3. /\ Client!Operation["health"] = Client!Health
      /\ Client!Operation["availability"] = Client!Availability
  BY DEF Client!Operation
<1> QED BY <1>1, <1>2, <1>3

\* The fetch cache takes part only in calls without a token whose caller says so.
LEMMA CachedCalls ==
  ASSUME NEW o \in Operations, NEW p \in Client!Policies,
         Client!fetchCache(Client!Operation[o], p) = "force-cache"
  PROVE  /\ ~Client!Operation[o].token /\ o # "availability" /\ p = "force-cache"
BY Operated DEF Client!fetchCache

LEMMA InitClientInv ==
  ASSUME Client!ClientAssumption, Client!Init
  PROVE  ClientInv
<1>1. Client!Unmade \in CallRow
  BY DEF Client!Unmade, CallRow, Operations, Client!Policies, Client!ClientAssumption
<1>2. call \in [Calls -> CallRow] /\ landed = {} /\ version = 0 /\ MaxChanges \in Nat
  BY <1>1 DEF Client!Init, Client!ClientAssumption
<1>3. CacheIsAnonymous
  BY Operated DEF Client!Init, CacheIsAnonymous
<1>4. ASSUME NEW c \in Calls
      PROVE  AskedInv(c) /\ CallEndedInv(c) /\ DoneInv(c)
  BY Operated, <1>2 DEF Client!Init, AskedInv, CallEndedInv, DoneInv, Client!Op, Client!Unmade
<1> QED BY <1>2, <1>3, <1>4 DEF ClientInv

\* A step of one call leaves the others as they are.
LEMMA OtherCallsStay ==
  ASSUME ClientInv, NEW c \in Calls, NEW entry \in CallRow, call' = [call EXCEPT ![c] = entry],
         version' \in 0..MaxChanges, version <= version',
         landed' \in {landed, landed \union {c}}, CacheIsAnonymous',
         AskedInv(c)', CallEndedInv(c)', DoneInv(c)'
  PROVE  ClientInv'
<1>1. call' \in [Calls -> CallRow] /\ landed' \subseteq Calls
  BY DEF ClientInv
<1>2. ASSUME NEW d \in Calls, d # c
      PROVE  AskedInv(d)' /\ CallEndedInv(d)' /\ DoneInv(d)'
  <2>1. call'[d] = call[d] /\ (d \in landed' <=> d \in landed) /\ call[d] \in CallRow
    BY <1>2 DEF ClientInv
  <2>2. call[d].since \in Nat /\ version \in Nat /\ version' \in Nat
    BY <2>1 DEF CallRow, ClientInv
  <2>3. AskedInv(d)'
    BY <1>2, <2>1, <2>2 DEF ClientInv, AskedInv, Client!Op
  <2>4. CallEndedInv(d)' /\ DoneInv(d)'
    BY <1>2, <2>1 DEF ClientInv, CallEndedInv, DoneInv
  <2> QED BY <2>3, <2>4
<1> QED BY <1>1, <1>2 DEF ClientInv

\* What comes back, or does not, is told to a call that waits.
LEMMA HearsKeeps ==
  ASSUME ClientInv, NEW c \in Calls, NEW reply,
         NEW what \in {"answer", "refusal", "failure", "nonsense", "lost", "cancelled"},
         reply = NoAnswer \/ reply \in Given({call[c].by}),
         what = "answer" => reply \in Given({call[c].by}) /\ reply.version >= call[c].since,
         NEW out \in BOOLEAN,
         call' = [call EXCEPT ![c] =
                    [IF call[c].at = "waiting" THEN Client!Told(c, what, reply) ELSE call[c]
                       EXCEPT !.atService = out]],
         out => call[c].atService,
         call[c].at = "waiting" \/ call[c].atService,
         version' \in 0..MaxChanges, version <= version',
         landed' = landed \/ ( /\ ~out /\ what # "refusal" /\ call[c].atService
                              /\ landed' = landed \union {c}),
         what = "refusal" => ~out /\ c \notin landed,
         CacheIsAnonymous'
  PROVE  ClientInv'
<1>1. PICK entry : entry = [IF call[c].at = "waiting" THEN Client!Told(c, what, reply) ELSE call[c]
                          EXCEPT !.atService = out]
  OBVIOUS
<1>2. call[c] \in CallRow /\ call \in [Calls -> CallRow] /\ version \in Nat /\ version' \in Nat
      /\ AskedInv(c) /\ CallEndedInv(c) /\ DoneInv(c)
  BY DEF ClientInv
<1>3. Client!toApiClientError(Client!Op(c), what) \in {"ok", "refused", "failed", "raw"}
      /\ (Client!toApiClientError(Client!Op(c), what) = "ok" <=> what = "answer")
      /\ (Client!toApiClientError(Client!Op(c), what) = "refused" <=> what = "refusal")
      /\ (Client!toApiClientError(Client!Op(c), what) = "raw" => ~Client!Op(c).rpc)
  BY DEF Client!toApiClientError
<1>4. /\ entry.op = call[c].op /\ entry.by = call[c].by /\ entry.policy = call[c].policy
      /\ entry.since = call[c].since /\ entry.atService = out
      /\ call[c].at = "waiting" =>
           /\ entry.at = "told" /\ entry.answer = reply
           /\ entry.outcome = Client!toApiClientError(Client!Op(c), what)
      /\ call[c].at # "waiting" =>
           entry.at = call[c].at /\ entry.answer = call[c].answer /\ entry.outcome = call[c].outcome
  BY <1>1, <1>2 DEF CallRow, Client!Told
<1>5. Given({call[c].by}) \subseteq Given(Accounts \union {Nobody})
  BY <1>2 DEF Given, CallRow
<1>6. entry \in CallRow
  BY <1>1, <1>2, <1>3, <1>5 DEF CallRow, Client!Told
<1>7. call'[c] = entry /\ call' = [call EXCEPT ![c] = entry]
  BY <1>1, <1>2
<1>8. AskedInv(c)'
  <2>1. Client!Op(c)' = Client!Op(c)
    BY <1>4, <1>7 DEF Client!Op
  <2>2. call'[c].since = call[c].since /\ call'[c].by = call[c].by /\ call[c].since \in Nat
    <3>1. call[c].since \in Nat
      BY <1>2 DEF CallRow
    <3> QED BY <1>4, <1>7, <3>1
  <2>3. call'[c].outcome = "raw" => ~Client!Op(c).rpc
    BY <1>2, <1>3, <1>4, <1>7 DEF AskedInv
  <2> QED BY <1>2, <2>1, <2>2, <2>3 DEF AskedInv
<1>9. CallEndedInv(c)'
  BY <1>2, <1>3, <1>4, <1>7 DEF CallEndedInv
<1>10. DoneInv(c)'
  BY <1>2, <1>3, <1>4, <1>7 DEF DoneInv
<1> QED BY <1>6, <1>7, <1>8, <1>9, <1>10, OtherCallsStay

LEMMA AskKeeps ==
  ASSUME Client!ClientAssumption, ClientInv, NEW c \in Calls, Client!Ask(c)
  PROVE  ClientInv'
<1>1. PICK o \in DOMAIN Client!Operation, p \in Client!Policies, a \in Accounts \union {Nobody} :
        LET op == Client!Operation[o]
            cached == Client!fetchCache(op, p) = "force-cache" /\ cache[o] # NoAnswer IN
        /\ op.token <=> a # Nobody
        /\ op.policy # "caller" => p = "default"
        /\ call' = [call EXCEPT ![c] =
             [Client!Unmade EXCEPT !.op = o, !.by = a, !.policy = p, !.since = version,
                            !.at = IF cached THEN "told" ELSE "waiting",
                            !.atService = ~cached,
                            !.outcome = IF cached THEN "ok" ELSE "none",
                            !.answer = IF cached THEN cache[o] ELSE NoAnswer]]
  BY DEF Client!Ask
<1> DEFINE cached == Client!fetchCache(Client!Operation[o], p) = "force-cache" /\ cache[o] # NoAnswer
           asked == [Client!Unmade EXCEPT !.op = o, !.by = a, !.policy = p, !.since = version,
                            !.at = IF cached THEN "told" ELSE "waiting",
                            !.atService = ~cached,
                            !.outcome = IF cached THEN "ok" ELSE "none",
                            !.answer = IF cached THEN cache[o] ELSE NoAnswer]
<1>2. o \in Operations
  BY Operated
<1>3. PICK entry : entry = asked
  OBVIOUS
<1>4. /\ call' = [call EXCEPT ![c] = entry] /\ (Client!Operation[o].token <=> a # Nobody)
      /\ entry.op = o /\ entry.by = a /\ entry.policy = p /\ entry.since = version
      /\ entry.at = (IF cached THEN "told" ELSE "waiting") /\ (entry.atService <=> ~cached)
      /\ entry.outcome = (IF cached THEN "ok" ELSE "none")
      /\ entry.answer = (IF cached THEN cache[o] ELSE NoAnswer)
      /\ entry = [op |-> entry.op, by |-> entry.by, policy |-> entry.policy, at |-> entry.at,
                since |-> entry.since, atService |-> entry.atService, outcome |-> entry.outcome,
                answer |-> entry.answer]
  <2>1. call' = [call EXCEPT ![c] = entry] /\ (Client!Operation[o].token <=> a # Nobody)
    BY <1>1, <1>3
  <2> HIDE DEF cached
  <2>2. /\ entry.op = o /\ entry.by = a /\ entry.policy = p /\ entry.since = version
        /\ entry.at = (IF cached THEN "told" ELSE "waiting")
        /\ entry.outcome = (IF cached THEN "ok" ELSE "none")
        /\ entry.answer = (IF cached THEN cache[o] ELSE NoAnswer)
        /\ entry = [op |-> entry.op, by |-> entry.by, policy |-> entry.policy, at |-> entry.at,
                since |-> entry.since, atService |-> entry.atService, outcome |-> entry.outcome,
                answer |-> entry.answer]
    BY <1>3 DEF Client!Unmade
  <2>3. entry.atService = ~cached
    BY <1>3 DEF Client!Unmade
  <2> QED BY <2>1, <2>2, <2>3
<1> HIDE DEF asked
<1>5. /\ version \in 0..MaxChanges /\ version' = version /\ landed' = landed
      /\ cache[o] = NoAnswer \/ cache[o] \in Given({Nobody})
      /\ call[c].at = "unmade" /\ DoneInv(c) /\ CacheIsAnonymous'
      /\ call'[c] = entry
  <2>1. /\ version \in 0..MaxChanges /\ UNCHANGED <<landed, version, cache>>
        /\ call[c].at = "unmade" /\ DoneInv(c) /\ call \in [Calls -> CallRow]
        /\ cache \in [Operations -> {NoAnswer} \union Given({Nobody})]
    BY DEF ClientInv, CacheIsAnonymous, Client!Ask
  <2> QED BY <1>2, <1>4, <2>1 DEF CacheIsAnonymous
<1>6. cached => /\ a = Nobody /\ o # "availability" /\ p # "no-store"
                /\ cache[o] \in Given({Nobody})
  BY <1>2, <1>4, <1>5, CachedCalls DEF cached
<1> HIDE DEF cached
<1>7. Given({Nobody}) \subseteq Given(Accounts \union {Nobody})
  BY DEF Given
<1>8. entry \in CallRow
  <2>1. entry.atService \in BOOLEAN
    BY <1>3 DEF asked, Client!Unmade
  <2> QED BY <1>2, <1>4, <1>5, <1>6, <1>7, <2>1 DEF CallRow
<1>9. AskedInv(c)'
  BY <1>4, <1>5 DEF AskedInv, Client!Op
<1>10. CallEndedInv(c)' /\ DoneInv(c)'
  BY <1>4, <1>5, <1>6 DEF CallEndedInv, DoneInv
<1>11. version <= version' /\ version' \in 0..MaxChanges
  BY <1>5
<1> QED BY <1>11, <1>4, <1>5, <1>8, <1>9, <1>10, OtherCallsStay

LEMMA AnswerKeeps ==
  ASSUME Client!ClientAssumption, ClientInv, NEW c \in Calls, Client!Answer(c)
  PROVE  ClientInv'
<1>1. PICK o, by, stored : /\ o = call[c].op /\ by = call[c].by
                           /\ stored = IF Client!Op(c).write /\ version < MaxChanges
                                       THEN version + 1 ELSE version
  OBVIOUS
<1>2. PICK reply : reply = [for |-> by, version |-> stored]
  OBVIOUS
<1>3. /\ MaxChanges \in Nat /\ version \in 0..MaxChanges /\ call[c] \in CallRow
      /\ AskedInv(c) /\ DoneInv(c) /\ CacheIsAnonymous
      /\ o \in Operations /\ by \in Accounts \union {Nobody}
  BY <1>1 DEF ClientInv, Client!ClientAssumption, CallRow
<1>4. /\ call[c].atService /\ version' = stored /\ stored \in 0..MaxChanges /\ version <= stored
      /\ landed' \in {landed, landed \union {c}}
  BY <1>1, <1>3 DEF Client!Answer
<1>5. reply \in Given({by}) /\ reply.version >= call[c].since /\ reply.version = stored
  BY <1>1, <1>2, <1>3, <1>4 DEF Given, AskedInv, CallRow
<1>6. \/ Client!Hears(c, "answer", reply)
      \/ (\E what \in {"nonsense", "failure", "lost"} : Client!Hears(c, what, NoAnswer))
         /\ cache' = cache
  BY <1>1, <1>2 DEF Client!Answer
<1>7. CacheIsAnonymous'
  <2>1. cache' = cache \/ ( /\ cache' = [cache EXCEPT ![o] = reply]
                          /\ Client!fetchCache(Client!Op(c), call[c].policy) = "force-cache")
    BY <1>1, <1>2 DEF Client!Answer
  <2>2. ASSUME Client!fetchCache(Client!Op(c), call[c].policy) = "force-cache"
        PROVE  by = Nobody
    <3>1. ~Client!Operation[o].token
      BY <1>1, <1>3, <2>2, CachedCalls DEF Client!Op, CallRow
    <3> QED BY <1>1, <1>3, <3>1 DEF AskedInv, Client!Op
  <2> QED BY <1>3, <1>5, <2>1, <2>2 DEF CacheIsAnonymous
<1>8. ASSUME NEW what \in {"answer", "nonsense", "failure", "lost"}, NEW told,
             told = NoAnswer \/ told = reply, what = "answer" => told = reply,
             Client!Hears(c, what, told)
      PROVE  ClientInv'
  <2>1. call' = [call EXCEPT ![c] =
                   [IF call[c].at = "waiting" THEN Client!Told(c, what, told) ELSE call[c]
                      EXCEPT !.atService = FALSE]]
    <3>1. c \in DOMAIN call
      BY DEF ClientInv
    <3> QED BY <1>8, <3>1 DEF Client!Hears
  <2>2. /\ told = NoAnswer \/ told \in Given({call[c].by})
        /\ what = "answer" => told \in Given({call[c].by}) /\ told.version >= call[c].since
    BY <1>1, <1>5, <1>8
  <2> QED BY <1>3, <1>4, <1>7, <2>1, <2>2, HearsKeeps
<1> QED BY <1>6, <1>8

LEMMA RefuseOrFailKeeps ==
  ASSUME Client!ClientAssumption, ClientInv, NEW c \in Calls, Client!RefuseOrFail(c)
  PROVE  ClientInv'
<1>1. PICK what \in {"refusal", "failure", "lost"} : Client!Hears(c, what, NoAnswer)
  BY DEF Client!RefuseOrFail
<1>2. /\ call[c].atService /\ UNCHANGED <<landed, version, cache>>
      /\ version \in 0..MaxChanges /\ MaxChanges \in Nat /\ c \in DOMAIN call
      /\ DoneInv(c) /\ CacheIsAnonymous
  BY DEF ClientInv, Client!ClientAssumption, Client!RefuseOrFail
<1>3. CacheIsAnonymous' /\ c \notin landed
  BY <1>2 DEF CacheIsAnonymous, DoneInv
<1>4. call' = [call EXCEPT ![c] =
                 [IF call[c].at = "waiting" THEN Client!Told(c, what, NoAnswer) ELSE call[c]
                    EXCEPT !.atService = FALSE]]
  BY <1>1, <1>2 DEF Client!Hears
<1>5. version <= version' /\ version' \in 0..MaxChanges /\ landed' = landed
  BY <1>2
<1> QED BY <1>2, <1>3, <1>4, <1>5, HearsKeeps

\* Who gives up waiting is told so; the service goes on.
LEMMA GiveUpKeeps ==
  ASSUME Client!ClientAssumption, ClientInv, NEW c \in Calls,
         Client!TimeOut(c) \/ Client!Cancel(c)
  PROVE  ClientInv'
<1>1. PICK what \in {"lost", "cancelled"} :
        call' = [call EXCEPT ![c] = Client!Told(c, what, NoAnswer)]
  BY DEF Client!TimeOut, Client!Cancel
<1>2. /\ call[c].at = "waiting" /\ UNCHANGED <<landed, version, cache>>
      /\ version \in 0..MaxChanges /\ MaxChanges \in Nat /\ call[c] \in CallRow
      /\ CacheIsAnonymous
  BY DEF ClientInv, Client!ClientAssumption, Client!TimeOut, Client!Cancel, Client!Bounded
<1>3. CacheIsAnonymous'
  BY <1>2 DEF CacheIsAnonymous
<1>4. PICK out \in BOOLEAN : out = call[c].atService
  BY <1>2 DEF CallRow
<1>5. [Client!Told(c, what, NoAnswer) EXCEPT !.atService = out] = Client!Told(c, what, NoAnswer)
  BY <1>2, <1>4 DEF Client!Told, CallRow
<1>6. call' = [call EXCEPT ![c] =
                 [IF call[c].at = "waiting" THEN Client!Told(c, what, NoAnswer) ELSE call[c]
                    EXCEPT !.atService = out]]
  BY <1>1, <1>2, <1>5
<1>7. version <= version' /\ version' \in 0..MaxChanges /\ landed' = landed
  BY <1>2
<1> QED BY <1>2, <1>3, <1>4, <1>6, <1>7, HearsKeeps

LEMMA ClientInvKept ==
  ASSUME Client!ClientAssumption, ClientInv, [Client!Next]_(Client!vars)
  PROVE  ClientInv'
<1>1. ASSUME NEW c \in Calls,
             \/ Client!Ask(c) \/ Client!Answer(c) \/ Client!RefuseOrFail(c)
             \/ Client!TimeOut(c) \/ Client!Cancel(c)
      PROVE  ClientInv'
  BY <1>1, AskKeeps, AnswerKeeps, RefuseOrFailKeeps, GiveUpKeeps
<1>2. CASE version' \in 0..MaxChanges /\ version <= version' /\ UNCHANGED <<call, landed, cache>>
  <2>1. ASSUME NEW c \in Calls
        PROVE  AskedInv(c)' /\ CallEndedInv(c)' /\ DoneInv(c)'
    <3>1. call[c].since \in Nat /\ version \in Nat
      BY DEF ClientInv, CallRow
    <3>2. AskedInv(c)'
      BY <1>2, <3>1 DEF ClientInv, AskedInv, Client!Op
    <3> QED BY <1>2, <3>2 DEF ClientInv, CallEndedInv, DoneInv
  <2> QED BY <1>2, <2>1 DEF ClientInv, CacheIsAnonymous
<1>3. CASE Client!Change \/ UNCHANGED Client!vars
  BY <1>2, <1>3 DEF ClientInv, Client!Change, Client!vars, Client!ClientAssumption
<1> QED BY <1>1, <1>3 DEF Client!Next

LEMMA ClientInvariance ==
  ASSUME Client!ClientAssumption
  PROVE  Client!Spec => []ClientInv
<1>1. Client!Init => ClientInv
  BY InitClientInv
<1>2. ClientInv /\ [Client!Next]_(Client!vars) => ClientInv'
  BY ClientInvKept
<1> QED BY <1>1, <1>2, PTL DEF Client!Spec

\* The invariant holds what is promised to the callers.
LEMMA ClientPromises ==
  ASSUME Client!ClientAssumption, ClientInv
  PROVE  /\ Client!TypeOK
         /\ Client!OwnDataOnly
         /\ Client!FreshWhereItMatters
         /\ Client!RefusedIsNotDone
<1>1. ClientInv => Client!TypeOK
  <2> SUFFICES ASSUME ClientInv
               PROVE  Client!TypeOK
    OBVIOUS
  <2>1. ASSUME NEW c \in Calls
        PROVE  /\ call[c].op \in DOMAIN Client!Operation /\ call[c].by \in Accounts \cup {Nobody}
               /\ call[c].policy \in Client!Policies /\ call[c].at \in {"unmade", "waiting", "told"}
               /\ call[c].since \in 0 .. MaxChanges /\ call[c].atService \in BOOLEAN
               /\ call[c].outcome \in {"none", "ok", "refused", "failed"} \cup
                    IF Client!Op(c).rpc THEN {} ELSE {"raw"}
    <3>1. call[c] \in CallRow /\ AskedInv(c)
      BY DEF ClientInv
    <3> QED BY <3>1, Operated DEF CallRow, AskedInv
  <2>2. ASSUME NEW o \in DOMAIN cache, cache[o] # NoAnswer
        PROVE  cache[o].for \in Accounts \cup {Nobody}
    BY <2>2 DEF ClientInv, CacheIsAnonymous, Given
  <2> QED BY <2>1, <2>2 DEF ClientInv, Client!TypeOK
<1>2. ClientInv => Client!OwnDataOnly
  BY DEF ClientInv, CallEndedInv, Given, Client!OwnDataOnly
<1>3. ClientInv => Client!FreshWhereItMatters
  BY DEF ClientInv, CallEndedInv, Client!FreshWhereItMatters
<1>4. ClientInv => Client!RefusedIsNotDone
  BY DEF ClientInv, DoneInv, Client!RefusedIsNotDone
<1> QED BY <1>1, <1>2, <1>3, <1>4

\* The calls, what was done and what is cached have their types; only a health
\* call ends with an error of fetch.
THEOREM ClientTypeCorrect ==
  ASSUME Client!ClientAssumption
  PROVE  Client!Spec => []Client!TypeOK
<1>1. ClientInv => Client!TypeOK
  BY ClientPromises
<1> QED BY <1>1, ClientInvariance, PTL

\* What is given under an account's token was made for that account, whatever
\* policies the pages ask for.
THEOREM AnswersAreOnesOwn ==
  ASSUME Client!ClientAssumption
  PROVE  Client!Spec => []Client!OwnDataOnly
<1>1. ClientInv => Client!OwnDataOnly
  BY ClientPromises
<1> QED BY <1>1, ClientInvariance, PTL

\* Stock, what is asked with a token and what a page wants fresh are no older
\* than the call.
THEOREM AnswersAreFresh ==
  ASSUME Client!ClientAssumption
  PROVE  Client!Spec => []Client!FreshWhereItMatters
<1>1. ClientInv => Client!FreshWhereItMatters
  BY ClientPromises
<1> QED BY <1>1, ClientInvariance, PTL

\* A write that is said to have been refused was not done.
THEOREM RefusalsAreTrue ==
  ASSUME Client!ClientAssumption
  PROVE  Client!Spec => []Client!RefusedIsNotDone
<1>1. ClientInv => Client!RefusedIsNotDone
  BY ClientPromises
<1> QED BY <1>1, ClientInvariance, PTL

-----------------------------------------------------------------------------
(* RequestPipeline *)

\* The counters are counts, of finitely many label sets.
CountersInv ==
  /\ IsFiniteSet(DOMAIN series) /\ series \in [DOMAIN series -> Nat]
  /\ overflow \in [DOMAIN overflow -> Nat]

\* A request that is new or runs has no answer yet.
AnsweredInv == \A q \in HttpRequest : phase[q] \in {"new", "running"} => answer[q] = 0

PipelineInv ==
  Pipeline!TypeOK /\ CountersInv /\ AnsweredInv /\ Pipeline!AnswersAreCounted

\* What of a class the table and the overflow counters have counted.
TableOf(s, c) == UnitsOf(s, {x \in DOMAIN s : Pipeline!Class(x.status) = c})
OverflowOf(o, c) == IF c \in DOMAIN o THEN o[c] ELSE 0

\* The requests that were answered with a status of the class, scrapes apart.
AnsweredIn(p, a, c) == {q \in HttpRequest : p[q] # "metrics" /\ Pipeline!Class(a[q]) = c}

\* AnswersAreCounted in these words.
LEMMA CountedIs ==
  /\ Pipeline!AnswersAreCounted <=>
       \A c \in 2..5 : Cardinality(TableOf(series, c)) + OverflowOf(overflow, c)
                         = Cardinality(AnsweredIn(path, answer, c))
  /\ Pipeline!AnswersAreCounted' <=>
       \A c \in 2..5 : Cardinality(TableOf(series', c)) + OverflowOf(overflow', c)
                         = Cardinality(AnsweredIn(path', answer', c))
  /\ \A S : Pipeline!Cardinality(S) = Cardinality(S)
<1>1. \A S : Pipeline!Cardinality(S) = Cardinality(S)
  BY DEF Pipeline!Cardinality, Cardinality
<1>2. \A c : Pipeline!SeriesUnits(c) = TableOf(series, c)
  BY DEF Pipeline!SeriesUnits, TableOf, UnitsOf
<1>3. \A c : Pipeline!SeriesUnits(c)' = TableOf(series', c)
  BY DEF Pipeline!SeriesUnits, TableOf, UnitsOf
<1> QED BY <1>1, <1>2, <1>3 DEF Pipeline!AnswersAreCounted, OverflowOf, AnsweredIn

\* Only an answer has a class that counts.
LEMMA ClassOfStatus ==
  /\ Pipeline!Class(0) \notin 2..5
  /\ \A status \in 200..599 : Pipeline!Class(status) \in 2..5
BY DEF Pipeline!Class

\* Nothing is counted at first.
LEMMA InitPipelineInv ==
  ASSUME Pipeline!PipelineAssumption, Pipeline!Init
  PROVE  PipelineInv
<1>1. DOMAIN series = {} /\ DOMAIN overflow = {}
  BY DEF Pipeline!Init, Pipeline!NoSeries
<1>2. Cardinality(DOMAIN series) = 0
  BY <1>1, FS_EmptySet
<1>3. Pipeline!TypeOK
  BY <1>1, <1>2, CountedIs DEF Pipeline!Init, Pipeline!TypeOK, Pipeline!Path, Pipeline!PipelineAssumption
<1>4. CountersInv
  BY <1>1, FS_EmptySet DEF CountersInv, Pipeline!Init, Pipeline!NoSeries
<1>5. AnsweredInv
  BY DEF AnsweredInv, Pipeline!Init
<1>6. ASSUME NEW c \in 2..5
      PROVE  Cardinality(TableOf(series, c)) + OverflowOf(overflow, c)
               = Cardinality(AnsweredIn(path, answer, c))
  <2>1. TableOf(series, c) = {} /\ OverflowOf(overflow, c) = 0
    BY <1>1 DEF TableOf, UnitsOf, OverflowOf
  <2>2. AnsweredIn(path, answer, c) = {}
    BY ClassOfStatus DEF AnsweredIn, Pipeline!Init
  <2> QED BY <2>1, <2>2, FS_EmptySet
<1> QED BY <1>3, <1>4, <1>5, <1>6, CountedIs DEF PipelineInv

\* recordHttp counts one more of the status's class, none of another, and takes
\* nothing away.
LEMMA RecordCounts ==
  ASSUME Pipeline!PipelineAssumption, PipelineInv, NEW p \in Pipeline!Path, NEW status \in 200..599,
         Pipeline!RecordHttp([path |-> p, status |-> status])
  PROVE  /\ CountersInv' /\ Pipeline!CountersOnlyGrow
         /\ DOMAIN series' \subseteq Pipeline!Counter /\ Pipeline!Cardinality(DOMAIN series') <= MaxSeries
         /\ DOMAIN overflow' \subseteq 2..5
         /\ \A c \in 2..5 :
              Cardinality(TableOf(series', c)) + OverflowOf(overflow', c)
                = Cardinality(TableOf(series, c)) + OverflowOf(overflow, c)
                    + (IF c = Pipeline!Class(status) THEN 1 ELSE 0)
<1>1. PICK label : label = [path |-> p, status |-> status]
  OBVIOUS
<1>2. label \in Pipeline!Counter /\ label.status = status
  BY <1>1 DEF Pipeline!Counter
<1>3. PICK old : old = series
  OBVIOUS
<1>4. PICK new : new = series'
  OBVIOUS
<1>5. PICK over : over = overflow
  OBVIOUS
<1>6. PICK more : more = overflow'
  OBVIOUS
<1>7. /\ IsFiniteSet(DOMAIN old) /\ old \in [DOMAIN old -> Nat] /\ over \in [DOMAIN over -> Nat]
      /\ DOMAIN old \subseteq Pipeline!Counter /\ Cardinality(DOMAIN old) <= MaxSeries
      /\ DOMAIN over \subseteq 2..5
  BY <1>3, <1>5, CountedIs DEF PipelineInv, CountersInv, Pipeline!TypeOK
<1>8. ASSUME NEW c PROVE
        /\ IsFiniteSet({x \in DOMAIN old : Pipeline!Class(x.status) = c})
        /\ Cardinality(TableOf(old, c)) \in Nat /\ OverflowOf(over, c) \in Nat
  <2>1. IsFiniteSet({x \in DOMAIN old : Pipeline!Class(x.status) = c})
    BY <1>7, FS_Subset
  <2>2. Cardinality(TableOf(old, c)) \in Nat
    BY <1>7, <2>1, UnitsFinite DEF TableOf
  <2>3. OverflowOf(over, c) \in Nat
    BY <1>7 DEF OverflowOf
  <2> QED BY <2>1, <2>2, <2>3
<1>9. CASE /\ label \in DOMAIN old \/ Cardinality(DOMAIN old) < MaxSeries
           /\ new = Pipeline!CountedIn(old, label) /\ more = over
  <2>1. /\ DOMAIN new = DOMAIN old \union {label} /\ new \in [DOMAIN new -> Nat]
        /\ new[label] = IF label \in DOMAIN old THEN old[label] + 1 ELSE 1
        /\ \A k \in DOMAIN old : k # label => new[k] = old[k]
    BY <1>7, <1>9 DEF Pipeline!CountedIn
  <2>2. IsFiniteSet(DOMAIN new) /\ Cardinality(DOMAIN new) <= MaxSeries
    <3>1. Cardinality(DOMAIN old) \in Nat
      BY <1>7, FS_CardinalityType
    <3>2. /\ IsFiniteSet(DOMAIN new)
          /\ Cardinality(DOMAIN new) = IF label \in DOMAIN old THEN Cardinality(DOMAIN old)
                                       ELSE Cardinality(DOMAIN old) + 1
      BY <1>7, <2>1, FS_AddElement
    <3>3. MaxSeries \in Nat
      BY DEF Pipeline!PipelineAssumption
    <3> QED BY <1>7, <1>9, <3>1, <3>2, <3>3
  <2>3. DOMAIN new \subseteq Pipeline!Counter
    BY <1>2, <1>7, <2>1
  <2>4. CountersInv' /\ Pipeline!CountersOnlyGrow
    <3>1. \A l \in DOMAIN old : l \in DOMAIN new /\ new[l] >= old[l]
      BY <1>7, <2>1
    <3>2. \A c \in DOMAIN over : c \in DOMAIN more /\ more[c] >= over[c]
      BY <1>7, <1>9
    <3>3. Pipeline!CountersOnlyGrow
      BY <1>3, <1>4, <1>5, <1>6, <3>1, <3>2 DEF Pipeline!CountersOnlyGrow
    <3>4. CountersInv'
      BY <1>4, <1>6, <1>7, <1>9, <2>1, <2>2 DEF CountersInv
    <3> QED BY <3>3, <3>4
  <2>5. ASSUME NEW c \in 2..5
        PROVE  Cardinality(TableOf(new, c)) + OverflowOf(more, c)
                 = Cardinality(TableOf(old, c)) + OverflowOf(over, c)
                     + (IF c = Pipeline!Class(status) THEN 1 ELSE 0)
    <3> DEFINE S == {x \in DOMAIN old : Pipeline!Class(x.status) = c}
    <3>0. /\ Cardinality(TableOf(old, c)) \in Nat /\ OverflowOf(over, c) \in Nat
          /\ OverflowOf(more, c) = OverflowOf(over, c)
      BY <1>8, <1>9
    <3>1. CASE c = Pipeline!Class(status)
      <4>1. {x \in DOMAIN new : Pipeline!Class(x.status) = c} = S \union {label}
        BY <1>2, <2>1, <3>1
      <4>2. label \in S <=> label \in DOMAIN old
        BY <1>2, <3>1
      <4>3. /\ \A l \in S : old[l] \in Nat /\ (l # label => new[l] = old[l])
            /\ IsFiniteSet(S)
        BY <1>7, <1>8, <2>1
      <4> HIDE DEF S
      <4>4. Cardinality(UnitsOf(new, S \union {label})) = Cardinality(UnitsOf(old, S)) + 1
        BY <2>1, <4>2, <4>3, UnitAdds
      <4>5. Cardinality(TableOf(new, c)) = Cardinality(TableOf(old, c)) + 1
        BY <4>1, <4>4 DEF TableOf, S
      <4> QED BY <3>0, <3>1, <4>5
    <3>2. CASE c # Pipeline!Class(status)
      <4>1. {x \in DOMAIN new : Pipeline!Class(x.status) = c} = S
        BY <1>2, <2>1, <3>2
      <4>2. \A l \in S : new[l] = old[l]
        BY <1>2, <2>1, <3>2
      <4>3. TableOf(new, c) = TableOf(old, c)
        BY <4>1, <4>2 DEF TableOf, UnitsOf
      <4> QED BY <3>0, <3>2, <4>3
    <3> QED BY <3>1, <3>2
  <2> QED BY <1>3, <1>4, <1>5, <1>6, <1>7, <1>9, <2>2, <2>3, <2>4, <2>5, CountedIs
<1>10. CASE more = Pipeline!CountedIn(over, Pipeline!Class(status)) /\ new = old
  <2>1. PICK k : k = Pipeline!Class(status)
    OBVIOUS
  <2>2. k \in 2..5
    BY <2>1, ClassOfStatus
  <2>3. /\ DOMAIN more = DOMAIN over \union {k} /\ more \in [DOMAIN more -> Nat]
        /\ more[k] = IF k \in DOMAIN over THEN over[k] + 1 ELSE 1
        /\ \A l \in DOMAIN over : l # k => more[l] = over[l]
    BY <1>7, <1>10, <2>1 DEF Pipeline!CountedIn
  <2>4. CountersInv' /\ Pipeline!CountersOnlyGrow
    <3>1. \A l \in DOMAIN old : l \in DOMAIN new /\ new[l] >= old[l]
      BY <1>7, <1>10
    <3>2. \A c \in DOMAIN over : c \in DOMAIN more /\ more[c] >= over[c]
      BY <1>7, <2>3
    <3>3. Pipeline!CountersOnlyGrow
      BY <1>3, <1>4, <1>5, <1>6, <3>1, <3>2 DEF Pipeline!CountersOnlyGrow
    <3>4. CountersInv'
      BY <1>4, <1>6, <1>7, <1>10, <2>3 DEF CountersInv
    <3> QED BY <3>3, <3>4
  <2>5. ASSUME NEW c \in 2..5
        PROVE  OverflowOf(more, c) = OverflowOf(over, c) + (IF c = k THEN 1 ELSE 0)
    <3>1. over[c] \in Nat \/ c \notin DOMAIN over
      BY <1>7
    <3> QED BY <2>3, <3>1 DEF OverflowOf
  <2>6. DOMAIN more \subseteq 2..5
    BY <1>7, <2>2, <2>3
  <2>7. ASSUME NEW c \in 2..5
        PROVE  Cardinality(TableOf(new, c)) + OverflowOf(more, c)
                 = Cardinality(TableOf(old, c)) + OverflowOf(over, c)
                     + (IF c = Pipeline!Class(status) THEN 1 ELSE 0)
    <3>1. Cardinality(TableOf(old, c)) \in Nat /\ OverflowOf(over, c) \in Nat
      BY <1>8
    <3> QED BY <1>10, <2>1, <2>5, <3>1
  <2> QED BY <1>3, <1>4, <1>5, <1>6, <1>7, <1>10, <2>4, <2>6, <2>7, CountedIs
<1>11. \/ /\ label \in DOMAIN old \/ Cardinality(DOMAIN old) < MaxSeries
          /\ new = Pipeline!CountedIn(old, label) /\ more = over
       \/ more = Pipeline!CountedIn(over, Pipeline!Class(status)) /\ new = old
  BY <1>1, <1>2, <1>3, <1>4, <1>5, <1>6, CountedIs DEF Pipeline!RecordHttp
<1> QED BY <1>9, <1>10, <1>11

\* What an answer does to the counters and to AnswersAreCounted: the request had none.
LEMMA AnswerCounts ==
  ASSUME Pipeline!PipelineAssumption, PipelineInv, NEW q \in HttpRequest, NEW p \in Pipeline!Path,
         NEW status \in 200..599, Pipeline!Answer(q, p, status), answer[q] = 0,
         path' = [path EXCEPT ![q] = p]
  PROVE  /\ CountersInv' /\ Pipeline!CountersOnlyGrow
         /\ DOMAIN series' \subseteq Pipeline!Counter /\ Pipeline!Cardinality(DOMAIN series') <= MaxSeries
         /\ DOMAIN overflow' \subseteq 2..5
         /\ Pipeline!AnswersAreCounted'
<1>1. answer' = [answer EXCEPT ![q] = status]
  BY DEF Pipeline!Answer
<1>2. path \in [HttpRequest -> Pipeline!Path] /\ answer \in [HttpRequest -> {0} \union 200..599]
  BY DEF PipelineInv, Pipeline!TypeOK
<1>3. ASSUME NEW c \in 2..5
      PROVE  Cardinality(AnsweredIn(path', answer', c))
               = Cardinality(AnsweredIn(path, answer, c))
                   + (IF p # "metrics" /\ c = Pipeline!Class(status) THEN 1 ELSE 0)
  <2>1. IsFiniteSet(AnsweredIn(path, answer, c)) /\ q \notin AnsweredIn(path, answer, c)
    <3>1. IsFiniteSet(AnsweredIn(path, answer, c))
      <4>1. IsFiniteSet(HttpRequest)
        BY DEF Pipeline!PipelineAssumption, Pipeline!IsFiniteSet, IsFiniteSet
      <4> QED BY <4>1, FS_Subset DEF AnsweredIn
    <3>2. q \notin AnsweredIn(path, answer, c)
      BY ClassOfStatus DEF AnsweredIn
    <3> QED BY <3>1, <3>2
  <2>2. CASE p # "metrics" /\ c = Pipeline!Class(status)
    <3>1. AnsweredIn(path', answer', c) = AnsweredIn(path, answer, c) \union {q}
      BY <1>1, <1>2, <2>2 DEF AnsweredIn
    <3>2. PICK before : before = AnsweredIn(path, answer, c)
      OBVIOUS
    <3>3. Cardinality(before \union {q}) = Cardinality(before) + 1
      BY <2>1, <3>2, FS_AddElement
    <3> QED BY <2>2, <3>1, <3>2, <3>3
  <2>3. CASE ~(p # "metrics" /\ c = Pipeline!Class(status))
    <3>1. AnsweredIn(path', answer', c) = AnsweredIn(path, answer, c)
      BY <1>1, <1>2, <2>1, <2>3 DEF AnsweredIn
    <3>2. Cardinality(AnsweredIn(path, answer, c)) \in Nat
      BY <2>1, FS_CardinalityType
    <3> QED BY <2>3, <3>1, <3>2
  <2> QED BY <2>2, <2>3
<1>4. \A c \in 2..5 : Cardinality(TableOf(series, c)) + OverflowOf(overflow, c)
                        = Cardinality(AnsweredIn(path, answer, c))
  BY CountedIs DEF PipelineInv
<1>5. CASE p = "metrics"
  <2>1. UNCHANGED <<series, overflow>>
    BY <1>5 DEF Pipeline!Answer
  <2>2. CountersInv' /\ Pipeline!CountersOnlyGrow
    <3>1. \A l \in DOMAIN series : series[l] \in Nat
      BY DEF PipelineInv, CountersInv
    <3>2. \A l \in DOMAIN overflow : overflow[l] \in Nat
      BY DEF PipelineInv, CountersInv
    <3>3. Pipeline!CountersOnlyGrow
      BY <2>1, <3>1, <3>2 DEF Pipeline!CountersOnlyGrow
    <3> QED BY <2>1, <3>3 DEF PipelineInv, CountersInv
  <2>3. /\ DOMAIN series' \subseteq Pipeline!Counter /\ Pipeline!Cardinality(DOMAIN series') <= MaxSeries
        /\ DOMAIN overflow' \subseteq 2..5
    BY <2>1 DEF PipelineInv, Pipeline!TypeOK
  <2>4. ASSUME NEW c \in 2..5
        PROVE  Cardinality(TableOf(series', c)) + OverflowOf(overflow', c)
                 = Cardinality(AnsweredIn(path', answer', c))
    <3>1. Cardinality(AnsweredIn(path', answer', c)) = Cardinality(AnsweredIn(path, answer, c)) + 0
      BY <1>3, <1>5
    <3>2. Cardinality(AnsweredIn(path, answer, c)) \in Nat
      <4>1. IsFiniteSet(HttpRequest)
        BY DEF Pipeline!PipelineAssumption, Pipeline!IsFiniteSet, IsFiniteSet
      <4> QED BY <4>1, FS_Subset, FS_CardinalityType DEF AnsweredIn
    <3> QED BY <1>4, <2>1, <3>1, <3>2
  <2> QED BY <2>2, <2>3, <2>4, CountedIs
<1>6. CASE p # "metrics"
  <2>1. Pipeline!RecordHttp([path |-> p, status |-> status])
    BY <1>6 DEF Pipeline!Answer
  <2>2. /\ CountersInv' /\ Pipeline!CountersOnlyGrow
        /\ DOMAIN series' \subseteq Pipeline!Counter /\ Pipeline!Cardinality(DOMAIN series') <= MaxSeries
        /\ DOMAIN overflow' \subseteq 2..5
        /\ \A c \in 2..5 :
             Cardinality(TableOf(series', c)) + OverflowOf(overflow', c)
               = Cardinality(TableOf(series, c)) + OverflowOf(overflow, c)
                   + (IF c = Pipeline!Class(status) THEN 1 ELSE 0)
    BY <2>1, RecordCounts
  <2>3. ASSUME NEW c \in 2..5
        PROVE  Cardinality(TableOf(series', c)) + OverflowOf(overflow', c)
                 = Cardinality(AnsweredIn(path', answer', c))
    BY <1>3, <1>4, <1>6, <2>2
  <2> QED BY <2>2, <2>3, CountedIs
<1> QED BY <1>5, <1>6

\* Every step keeps the counts exact, and no counter falls.
LEMMA StepPipelineInv ==
  ASSUME Pipeline!PipelineAssumption, PipelineInv, [Pipeline!Next]_(Pipeline!vars)
  PROVE  PipelineInv' /\ Pipeline!CountersOnlyGrow
<1>0. /\ \A l \in DOMAIN series : series[l] \in Nat
      /\ \A l \in DOMAIN overflow : overflow[l] \in Nat
  BY DEF PipelineInv, CountersInv
<1>1. ASSUME UNCHANGED <<series, overflow>> PROVE Pipeline!CountersOnlyGrow /\ CountersInv'
  <2>1. Pipeline!CountersOnlyGrow
    BY <1>0, <1>1 DEF Pipeline!CountersOnlyGrow
  <2> QED BY <1>1, <2>1 DEF PipelineInv, CountersInv
<1>2. ASSUME NEW q \in HttpRequest, NEW p \in Pipeline!Path, NEW s \in Session, NEW tooLarge \in BOOLEAN,
             Pipeline!Arrive(q, p, s, tooLarge)
      PROVE  PipelineInv' /\ Pipeline!CountersOnlyGrow
  <2>1. PICK refusal : refusal = Pipeline!Refusal(p, s, tooLarge)
    OBVIOUS
  <2>2. refusal = 0 \/ refusal \in 200..599
    BY <2>1 DEF Pipeline!Refusal
  <2>3. answer[q] = 0 /\ path' = [path EXCEPT ![q] = p]
    BY <1>2 DEF Pipeline!Arrive, PipelineInv, AnsweredInv
  <2>4. path' \in [HttpRequest -> Pipeline!Path]
    BY <2>3 DEF PipelineInv, Pipeline!TypeOK
  <2>5. CASE refusal = 0
    <3>1. phase' = [phase EXCEPT ![q] = "running"] /\ UNCHANGED <<answer, series, overflow>>
      BY <1>2, <2>1, <2>5 DEF Pipeline!Arrive
    <3>2. Pipeline!TypeOK' /\ AnsweredInv'
      BY <2>3, <2>4, <3>1 DEF PipelineInv, Pipeline!TypeOK, AnsweredInv
    <3>3. \A c \in 2..5 : AnsweredIn(path', answer', c) = AnsweredIn(path, answer, c)
      BY <2>3, <3>1, ClassOfStatus DEF AnsweredIn, PipelineInv, Pipeline!TypeOK
    <3>4. Pipeline!AnswersAreCounted'
      BY <3>1, <3>3, CountedIs DEF PipelineInv
    <3> QED BY <1>1, <3>1, <3>2, <3>4 DEF PipelineInv
  <2>6. CASE refusal \in 200..599
    <3>1. phase' = [phase EXCEPT ![q] = "over"] /\ Pipeline!Answer(q, p, refusal)
      BY <1>2, <2>1, <2>6 DEF Pipeline!Arrive
    <3>2. answer' = [answer EXCEPT ![q] = refusal]
      BY <3>1 DEF Pipeline!Answer
    <3>3. /\ CountersInv' /\ Pipeline!CountersOnlyGrow
          /\ DOMAIN series' \subseteq Pipeline!Counter /\ Pipeline!Cardinality(DOMAIN series') <= MaxSeries
          /\ DOMAIN overflow' \subseteq 2..5
          /\ Pipeline!AnswersAreCounted'
      BY <2>3, <2>6, <3>1, AnswerCounts
    <3>4. Pipeline!TypeOK' /\ AnsweredInv'
      BY <2>4, <2>6, <3>1, <3>2, <3>3 DEF PipelineInv, Pipeline!TypeOK, AnsweredInv
    <3> QED BY <3>3, <3>4 DEF PipelineInv
  <2> QED BY <2>2, <2>5, <2>6
<1>3. ASSUME NEW q \in HttpRequest, NEW status \in {200, 408} \union Failure, NEW next_phase \in {"over", "abandoned"},
             phase[q] = "running", phase' = [phase EXCEPT ![q] = next_phase],
             Pipeline!Answer(q, path[q], status), path' = path
      PROVE  PipelineInv' /\ Pipeline!CountersOnlyGrow
  <2>1. status \in 200..599 /\ path[q] \in Pipeline!Path /\ answer[q] = 0
    BY <1>3 DEF Pipeline!PipelineAssumption, PipelineInv, Pipeline!TypeOK, AnsweredInv
  <2>2. PICK p \in Pipeline!Path : p = path[q]
    BY <2>1
  <2>3. path' = [path EXCEPT ![q] = p] /\ path' \in [HttpRequest -> Pipeline!Path]
    BY <1>3, <2>2 DEF PipelineInv, Pipeline!TypeOK
  <2>4. answer' = [answer EXCEPT ![q] = status] /\ Pipeline!Answer(q, p, status)
    BY <1>3, <2>2 DEF Pipeline!Answer
  <2>5. /\ CountersInv' /\ Pipeline!CountersOnlyGrow
        /\ DOMAIN series' \subseteq Pipeline!Counter /\ Pipeline!Cardinality(DOMAIN series') <= MaxSeries
        /\ DOMAIN overflow' \subseteq 2..5
        /\ Pipeline!AnswersAreCounted'
    BY <2>1, <2>2, <2>3, <2>4, AnswerCounts
  <2>6. Pipeline!TypeOK' /\ AnsweredInv'
    BY <1>3, <2>1, <2>3, <2>4, <2>5 DEF PipelineInv, Pipeline!TypeOK, AnsweredInv
  <2> QED BY <2>5, <2>6 DEF PipelineInv
<1>4. ASSUME NEW q \in HttpRequest, NEW status \in {200} \union Failure, Pipeline!Finish(q, status)
      PROVE  PipelineInv' /\ Pipeline!CountersOnlyGrow
  <2>1. status \in {200, 408} \union Failure /\ "over" \in {"over", "abandoned"}
    BY <1>4
  <2>2. /\ phase[q] = "running" /\ phase' = [phase EXCEPT ![q] = "over"]
        /\ Pipeline!Answer(q, path[q], status) /\ path' = path
    BY <1>4 DEF Pipeline!Finish
  <2> QED BY <1>3, <2>1, <2>2
<1>5. ASSUME NEW q \in HttpRequest, Pipeline!TimeOut(q)
      PROVE  PipelineInv' /\ Pipeline!CountersOnlyGrow
  BY <1>3, <1>5 DEF Pipeline!TimeOut
<1>6. ASSUME NEW q \in HttpRequest, NEW status \in {200} \union Failure, Pipeline!FinishLate(q, status)
      PROVE  PipelineInv' /\ Pipeline!CountersOnlyGrow
  <2>1. /\ phase[q] = "abandoned" /\ phase' = [phase EXCEPT ![q] = "over"]
        /\ UNCHANGED <<path, answer, series, overflow>>
    BY <1>6 DEF Pipeline!FinishLate
  <2>2. Pipeline!TypeOK' /\ AnsweredInv'
    BY <2>1 DEF PipelineInv, Pipeline!TypeOK, AnsweredInv
  <2>3. Pipeline!AnswersAreCounted'
    BY <2>1, CountedIs DEF PipelineInv
  <2> QED BY <1>1, <2>1, <2>2, <2>3 DEF PipelineInv
<1>7. CASE UNCHANGED Pipeline!vars
  <2>1. UNCHANGED <<phase, path, answer, series, overflow>>
    BY <1>7 DEF Pipeline!vars
  <2>2. Pipeline!TypeOK' /\ AnsweredInv'
    BY <2>1 DEF PipelineInv, Pipeline!TypeOK, AnsweredInv
  <2>3. Pipeline!AnswersAreCounted'
    BY <2>1, CountedIs DEF PipelineInv
  <2> QED BY <1>1, <2>1, <2>2, <2>3 DEF PipelineInv
<1> QED BY <1>2, <1>4, <1>5, <1>6, <1>7 DEF Pipeline!Next

LEMMA PipelineInvariance ==
  ASSUME Pipeline!PipelineAssumption
  PROVE  Pipeline!Spec => []PipelineInv
<1>1. Pipeline!Init => PipelineInv
  BY InitPipelineInv
<1>2. PipelineInv /\ [Pipeline!Next]_(Pipeline!vars) => PipelineInv'
  BY StepPipelineInv
<1> QED BY <1>1, <1>2, PTL DEF Pipeline!Spec

\* Whatever the label sets and however late a handler ends, the counters of a
\* class of status sum to the answers of that class.
THEOREM CountersAreExact ==
  ASSUME Pipeline!PipelineAssumption
  PROVE  Pipeline!Spec => []Pipeline!AnswersAreCounted
<1>1. PipelineInv => Pipeline!AnswersAreCounted
  BY DEF PipelineInv
<1> QED BY <1>1, PipelineInvariance, PTL

-----------------------------------------------------------------------------
(* RateLimit *)

\* RateLimit's GrantsIn, of any counts.
GrantsOf(g, first, last) == UnitsOf(g, {x \in Rate!Time : first <= x /\ x <= last})

\* What RateLimit counts is GrantsOf its own counts.
LEMMA GrantedInIs ==
  /\ \A first, last : Rate!GrantedIn(first, last) = Cardinality(GrantsOf(granted, first, last))
  /\ \A first, last : Rate!GrantedIn(first, last)' = Cardinality(GrantsOf(granted', first, last))
<1>1. \A first, last : Rate!GrantsIn(first, last) = GrantsOf(granted, first, last)
  BY DEF Rate!GrantsIn, GrantsOf, UnitsOf
<1>2. \A first, last : Rate!GrantsIn(first, last)' = GrantsOf(granted', first, last)
  BY DEF Rate!GrantsIn, GrantsOf, UnitsOf
<1>3. \A S : Rate!Cardinality(S) = Cardinality(S)
  BY DEF Rate!Cardinality, Cardinality
<1> QED BY <1>1, <1>2, <1>3 DEF Rate!GrantedIn

\* Finitely many calls are granted.
LEMMA GrantsFinite ==
  ASSUME Rate!RateLimitAssumption, NEW g \in [Rate!Time -> Nat], NEW first, NEW last
  PROVE  IsFiniteSet(GrantsOf(g, first, last)) /\ Cardinality(GrantsOf(g, first, last)) \in Nat
<1> DEFINE times == {x \in Rate!Time : first <= x /\ x <= last}
<1>1. IsFiniteSet(times)
  <2>1. IsFiniteSet(Rate!Time)
    BY FS_Interval DEF Rate!Time, Rate!RateLimitAssumption
  <2> QED BY <2>1, FS_Subset
<1>2. \A t \in times : g[t] \in Nat
  OBVIOUS
<1> HIDE DEF times
<1>3. IsFiniteSet(UnitsOf(g, times)) /\ Cardinality(UnitsOf(g, times)) \in Nat
  BY <1>1, <1>2, UnitsFinite
<1> QED BY <1>3 DEF GrantsOf, times

\* The calls of a span are at most those of a span that has all their times.
LEMMA GrantsCovered ==
  ASSUME Rate!RateLimitAssumption, NEW g \in [Rate!Time -> Nat],
         NEW first \in Int, NEW last \in Int, NEW from \in Int, NEW to \in Int,
         \A t \in Rate!Time : from <= t /\ t <= to /\ g[t] # 0 => first <= t /\ t <= last
  PROVE  Cardinality(GrantsOf(g, from, to)) <= Cardinality(GrantsOf(g, first, last))
<1>1. GrantsOf(g, from, to) \subseteq GrantsOf(g, first, last)
  <2> SUFFICES ASSUME NEW t \in Rate!Time, from <= t, t <= to, NEW k \in 1..g[t]
               PROVE  <<t, k>> \in GrantsOf(g, first, last)
    BY DEF GrantsOf, UnitsOf
  <2>1. g[t] # 0 /\ t \in Int
    BY DEF Rate!Time
  <2>2. t \in {x \in Rate!Time : first <= x /\ x <= last}
    BY <2>1
  <2> QED BY <2>2 DEF GrantsOf, UnitsOf
<1> QED BY <1>1, GrantsFinite, FS_Subset

\* A span without a granted call has none.
LEMMA GrantsNone ==
  ASSUME NEW g \in [Rate!Time -> Nat], NEW first, NEW last,
         \A t \in Rate!Time : first <= t /\ t <= last => g[t] = 0
  PROVE  Cardinality(GrantsOf(g, first, last)) = 0
<1>1. GrantsOf(g, first, last) = {}
  BY DEF GrantsOf, UnitsOf
<1> QED BY <1>1, FS_EmptySet

\* A call that is granted counts in the spans that have its time.
LEMMA GrantAdds ==
  ASSUME Rate!RateLimitAssumption, NEW g \in [Rate!Time -> Nat], NEW now \in Rate!Time,
         NEW h \in [Rate!Time -> Nat],
         \A t \in Rate!Time : h[t] = IF t = now THEN g[now] + 1 ELSE g[t],
         NEW first \in Int, NEW last \in Int
  PROVE  /\ first <= now /\ now <= last =>
              Cardinality(GrantsOf(h, first, last)) = Cardinality(GrantsOf(g, first, last)) + 1
         /\ ~(first <= now /\ now <= last) =>
              Cardinality(GrantsOf(h, first, last)) = Cardinality(GrantsOf(g, first, last))
<1>1. g[now] \in Nat
  OBVIOUS
<1>2. CASE first <= now /\ now <= last
  <2>1. GrantsOf(h, first, last) = GrantsOf(g, first, last) \union {<<now, g[now] + 1>>}
    <3>1. 1..g[now] + 1 = 1..g[now] \union {g[now] + 1}
      BY <1>1
    <3> QED BY <1>1, <1>2, <3>1 DEF GrantsOf, UnitsOf
  <2>2. <<now, g[now] + 1>> \notin GrantsOf(g, first, last)
    <3>1. g[now] + 1 \notin 1..g[now]
      BY <1>1
    <3> QED BY <3>1 DEF GrantsOf, UnitsOf
  <2> QED BY <1>2, <2>1, <2>2, GrantsFinite, FS_AddElement
<1>3. CASE ~(first <= now /\ now <= last)
  <2>1. GrantsOf(h, first, last) = GrantsOf(g, first, last)
    BY <1>1, <1>3 DEF GrantsOf, UnitsOf
  <2> QED BY <1>3, <2>1
<1> QED BY <1>2, <1>3

\* Of the calls that a row of n counts, those that were granted.
Earned(n) == IF n <= Limit THEN n ELSE Limit

\* The calls granted since the window before began are two windows at most, those
\* since this one began the ones its row counts; those it counts began at most
\* Delay before it; and nothing is granted past its end.
RowInv ==
  row # Rate!NoRow =>
    /\ row.count >= 1
    /\ Rate!GrantedIn(row.start - Window - 1, MaxTime) <= Limit + Earned(row.count)
    /\ Rate!GrantedIn(row.start, MaxTime) <= Earned(row.count)
    /\ Rate!GrantedIn(row.start - Delay, MaxTime) >= Earned(row.count)
    /\ \A t \in Rate!Time : t > row.start + Window => granted[t] = 0

\* Where cleanup has deleted the row, or none was written yet, a window's calls
\* at most are near enough to matter, and none began when one may yet have begun
\* that opens the next.
NoRowInv ==
  row = Rate!NoRow =>
    /\ Rate!GrantedIn(clock - Window - Delay - 1, MaxTime) <= Limit
    /\ \A t \in Rate!Time : t >= clock - Delay => granted[t] = 0

\* A statement waits no longer than Delay; nothing is granted before its time.
WaitInv ==
  /\ \A c \in Caller : began[c] # Rate!NotCalling => began[c] \in clock - Delay .. clock
  /\ \A t \in Rate!Time : t > clock => granted[t] = 0

RateInv ==
  /\ Rate!TypeOK /\ RowInv /\ NoRowInv /\ WaitInv
  /\ Rate!TwoWindowsAtMost /\ Rate!RefusalIsEarned

\* Nothing is granted at first.
LEMMA InitRateInv ==
  ASSUME Rate!RateLimitAssumption, Rate!Init
  PROVE  RateInv
<1> USE DEF Rate!RateLimitAssumption
<1>0. PICK g : g = granted
  OBVIOUS
<1>1. granted \in [Rate!Time -> Nat] /\ \A t \in Rate!Time : granted[t] = 0
  BY DEF Rate!Init
<1>2. \A first, last : Rate!GrantedIn(first, last) = 0
  <2>1. \A first, last : Cardinality(GrantsOf(g, first, last)) = 0
    BY <1>0, <1>1, GrantsNone
  <2> QED BY <1>0, <2>1, GrantedInIs
<1>3. Rate!TypeOK
  BY <1>1 DEF Rate!Init, Rate!TypeOK, Rate!Time, Rate!NoRow
<1>4. RowInv /\ NoRowInv /\ WaitInv
  BY <1>1, <1>2 DEF Rate!Init, RowInv, NoRowInv, WaitInv
<1>5. Rate!TwoWindowsAtMost /\ Rate!RefusalIsEarned
  BY <1>2 DEF Rate!TwoWindowsAtMost, Rate!RefusalIsEarned, Rate!Init
<1> QED BY <1>3, <1>4, <1>5 DEF RateInv

\* What a step has to do that grants and refuses nothing.
LEMMA NothingGranted ==
  ASSUME Rate!RateLimitAssumption, RateInv, UNCHANGED <<granted, refused>>
  PROVE  /\ \A first, last : Rate!GrantedIn(first, last)' = Rate!GrantedIn(first, last)
         /\ Rate!TwoWindowsAtMost' /\ Rate!RefusalIsEarned'
<1>1. \A first, last : Rate!GrantedIn(first, last)' = Rate!GrantedIn(first, last)
  BY DEF Rate!GrantedIn, Rate!GrantsIn
<1> QED BY <1>1 DEF RateInv, Rate!TwoWindowsAtMost, Rate!RefusalIsEarned

LEMMA BeginKeeps ==
  ASSUME Rate!RateLimitAssumption, RateInv, NEW c \in Caller, Rate!Begin(c)
  PROVE  RateInv'
<1> USE DEF Rate!RateLimitAssumption
<1>1. UNCHANGED <<clock, row, granted, refused>> /\ began' = [began EXCEPT ![c] = clock]
  BY DEF Rate!Begin
<1>2. Rate!TypeOK'
  BY <1>1 DEF RateInv, Rate!TypeOK
<1>3. RowInv' /\ NoRowInv'
  BY <1>1, NothingGranted DEF RateInv, RowInv, NoRowInv
<1>4. WaitInv'
  <2>1. clock \in clock - Delay .. clock
    BY DEF RateInv, Rate!TypeOK, Rate!Time
  <2> QED BY <1>1, <2>1 DEF RateInv, Rate!TypeOK, WaitInv
<1> QED BY <1>1, <1>2, <1>3, <1>4, NothingGranted DEF RateInv

LEMMA CleanupKeeps ==
  ASSUME Rate!RateLimitAssumption, RateInv, Rate!Cleanup
  PROVE  RateInv'
<1> USE DEF Rate!RateLimitAssumption
<1>1. /\ UNCHANGED <<clock, began, granted, refused>>
      /\ row # Rate!NoRow /\ row' = Rate!NoRow /\ row.start < clock - Day
  BY DEF Rate!Cleanup, Rate!Expired
<1>2. Rate!TypeOK'
  BY <1>1 DEF RateInv, Rate!TypeOK, Rate!NoRow, Rate!Time
<1>3. row.start <= clock - Window - Delay - 1 /\ row.start \in Int /\ clock \in Int
  BY <1>1 DEF RateInv, Rate!TypeOK, Rate!Time
<1>4. Rate!GrantedIn(clock - Window - Delay - 1, MaxTime) <= Limit
  <2>1. PICK g \in [Rate!Time -> Nat] : g = granted
    BY DEF RateInv, Rate!TypeOK
  <2>2. PICK s \in Int : s = row.start
    BY <1>3
  <2>3. PICK n \in Int : n = clock - Window - Delay - 1
    BY <1>3
  <2>4. Cardinality(GrantsOf(g, n, MaxTime)) <= Cardinality(GrantsOf(g, s, MaxTime))
    BY <1>3, <2>2, <2>3, GrantsCovered DEF Rate!Time
  <2>5. Rate!GrantedIn(n, MaxTime) <= Rate!GrantedIn(s, MaxTime)
    BY <2>1, <2>4, GrantedInIs
  <2>6. Rate!GrantedIn(s, MaxTime) <= Limit
    <3>1. /\ Rate!GrantedIn(s, MaxTime) <= Earned(row.count) /\ Earned(row.count) <= Limit
          /\ Earned(row.count) \in Nat
      BY <1>1, <2>2 DEF RateInv, RowInv, Rate!TypeOK, Earned
    <3>2. Rate!GrantedIn(s, MaxTime) \in Nat
      BY <2>1, GrantsFinite, GrantedInIs
    <3> QED BY <3>1, <3>2
  <2>7. Rate!GrantedIn(s, MaxTime) \in Nat /\ Rate!GrantedIn(n, MaxTime) \in Nat
    BY <2>1, GrantsFinite, GrantedInIs
  <2> QED BY <2>3, <2>5, <2>6, <2>7
<1>5. \A t \in Rate!Time : t >= clock - Delay => granted[t] = 0
  BY <1>1, <1>3 DEF RateInv, RowInv, Rate!Time
<1>6. NoRowInv' /\ RowInv' /\ WaitInv'
  BY <1>1, <1>4, <1>5, NothingGranted DEF RateInv, RowInv, NoRowInv, WaitInv
<1> QED BY <1>1, <1>2, <1>6, NothingGranted DEF RateInv

LEMMA TickKeeps ==
  ASSUME Rate!RateLimitAssumption, RateInv, Rate!Tick
  PROVE  RateInv'
<1> USE DEF Rate!RateLimitAssumption
<1>1. UNCHANGED <<row, began, granted, refused>> /\ clock < MaxTime /\ clock' = clock + 1
  BY DEF Rate!Tick
<1>2. Rate!TypeOK'
  BY <1>1 DEF RateInv, Rate!TypeOK, Rate!Time
<1>3. RowInv'
  BY <1>1, NothingGranted DEF RateInv, RowInv
<1>4. NoRowInv'
  <2>1. PICK g \in [Rate!Time -> Nat] : g = granted
    BY DEF RateInv, Rate!TypeOK
  <2>2. PICK n \in Int : n = clock - Window - Delay - 1
    BY DEF RateInv, Rate!TypeOK, Rate!Time
  <2>3. Cardinality(GrantsOf(g, n + 1, MaxTime)) <= Cardinality(GrantsOf(g, n, MaxTime))
    BY GrantsCovered DEF Rate!Time
  <2>4. Rate!GrantedIn(n + 1, MaxTime) <= Rate!GrantedIn(n, MaxTime)
    BY <2>1, <2>3, GrantedInIs
  <2>5. Rate!GrantedIn(n + 1, MaxTime) \in Nat /\ Rate!GrantedIn(n, MaxTime) \in Nat
    BY <2>1, GrantsFinite, GrantedInIs
  <2>6. n + 1 = clock' - Window - Delay - 1 /\ clock \in Int
    BY <1>1, <2>2 DEF RateInv, Rate!TypeOK, Rate!Time
  <2>7. row = Rate!NoRow => Rate!GrantedIn(n + 1, MaxTime) <= Limit
    BY <2>2, <2>4, <2>5 DEF RateInv, NoRowInv
  <2>8. row = Rate!NoRow => \A t \in Rate!Time : t >= clock' - Delay => granted[t] = 0
    BY <1>1, <2>6 DEF RateInv, NoRowInv, Rate!Time
  <2>9. Rate!GrantedIn(n + 1, MaxTime)' = Rate!GrantedIn(n + 1, MaxTime)
    BY <1>1 DEF Rate!GrantedIn, Rate!GrantsIn
  <2> QED BY <1>1, <2>6, <2>7, <2>8, <2>9 DEF NoRowInv
<1>5. WaitInv'
  <2>1. \A c \in Caller : began[c] \in Int /\ (began[c] # Rate!NotCalling => clock < began[c] + Delay)
    BY DEF Rate!Tick, RateInv, Rate!TypeOK, Rate!Time, Rate!NotCalling
  <2>2. \A c \in Caller : began[c] # Rate!NotCalling => began[c] \in clock' - Delay .. clock'
    BY <1>1, <2>1 DEF RateInv, WaitInv, Rate!TypeOK, Rate!Time
  <2>3. \A t \in Rate!Time : t > clock' => granted[t] = 0
    BY <1>1 DEF RateInv, WaitInv, Rate!TypeOK, Rate!Time
  <2> QED BY <1>1, <2>2, <2>3 DEF WaitInv
<1> QED BY <1>1, <1>2, <1>3, <1>4, <1>5, NothingGranted DEF RateInv

\* What counting a call makes of the row: a window whose calls so far, one fewer
\* than the row now counts, were granted as RowInv says.
LEMMA CountedFollows ==
  ASSUME Rate!RateLimitAssumption, RateInv, NEW now \in Rate!Time, now \in clock - Delay .. clock,
         NEW s, NEW n, s = Rate!Counted(now).start, n = Rate!Counted(now).count
  PROVE  /\ Rate!Counted(now) \in [start : 0..clock, count : Nat]
         /\ s \in 0..clock /\ n \in Nat \ {0} /\ s <= now + Delay /\ now <= s + Window
         /\ Rate!GrantedIn(s - Window - 1, MaxTime) <= Limit + Earned(n - 1)
         /\ Rate!GrantedIn(s, MaxTime) <= Earned(n - 1)
         /\ Rate!GrantedIn(s - Delay, MaxTime) >= Earned(n - 1)
         /\ \A t \in Rate!Time : t > s + Window => granted[t] = 0
<1> USE DEF Rate!RateLimitAssumption
<1>0. /\ row \in [start : 0..clock, count : Nat] /\ clock \in Nat /\ clock <= MaxTime
      /\ clock \in Rate!Time /\ now \in Nat /\ now <= clock
  BY DEF RateInv, Rate!TypeOK, Rate!Time
<1>1. PICK g \in [Rate!Time -> Nat] : g = granted
  BY DEF RateInv, Rate!TypeOK
<1>2. \A first, last : Rate!GrantedIn(first, last) = Cardinality(GrantsOf(g, first, last))
  BY <1>1, GrantedInIs
<1>3. CASE row # Rate!NoRow /\ ~(row.start < now - Window)
  <2>1. Rate!Counted(now) = [row EXCEPT !.count = @ + 1]
    BY <1>3 DEF Rate!Counted
  <2>2. s = row.start /\ n = row.count + 1 /\ n - 1 = row.count
    BY <1>0, <2>1
  <2>3. /\ Rate!Counted(now) \in [start : 0..clock, count : Nat]
        /\ s \in 0..clock /\ n \in Nat \ {0} /\ s <= now + Delay /\ now <= s + Window
    BY <1>0, <1>3, <2>1, <2>2
  <2> QED BY <1>3, <2>2, <2>3 DEF RateInv, RowInv
<1>4. CASE row = Rate!NoRow \/ row.start < now - Window
  <2>1. Rate!Counted(now) = [start |-> now, count |-> 1]
    BY <1>4 DEF Rate!Counted
  <2>2. s = now /\ n = 1 /\ Earned(n - 1) = 0
    BY <2>1 DEF Earned
  <2>3. /\ Rate!Counted(now) \in [start : 0..clock, count : Nat]
        /\ s \in 0..clock /\ n \in Nat \ {0} /\ s <= now + Delay /\ now <= s + Window
    BY <1>0, <2>1, <2>2
  <2>4. \A t \in Rate!Time : t >= now => granted[t] = 0
    <3>1. CASE row = Rate!NoRow
      BY <1>0, <3>1 DEF RateInv, NoRowInv, Rate!Time
    <3>2. CASE row # Rate!NoRow
      BY <1>0, <1>4, <3>2 DEF RateInv, RowInv, Rate!Time
    <3> QED BY <3>1, <3>2
  <2>5. \A t \in Rate!Time : t > s + Window => granted[t] = 0
    BY <1>0, <2>2, <2>4 DEF Rate!Time
  <2>6. Rate!GrantedIn(s, MaxTime) = 0
    <3>1. \A t \in Rate!Time : s <= t /\ t <= MaxTime => g[t] = 0
      BY <1>0, <1>1, <2>2, <2>4 DEF Rate!Time
    <3> QED BY <1>2, <3>1, GrantsNone
  <2>7. Rate!GrantedIn(s - Delay, MaxTime) >= 0
    BY <1>2, GrantsFinite
  <2>8. Rate!GrantedIn(s - Window - 1, MaxTime) <= Limit
    <3>1. PICK w \in Int : w = s - Window - 1
      BY <2>3
    <3>2. PICK from \in Int :
            /\ from <= w /\ Rate!GrantedIn(from, MaxTime) <= Limit
      <4>1. CASE row = Rate!NoRow
        <5>1. clock - Window - Delay - 1 \in Int /\ clock - Window - Delay - 1 <= w
          BY <1>0, <2>2, <3>1
        <5> QED BY <4>1, <5>1 DEF RateInv, NoRowInv
      <4>2. CASE row # Rate!NoRow
        <5>1. row.start \in Int /\ row.start <= w
          BY <1>0, <1>4, <2>2, <3>1, <4>2
        <5>2. Earned(row.count) \in Int /\ Earned(row.count) <= Limit
          BY <1>0 DEF Earned
        <5>3. Rate!GrantedIn(row.start, MaxTime) <= Earned(row.count)
          BY <4>2 DEF RateInv, RowInv
        <5>4. Rate!GrantedIn(row.start, MaxTime) \in Int
          BY <1>2, GrantsFinite
        <5>5. Rate!GrantedIn(row.start, MaxTime) <= Limit
          BY <5>2, <5>3, <5>4
        <5> QED BY <5>1, <5>5
      <4> QED BY <4>1, <4>2
    <3>3. Cardinality(GrantsOf(g, w, MaxTime)) <= Cardinality(GrantsOf(g, from, MaxTime))
      BY <3>2, GrantsCovered DEF Rate!Time
    <3>4. /\ Cardinality(GrantsOf(g, w, MaxTime)) \in Int
          /\ Cardinality(GrantsOf(g, from, MaxTime)) \in Int
      BY GrantsFinite
    <3> QED BY <1>2, <3>1, <3>2, <3>3, <3>4
  <2> QED BY <2>2, <2>3, <2>5, <2>6, <2>7, <2>8
<1> QED BY <1>3, <1>4

LEMMA AllowKeeps ==
  ASSUME Rate!RateLimitAssumption, RateInv, NEW c \in Caller, Rate!Allow(c)
  PROVE  RateInv'
<1> USE DEF Rate!RateLimitAssumption
<1>1. PICK now : now = began[c]
  OBVIOUS
<1>2. now \in Rate!Time /\ now \in clock - Delay .. clock /\ now \in Nat /\ clock \in Nat
  BY <1>1 DEF Rate!Allow, RateInv, Rate!TypeOK, WaitInv, Rate!Time, Rate!NotCalling
<1>3. /\ row' = Rate!Counted(now) /\ began' = [began EXCEPT ![c] = Rate!NotCalling]
      /\ clock' = clock
      /\ IF row'.count <= Limit
         THEN granted' = [granted EXCEPT ![now] = @ + 1] /\ refused' = refused
         ELSE refused' = refused \union {now} /\ granted' = granted
  BY <1>1 DEF Rate!Allow
<1>4. PICK s, n : s = Rate!Counted(now).start /\ n = Rate!Counted(now).count
  OBVIOUS
<1>5. PICK g \in [Rate!Time -> Nat] : g = granted
  BY DEF RateInv, Rate!TypeOK
<1>6. PICK h \in [Rate!Time -> Nat] : h = granted'
  <2>1. granted' \in [Rate!Time -> Nat]
    BY <1>2, <1>3, <1>5
  <2> QED BY <2>1
<1> DEFINE G(first, last) == Cardinality(GrantsOf(g, first, last))
           H(first, last) == Cardinality(GrantsOf(h, first, last))
<1>7. /\ \A first, last : Rate!GrantedIn(first, last) = G(first, last)
      /\ \A first, last : Rate!GrantedIn(first, last)' = H(first, last)
      /\ \A first, last : G(first, last) \in Nat /\ H(first, last) \in Nat
  BY <1>5, <1>6, GrantedInIs, GrantsFinite
<1>8. /\ Rate!Counted(now) \in [start : 0..clock, count : Nat]
      /\ s \in 0..clock /\ n \in Nat \ {0} /\ s <= now + Delay /\ now <= s + Window
      /\ G(s - Window - 1, MaxTime) <= Limit + Earned(n - 1)
      /\ G(s, MaxTime) <= Earned(n - 1)
      /\ G(s - Delay, MaxTime) >= Earned(n - 1)
      /\ \A t \in Rate!Time : t > s + Window => granted[t] = 0
  BY <1>2, <1>4, <1>7, CountedFollows
<1>9. row' # Rate!NoRow /\ row'.start = s /\ row'.count = n
  BY <1>3, <1>4, <1>8 DEF Rate!NoRow
<1>10. now <= MaxTime /\ 0 <= now
  BY <1>2 DEF Rate!Time
<1> HIDE DEF G, H
<1>11. CASE n <= Limit
  <2>1. h = [g EXCEPT ![now] = @ + 1] /\ refused' = refused
    BY <1>3, <1>5, <1>6, <1>9, <1>11
  <2>2. \A first \in Int, last \in Int :
          H(first, last) = IF first <= now /\ now <= last THEN G(first, last) + 1 ELSE G(first, last)
    <3> SUFFICES ASSUME NEW first \in Int, NEW last \in Int
                 PROVE  H(first, last) = IF first <= now /\ now <= last THEN G(first, last) + 1
                                         ELSE G(first, last)
      OBVIOUS
    <3>1. g \in [Rate!Time -> Nat] /\ h \in [Rate!Time -> Nat] /\ now \in Rate!Time
      BY <1>2, <1>5, <1>6
    <3>2. \A t \in Rate!Time : h[t] = IF t = now THEN g[now] + 1 ELSE g[t]
      BY <2>1, <3>1
    <3>3. Rate!RateLimitAssumption
      OBVIOUS
    <3> HIDE DEF Rate!RateLimitAssumption
    <3>4. /\ first <= now /\ now <= last =>
               Cardinality(GrantsOf(h, first, last)) = Cardinality(GrantsOf(g, first, last)) + 1
          /\ ~(first <= now /\ now <= last) =>
               Cardinality(GrantsOf(h, first, last)) = Cardinality(GrantsOf(g, first, last))
      BY <3>1, <3>2, <3>3, GrantAdds
    <3> QED BY <3>4 DEF G, H
  <2>3. Earned(n) = n /\ Earned(n - 1) = n - 1
    BY <1>8, <1>11 DEF Earned
  <2>4. /\ H(s - Window - 1, MaxTime) <= Limit + Earned(n)
        /\ H(s, MaxTime) <= Earned(n)
        /\ H(s - Delay, MaxTime) >= Earned(n)
    <3>1. /\ s - Window - 1 \in Int /\ s \in Int /\ s - Delay \in Int /\ MaxTime \in Int
          /\ s - Delay <= now /\ now <= MaxTime
      BY <1>2, <1>8, <1>10
    <3>2. ASSUME NEW first \in Int PROVE H(first, MaxTime) <= G(first, MaxTime) + 1
      <4>1. H(first, MaxTime) \in Nat /\ G(first, MaxTime) \in Nat
        BY <1>7
      <4>2. H(first, MaxTime) = G(first, MaxTime) + 1 \/ H(first, MaxTime) = G(first, MaxTime)
        BY <2>2, <3>1
      <4> QED BY <4>1, <4>2
    <3>3. H(s - Delay, MaxTime) = G(s - Delay, MaxTime) + 1
      BY <2>2, <3>1
    <3>4. /\ H(s - Window - 1, MaxTime) <= G(s - Window - 1, MaxTime) + 1
          /\ H(s, MaxTime) <= G(s, MaxTime) + 1
      BY <3>1, <3>2
    <3> QED BY <1>7, <1>8, <2>3, <3>3, <3>4
  <2>5. \A t \in Rate!Time : t > s + Window => granted'[t] = 0
    BY <1>2, <1>5, <1>6, <1>8, <2>1 DEF Rate!Time
  <2>6. RowInv' /\ NoRowInv'
    BY <1>7, <1>8, <1>9, <2>4, <2>5 DEF RowInv, NoRowInv
  <2>7. \A t \in Rate!Time : t > clock' => granted'[t] = 0
    BY <1>2, <1>3, <1>5, <1>6, <2>1 DEF RateInv, WaitInv, Rate!Time
  <2>8. WaitInv' /\ Rate!TypeOK'
    BY <1>2, <1>3, <1>6, <1>8, <2>1, <2>7 DEF RateInv, WaitInv, Rate!TypeOK, Rate!NotCalling
  <2>9. ASSUME NEW t \in Rate!Time PROVE H(t, t + Window + 1 - Delay) <= 2 * Limit
    <3>0. PICK last \in Int : last = t + Window + 1 - Delay
      BY DEF Rate!Time
    <3>1. t \in Int /\ G(t, last) <= 2 * Limit
      BY <1>7, <3>0 DEF RateInv, Rate!TwoWindowsAtMost, Rate!Time
    <3>2. CASE t <= now /\ now <= last
      <4>1. PICK from \in Int : from = s - Window - 1
        BY <1>8
      <4>2. H(t, last) <= H(from, MaxTime)
        <5>1. \A x \in Rate!Time : t <= x /\ x <= last /\ h[x] # 0 => from <= x /\ x <= MaxTime
          BY <1>2, <1>8, <3>0, <3>1, <3>2, <4>1 DEF Rate!Time
        <5>2. h \in [Rate!Time -> Nat] /\ last \in Int /\ MaxTime \in Int
          BY <1>6, <3>1
        <5> QED BY <3>1, <4>1, <5>1, <5>2, GrantsCovered DEF H
      <4>3. H(from, MaxTime) <= 2 * Limit
        BY <1>7, <1>8, <1>11, <2>3, <2>4, <4>1
      <4> QED BY <1>7, <3>0, <4>2, <4>3
    <3>3. CASE ~(t <= now /\ now <= last)
      BY <2>2, <3>0, <3>1, <3>3
    <3> QED BY <3>0, <3>2, <3>3
  <2>10. ASSUME NEW t \in refused PROVE H(t - Window - Delay, t + Delay) >= Limit
    <3>1. t \in Int /\ G(t - Window - Delay, t + Delay) >= Limit
      BY <1>7 DEF RateInv, Rate!RefusalIsEarned, Rate!TypeOK, Rate!Time
    <3> QED BY <1>7, <2>2, <3>1
  <2> QED
    BY <1>7, <2>1, <2>6, <2>8, <2>9, <2>10 DEF RateInv, Rate!TwoWindowsAtMost, Rate!RefusalIsEarned
<1>12. CASE ~(n <= Limit)
  <2>1. h = g /\ refused' = refused \union {now} /\ granted' = granted
    BY <1>3, <1>5, <1>6, <1>9, <1>12
  <2>2. \A first, last : H(first, last) = G(first, last)
    BY <2>1 DEF G, H
  <2>3. Earned(n) = Limit /\ Earned(n - 1) = Limit
    BY <1>8, <1>12 DEF Earned
  <2>4. RowInv' /\ NoRowInv'
    BY <1>7, <1>8, <1>9, <2>1, <2>2, <2>3 DEF RowInv, NoRowInv
  <2>5. WaitInv' /\ Rate!TypeOK'
    BY <1>2, <1>3, <1>6, <1>8, <2>1 DEF RateInv, WaitInv, Rate!TypeOK, Rate!NotCalling
  <2>6. Rate!TwoWindowsAtMost'
    BY <1>7, <2>2 DEF RateInv, Rate!TwoWindowsAtMost
  <2>7. G(now - Window - Delay, now + Delay) >= Limit
    <3>1. PICK from \in Int : from = s - Delay
      BY <1>8
    <3>2. ASSUME NEW t \in Rate!Time, from <= t, t <= MaxTime, g[t] # 0
          PROVE  now - Window - Delay <= t /\ t <= now + Delay
      <4>1. t <= clock /\ t \in Int
        BY <1>2, <1>5, <3>2 DEF RateInv, WaitInv, Rate!Time
      <4> QED BY <1>2, <1>8, <3>1, <3>2, <4>1
    <3>3. G(from, MaxTime) <= G(now - Window - Delay, now + Delay)
      BY <1>2, <3>2, GrantsCovered DEF G
    <3> QED BY <1>7, <1>8, <2>3, <3>1, <3>3
  <2>8. Rate!RefusalIsEarned'
    BY <1>7, <2>1, <2>2, <2>7 DEF RateInv, Rate!RefusalIsEarned
  <2> QED BY <2>4, <2>5, <2>6, <2>8 DEF RateInv
<1> QED BY <1>8, <1>11, <1>12

\* Every step keeps what the rate limit promises.
LEMMA StepRateInv ==
  ASSUME Rate!RateLimitAssumption, RateInv, [Rate!Next]_(Rate!vars)
  PROVE  RateInv'
<1>1. CASE UNCHANGED Rate!vars
  <2>1. UNCHANGED <<clock, row, began, granted, refused>>
    BY <1>1 DEF Rate!vars
  <2>2. Rate!TypeOK' /\ RowInv' /\ NoRowInv' /\ WaitInv'
    BY <2>1, NothingGranted DEF RateInv, Rate!TypeOK, RowInv, NoRowInv, WaitInv
  <2> QED BY <2>1, <2>2, NothingGranted DEF RateInv
<1> QED BY <1>1, BeginKeeps, AllowKeeps, CleanupKeeps, TickKeeps DEF Rate!Next

LEMMA RateInvariance ==
  ASSUME Rate!RateLimitAssumption
  PROVE  Rate!Spec => []RateInv
<1>1. Rate!Init => RateInv
  BY InitRateInv
<1>2. RateInv /\ [Rate!Next]_(Rate!vars) => RateInv'
  BY StepRateInv
<1> QED BY <1>1, <1>2, PTL DEF Rate!Spec

\* However long statements wait for the row, no span of Window + 2 - Delay
\* moments has more calls that were granted than two windows allow.
THEOREM TwoWindowsPass ==
  ASSUME Rate!RateLimitAssumption
  PROVE  Rate!Spec => []Rate!TwoWindowsAtMost
<1>1. RateInv => Rate!TwoWindowsAtMost
  BY DEF RateInv
<1> QED BY <1>1, RateInvariance, PTL

\* Whoever is refused, a whole window's calls were granted around his.
THEOREM RefusalsAreEarned ==
  ASSUME Rate!RateLimitAssumption
  PROVE  Rate!Spec => []Rate!RefusalIsEarned
<1>1. RateInv => Rate!RefusalIsEarned
  BY DEF RateInv
<1> QED BY <1>1, RateInvariance, PTL

-----------------------------------------------------------------------------
(* The specification of MCServices *)

\* The component that runs keeps its invariant.
ServicesInv ==
  /\ part = "consumer" => ConsumerInv
  /\ part = "topics" => TopicsInv
  /\ part = "trace" => TraceInv
  /\ part = "runtime" => RunInv
  /\ part = "pipeline" => PipelineInv
  /\ part = "migration" => MigrationInv
  /\ part = "rate" => RateInv
  /\ part = "client" => ClientInv

\* Every behaviour begins in one of them.
LEMMA InitServicesInv == Init => ServicesInv
<1>1. CASE Begin("consumer") /\ Consumer!Init
  BY <1>1, ServicesAssumption, InitConsumerInv DEF Begin, ServicesInv
<1>2. CASE Begin("topics") /\ Topics!Init
  BY <1>2, ServicesAssumption, InitTopicsInv DEF Begin, ServicesInv
<1>3. CASE Begin("trace") /\ Trace!Init
  BY <1>3, ServicesAssumption, InitTraceInv DEF Begin, ServicesInv
<1>4. CASE Begin("runtime") /\ Runtime!Init
  BY <1>4, ServicesAssumption, InitRunInv DEF Begin, ServicesInv
<1>5. CASE Begin("pipeline") /\ Pipeline!Init
  BY <1>5, ServicesAssumption, InitPipelineInv DEF Begin, ServicesInv
<1>6. CASE Begin("migration") /\ Migrate!Init
  BY <1>6, ServicesAssumption, InitMigrationInv DEF Begin, ServicesInv
<1>7. CASE Begin("rate") /\ Rate!Init
  BY <1>7, ServicesAssumption, InitRateInv DEF Begin, ServicesInv
<1>8. CASE Begin("client") /\ Client!Init
  BY <1>8, ServicesAssumption, InitClientInv DEF Begin, ServicesInv
<1> QED BY <1>1, <1>2, <1>3, <1>4, <1>5, <1>6, <1>7, <1>8 DEF Init

\* And stays in it, every step being one of that component's.
LEMMA ServicesInvKept ==
  ASSUME ServicesInv, [Next]_all
  PROVE  ServicesInv' /\ (part = "pipeline" => Pipeline!CountersOnlyGrow) /\ part' = part
<1>1. CASE ConsumerStep
  <2>1. part = "consumer" /\ part' = "consumer" /\ Consumer!Next
    BY <1>1 DEF ConsumerStep, In
  <2>2. ConsumerInv'
    BY <2>1, ServicesAssumption, ConsumerInvKept DEF ServicesInv
  <2> QED BY <2>1, <2>2 DEF ServicesInv
<1>2. CASE TopicsStep
  <2>1. part = "topics" /\ part' = "topics" /\ Topics!Next
    BY <1>2 DEF TopicsStep, In
  <2>2. TopicsInv'
    BY <2>1, ServicesAssumption, NextTopicsInv DEF ServicesInv
  <2> QED BY <2>1, <2>2 DEF ServicesInv
<1>3. CASE TraceStep
  <2>1. part = "trace" /\ part' = "trace" /\ Trace!Next
    BY <1>3 DEF TraceStep, In
  <2>2. TraceInv'
    BY <2>1, ServicesAssumption, TraceInvKept DEF ServicesInv
  <2> QED BY <2>1, <2>2 DEF ServicesInv
<1>4. CASE RuntimeStep
  <2>1. part = "runtime" /\ part' = "runtime" /\ Runtime!Next
    BY <1>4 DEF RuntimeStep, In
  <2>2. RunInv'
    BY <2>1, ServicesAssumption, RunInvKept DEF ServicesInv
  <2> QED BY <2>1, <2>2 DEF ServicesInv
<1>5. CASE PipelineStep
  <2>1. part = "pipeline" /\ part' = "pipeline" /\ Pipeline!Next
    BY <1>5 DEF PipelineStep, In
  <2>2. PipelineInv' /\ Pipeline!CountersOnlyGrow
    BY <2>1, ServicesAssumption, StepPipelineInv DEF ServicesInv
  <2> QED BY <2>1, <2>2 DEF ServicesInv
<1>6. CASE MigrateStep
  <2>1. part = "migration" /\ part' = "migration" /\ Migrate!Next
    BY <1>6 DEF MigrateStep, In
  <2>2. MigrationInv'
    BY <2>1, ServicesAssumption, NextMigrationInv DEF ServicesInv
  <2> QED BY <2>1, <2>2 DEF ServicesInv
<1>7. CASE RateStep
  <2>1. part = "rate" /\ part' = "rate" /\ Rate!Next
    BY <1>7 DEF RateStep, In
  <2>2. RateInv'
    BY <2>1, ServicesAssumption, StepRateInv DEF ServicesInv
  <2> QED BY <2>1, <2>2 DEF ServicesInv
<1>8. CASE ClientStep
  <2>1. part = "client" /\ part' = "client" /\ Client!Next
    BY <1>8 DEF ClientStep, In
  <2>2. ClientInv'
    BY <2>1, ServicesAssumption, ClientInvKept DEF ServicesInv
  <2> QED BY <2>1, <2>2 DEF ServicesInv
<1>9. CASE UNCHANGED all
  <2>0. part' = part
    BY <1>9 DEF all
  <2>1. part = "consumer" => ConsumerInv'
    <3>1. UNCHANGED Consumer!vars
      BY <1>9 DEF all, Consumer!vars
    <3> QED BY <3>1, ServicesAssumption, ConsumerInvKept DEF ServicesInv
  <2>2. part = "topics" => TopicsInv'
    <3>1. UNCHANGED Topics!vars
      <4>1. UNCHANGED <<env, live, topics, proc, open, published, outages, faults, restarts>>
        BY <1>9 DEF all
      <4> QED BY <4>1 DEF Topics!vars, Topics!bounds
    <3> QED BY <3>1, ServicesAssumption, NextTopicsInv DEF ServicesInv
  <2>3. part = "trace" => TraceInv'
    <3>1. UNCHANGED Trace!vars
      BY <1>9 DEF all, Trace!vars
    <3> QED BY <3>1, ServicesAssumption, TraceInvKept DEF ServicesInv
  <2>4. part = "runtime" => RunInv'
    <3>1. UNCHANGED Runtime!vars
      <4>1. UNCHANGED <<service, up, migrated, linked, boot, on>>
        BY <1>9 DEF all
      <4>2. UNCHANGED <<busy, closed, ready, drain, phase, flips, faults>>
        BY <1>9 DEF all
      <4> QED BY <4>1, <4>2 DEF Runtime!vars, Runtime!outside
    <3> QED BY <3>1, ServicesAssumption, RunInvKept DEF ServicesInv
  <2>5. part = "pipeline" => PipelineInv' /\ Pipeline!CountersOnlyGrow
    <3>1. UNCHANGED Pipeline!vars
      BY <1>9 DEF all, Pipeline!vars
    <3> QED BY <3>1, ServicesAssumption, StepPipelineInv DEF ServicesInv
  <2>6. part = "migration" => MigrationInv'
    <3>1. UNCHANGED Migrate!vars
      BY <1>9 DEF all, Migrate!vars
    <3> QED BY <3>1, ServicesAssumption, NextMigrationInv DEF ServicesInv
  <2>7. part = "rate" => RateInv'
    <3>1. UNCHANGED Rate!vars
      BY <1>9 DEF all, Rate!vars
    <3> QED BY <3>1, ServicesAssumption, StepRateInv DEF ServicesInv
  <2>8. part = "client" => ClientInv'
    <3>1. UNCHANGED Client!vars
      BY <1>9 DEF all, Client!vars
    <3> QED BY <3>1, ServicesAssumption, ClientInvKept DEF ServicesInv
  <2> QED BY <2>0, <2>1, <2>2, <2>3, <2>4, <2>5, <2>6, <2>7, <2>8 DEF ServicesInv
<1> QED BY <1>1, <1>2, <1>3, <1>4, <1>5, <1>6, <1>7, <1>8, <1>9 DEF Next

LEMMA ServicesInvariance == Spec => []ServicesInv
<1>1. Init => ServicesInv
  BY InitServicesInv
<1>2. ServicesInv /\ [Next]_all => ServicesInv'
  BY ServicesInvKept
<1> QED BY <1>1, <1>2, PTL DEF Spec

\* The types of the services' variables and the bounds of their counters.
THEOREM ServicesTypeCorrect == Spec => []ServicesTypes
<1>1. ServicesInv => ServicesTypes
  BY ServicesAssumption, ConsumerPromises, TopicsPromises, TracePromises, RuntimePromises,
     MigratePromises, ClientPromises DEF ServicesInv, ServicesTypes, PipelineInv, RateInv
<1> QED BY <1>1, ServicesInvariance, PTL

\* What was paid is not lost between the services, however deliveries, faults and
\* starts interleave: offsets, topics and traces keep what they promise.
THEOREM MessagesDoSettle == Spec => []MessagesSettle
<1>1. ServicesInv => MessagesSettle
  BY ServicesAssumption, ConsumerPromises, TopicsPromises, TracePromises DEF ServicesInv, MessagesSettle
<1> QED BY <1>1, ServicesInvariance, PTL

\* A process that was told to stop uses nothing it has closed, does not look ready
\* and ends with 0 only when all is drained; no administration call stays connected.
THEOREM ProcessesDoEndClean == Spec => []ProcessesEndClean
<1>1. ServicesInv => ProcessesEndClean
  BY ServicesAssumption, RuntimePromises, TopicsPromises DEF ServicesInv, ProcessesEndClean
<1> QED BY <1>1, ServicesInvariance, PTL

\* Every step leaves callers, operators and deployers told what happened, and no
\* counter falls.
THEOREM CallersDoGetServedRight == Spec => CallersAreServedRight
<1>1. ServicesInv => CallersAreServed
  BY ServicesAssumption, ClientPromises, MigratePromises DEF ServicesInv, CallersAreServed,
     PipelineInv, RateInv
<1>2. ServicesInv /\ [Next]_all
        => [CallersAreServed' /\ (part = "pipeline" => Pipeline!CountersOnlyGrow)]_all
  <2> SUFFICES ASSUME ServicesInv, [Next]_all
               PROVE  CallersAreServed' /\ (part = "pipeline" => Pipeline!CountersOnlyGrow)
    OBVIOUS
  <2>1. ServicesInv' /\ (part = "pipeline" => Pipeline!CountersOnlyGrow)
    BY ServicesInvKept
  <2>2. ServicesInv' => CallersAreServed'
    BY <1>1, PTL
  <2> QED BY <2>1, <2>2
<1> QED BY <1>2, ServicesInvariance, PTL DEF Spec, CallersAreServedRight
=============================================================================
