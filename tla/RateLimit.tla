------------------------------ MODULE RateLimit ------------------------------
(***************************************************************************)
(* PaymentStore.allow and cleanup (payment-store.ts): the fixed-window      *)
(* counter in payment.rate_limit, for one key, shared by every replica of   *)
(* payment-service.  A statement's now() is the time at which it began; it  *)
(* takes effect when it has the lock on the row, up to Delay later and in   *)
(* any order among those that wait.                                         *)
(***************************************************************************)
EXTENDS Integers, FiniteSets

CONSTANTS
  Caller,
  Limit,    \* calls a window grants
  Window,   \* its length (60 seconds in the code)
  Day,      \* age at which cleanup deletes the row
  Delay,    \* longest wait for the row (the statement timeout, 10 seconds)
  MaxTime,  \* bound on the clock
  MaxCount  \* bound on the calls a row counts

\* What is asked of the constants: nothing that is counted in a window is still
\* under way when its row is a day old.
RateLimitAssumption ==
  /\ Limit \in Nat /\ Window \in Nat /\ Day \in Nat /\ Delay \in Nat /\ {MaxTime, MaxCount} \subseteq Nat
  /\ Window + Delay <= Day

VARIABLES
  clock,
  row,      \* [start, count], or NoRow
  began,    \* when the statement of each caller began, or NotCalling
  granted,  \* calls granted so far, by the time they began
  refused   \* the calls that began at these times were refused

vars == <<clock, row, began, granted, refused>>

NoRow == [start |-> 0, count |-> 0]
NotCalling == -1
Time == 0..MaxTime

Init ==
  /\ clock = 0
  /\ row = NoRow
  /\ began = [c \in Caller |-> NotCalling]
  /\ granted = [t \in Time |-> 0]
  /\ refused = {}

Begin(c) ==
  /\ began[c] = NotCalling
  /\ began' = [began EXCEPT ![c] = clock]
  /\ UNCHANGED <<clock, row, granted, refused>>

\* Both columns take the same branch, on the same comparison.
Counted(now) ==
  IF row = NoRow \/ row.start < now - Window THEN [start |-> now, count |-> 1]
  ELSE [row EXCEPT !.count = @ + 1]

Allow(c) ==
  LET now == began[c] IN
  /\ now # NotCalling
  /\ row' = Counted(now) /\ row'.count <= MaxCount
  /\ IF row'.count <= Limit
     THEN granted' = [granted EXCEPT ![now] = @ + 1] /\ UNCHANGED refused
     ELSE refused' = refused \union {now} /\ UNCHANGED granted
  /\ began' = [began EXCEPT ![c] = NotCalling]
  /\ UNCHANGED clock

Expired == row.start < clock - Day

Cleanup ==
  /\ row # NoRow /\ Expired
  /\ row' = NoRow
  /\ UNCHANGED <<clock, began, granted, refused>>

Tick ==
  /\ clock < MaxTime
  /\ \A c \in Caller : began[c] = NotCalling \/ clock < began[c] + Delay
  /\ clock' = clock + 1
  /\ UNCHANGED <<row, began, granted, refused>>

Next ==
  \/ \E c \in Caller : Begin(c) \/ Allow(c)
  \/ Cleanup \/ Tick

Spec == Init /\ [][Next]_vars

-----------------------------------------------------------------------------
(* Properties *)

\* One element for each call granted in these times.
GrantsIn(first, last) ==
  UNION {{<<t, k>> : k \in 1..granted[t]} : t \in {x \in Time : first <= x /\ x <= last}}
GrantedIn(first, last) == Cardinality(GrantsIn(first, last))

TypeOK ==
  /\ clock \in Time
  /\ row \in [start : 0..clock, count : Nat]
  /\ began \in [Caller -> Time \union {NotCalling}]
  /\ granted \in [Time -> Nat]
  /\ refused \subseteq Time

\* A burst over the boundary of a window is worth two windows and no more, in
\* every span that is shorter than a window by the time statements may wait:
\* calls that open a window together, statements that waited while another
\* opened it, and rows deleted by cleanup.  A whole window may see more, as
\* statements that began in it are counted in a later one.
TwoWindowsAtMost == \A t \in Time : GrantedIn(t, t + Window + 1 - Delay) <= 2 * Limit

\* A call is refused only after the calls of one window have been granted just
\* before it: being refused does not prolong the wait.
RefusalIsEarned == \A t \in refused : GrantedIn(t - Window - Delay, t + Delay) >= Limit
=============================================================================
