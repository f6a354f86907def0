----------------------------- MODULE NTPSource -----------------------------
(***************************************************************************)
(* truetime/ntp_source.go: the estimate that query measures and that Now   *)
(* turns into an Interval.  The host has a monotonic clock, which drifts,  *)
(* and a wall clock, which drifts with it and which others step.  A Go     *)
(* Time of time.Now holds both readings: Sub between two of them uses the  *)
(* monotonic ones, Sub with a time that came from the server the wall      *)
(* ones, and Add moves both.                                               *)
(*                                                                         *)
(* A query waits for the network without the lock, and Now reads the clock *)
(* after it has released the lock, so time, steps of the wall clock and    *)
(* each other's updates come in between.                                   *)
(***************************************************************************)
EXTENDS Integers

CONSTANTS
  MaxTime,        \* bound: true time stops here
  MaxQueries,     \* bound: how many queries are sent
  MaxSteps,       \* bound: how often the wall clock is stepped
  Period,         \* the host drifts by at most one unit in Period units
  Rate, Scale,    \* driftPPM and 1_000_000
  Skews,          \* how far the wall clock may be from the monotonic clock
  RootDisp,       \* the root dispersion that the server reports
  Cuts,           \* weights of the last byte that a short response may hold
  Fine,           \* fractions of an NTP timestamp in a unit
  ServerErrors,   \* how far the server's clock is off, in fractions
  EpochOffset,    \* ntpEpochOffset
  EraLength,      \* how long until the seconds of an NTP timestamp wrap
  MaxInt64        \* the largest Duration

ASSUME RateAssumption ==
  /\ Rate \in Nat \ {0} /\ Period \in Nat \ {0} /\ Scale = Rate * Period
ASSUME ServerAssumption ==
  /\ RootDisp \in Nat /\ Fine \in Nat \ {0}
  /\ ServerErrors \subseteq -(Fine * RootDisp)..(Fine * RootDisp)
ASSUME CutAssumption == Cuts \subseteq Nat \ {0}
ASSUME SkewAssumption == Skews \subseteq Int /\ 0 \in Skews
ASSUME BoundsAssumption ==
  MaxTime \in Nat /\ MaxQueries \in Nat /\ MaxSteps \in Nat /\ MaxInt64 \in Nat
\* 70 years against at most 18 hours: no server is wrong enough to be in 1900
ASSUME EraAssumption ==
  EpochOffset \in Nat /\ EraLength \in Nat \ {0} /\ RootDisp <= EpochOffset

VARIABLES
  now,      \* true time
  dev,      \* the monotonic clock shows now + dev
  quiet,    \* units since it last drifted, at most Period
  skew,     \* the wall clock shows the monotonic time + skew
  est,      \* lastOffset, lastDispersion and lastQuery, or None
  query,    \* the query in flight, and how far it is
  count,    \* for the bounds: the queries and steps so far
  reader    \* the copy that a call of Now has made, or None

vars == <<now, dev, quiet, skew, est, query, count, reader>>

mono == now + dev
wall == mono + skew

(***************************************************************************)
(* est, query and reader carry history: trust, what their times are good   *)
(* for, slack, the drift within the query, which the code leaves out, and  *)
(* the true time at which the query was sent or how long it took.          *)
(***************************************************************************)
None == [trust |-> "none"]
Idle == [at |-> "idle"]

\* a step of the wall clock separates a wall reading from its successors
Stepped(r) == IF r.trust = "ok" THEN [r EXCEPT !.trust = "stepped"] ELSE r

-----------------------------------------------------------------------------
(* Arithmetic.                                                             *)

\* Go's division truncates toward zero
Quot(a, b) == IF a < 0 THEN -((-a) \div b) ELSE a \div b

\* an int64 product that wraps
Wrap64(x) == ((x + MaxInt64 + 1) % (2 * (MaxInt64 + 1))) - (MaxInt64 + 1)

\* mutant of ServerTime: a field that does not wrap
ServerTimeUnbounded(e) == Fine * (now + EpochOffset) + e

\* external: the timestamp of a server whose clock is off by e: its seconds wrap
ServerTime(e) == (Fine * (now + EpochOffset) + e) % (Fine * EraLength)

\* the fraction is rounded down to a unit; the zero of a missing field is the
\* NTP epoch
ntpTimeFromBytes(raw) == (raw \div Fine) - EpochOffset

\* mutants of Dispersion: the delay is ignored, its sign is wrong, or it is
\* not halved
WithoutDelay(rootDisp, rtt, service) == rootDisp
NegatedDelay(rootDisp, rtt, service) == rootDisp + Quot(service - rtt, 2)
WholeDelay(rootDisp, rtt, service) == rootDisp + (rtt - service)

Dispersion(rootDisp, rtt, service) == rootDisp + Quot(rtt - service, 2)

\* what query computes from its own times and the fields of the response,
\* with the history of where they come from
Estimate(t2, t3, rootDisp, trust) ==
  [offset |-> Quot((t2 - query.t1) + (t3 - wall), 2),
   disp   |-> Dispersion(rootDisp, mono - query.t1mono, t3 - t2),
   last   |-> mono,
   trust  |-> trust,
   slack  |-> query.slack,
   took   |-> now - query.sent]

Extra(elapsed) == Quot(Wrap64(elapsed * Rate), Scale)

\* mutant of IntervalOf: the elapsed time is measured by the wall clock
IntervalByWall(e) ==
  LET elapsed == IF wall < e.last THEN 0 ELSE wall - e.last
      un == e.disp + Extra(elapsed)
  IN [Earliest |-> wall + e.offset - un, Latest |-> wall + e.offset + un]

\* what Now returns if it reads the clock now, after it has copied e
IntervalOf(e) ==
  LET elapsed == IF mono < e.last THEN 0 ELSE mono - e.last
      un == e.disp + Extra(elapsed)
  IN [Earliest |-> wall + e.offset - un, Latest |-> wall + e.offset + un]

Overflows(e) == (mono - e.last) * Rate > MaxInt64

-----------------------------------------------------------------------------
Init ==
  /\ now = 0 /\ dev = 0
  /\ quiet = Period
  /\ skew = 0
  /\ est = None
  /\ query = Idle
  /\ count = [queries |-> 0, steps |-> 0]
  /\ reader = None

\* query dials and sends its request
Send ==
  /\ query.at = "idle"
  /\ count.queries < MaxQueries
  /\ count' = [count EXCEPT !.queries = @ + 1]
  /\ query' = [at |-> "sent", t1 |-> wall, t1mono |-> mono,
               trust |-> "ok", slack |-> 0, sent |-> now]
  /\ UNCHANGED <<now, dev, quiet, skew, est, reader>>

\* the era of NTP timestamps has ended, as far as the server can tell
EraOver == now + EpochOffset + RootDisp >= EraLength

\* external: the server receives the request
ServerReceive(e) ==
  /\ query.at = "sent"
  /\ query' = [at |-> "received", t1 |-> query.t1, t1mono |-> query.t1mono,
               t2 |-> ServerTime(e),
               trust |-> IF EraOver THEN "era" ELSE query.trust,
               slack |-> query.slack, sent |-> query.sent]
  /\ UNCHANGED <<now, dev, quiet, skew, est, count, reader>>

\* external: the server answers
ServerTransmit(e) ==
  /\ query.at = "received"
  /\ query' = [at |-> "answered", t1 |-> query.t1, t1mono |-> query.t1mono,
               t2 |-> query.t2, t3 |-> ServerTime(e),
               trust |-> IF EraOver THEN "era" ELSE query.trust,
               slack |-> query.slack, sent |-> query.sent]
  /\ UNCHANGED <<now, dev, quiet, skew, est, count, reader>>

\* a response arrives; the estimate is stored under the lock
Store(e) ==
  /\ query.at = "answered"
  /\ est' = e
  /\ query' = Idle
  /\ UNCHANGED <<now, dev, quiet, skew, count, reader>>

Receive ==
  Store(Estimate(ntpTimeFromBytes(query.t2), ntpTimeFromBytes(query.t3),
                 RootDisp, query.trust))

\* a field whose bytes below the weight k did not arrive, and are zero
Cut(field, k) == k * (field \div k)

\* a response that is too short: it ends within or before the last timestamp,
\* the one before it or the root dispersion, and what it does not reach is
\* zero.  The length that Read returns is ignored
ReceiveShort ==
  LET StoreShort(t2, t3, rootDisp) ==
        Store(Estimate(ntpTimeFromBytes(t2), ntpTimeFromBytes(t3), rootDisp,
                       IF query.trust = "era" THEN "era" ELSE "short"))
  IN \E k \in Cuts :
       \/ StoreShort(query.t2, Cut(query.t3, k), RootDisp)
       \/ StoreShort(Cut(query.t2, k), 0, RootDisp)
       \/ StoreShort(0, 0, Cut(RootDisp, k))

\* no network, no answer before the deadline, a refused packet: nothing
\* changes.  When it is the query of NewNTPSource, there is no source yet
QueryError ==
  /\ query.at # "idle"
  /\ query' = Idle
  /\ UNCHANGED <<now, dev, quiet, skew, est, count, reader>>

\* Now copies the fields under the read lock
CopyEstimate ==
  /\ est # None
  /\ reader = None
  /\ reader' = est
  /\ UNCHANGED <<now, dev, quiet, skew, est, query, count>>

\* Now reads the clock and returns IntervalOf(reader)
ReturnInterval ==
  /\ reader # None
  /\ reader' = None
  /\ UNCHANGED <<now, dev, quiet, skew, est, query, count>>

\* time passes; the host's clocks may drift meanwhile
Advance(d) ==
  /\ now < MaxTime
  /\ d # 0 => quiet = Period
  /\ now' = now + 1
  /\ dev' = dev + d
  /\ quiet' = IF d # 0 THEN 0 ELSE IF quiet < Period THEN quiet + 1 ELSE quiet
  /\ query' = IF d # 0 /\ query.at # "idle" THEN [query EXCEPT !.slack = @ + 1] ELSE query
  /\ UNCHANGED <<skew, est, count, reader>>

\* somebody sets the wall clock
Step(s) ==
  /\ s # skew
  /\ count.steps < MaxSteps
  /\ count' = [count EXCEPT !.steps = @ + 1]
  /\ skew' = s
  /\ est' = Stepped(est)
  /\ reader' = Stepped(reader)
  /\ query' = IF query.at = "idle" THEN query ELSE Stepped(query)
  /\ UNCHANGED <<now, dev, quiet>>

Next ==
  \/ Send
  \/ \E e \in ServerErrors : ServerReceive(e) \/ ServerTransmit(e)
  \/ Receive
  \/ ReceiveShort
  \/ QueryError
  \/ CopyEstimate
  \/ ReturnInterval
  \/ \E d \in {-1, 0, 1} : Advance(d)
  \/ \E s \in Skews : Step(s)

Spec == Init /\ [][Next]_vars

-----------------------------------------------------------------------------
\* the truncations of the times, the offset and the delay lose a unit between
\* them, and another is lost while a unit of drift is not over yet
Rounding == 2

Contains(i, slack) ==
  i.Earliest - Rounding - slack <= now /\ now <= i.Latest + Rounding + slack

(* truetime/doc.go: the interval is "guaranteed to contain true global     *)
(* time".  Whatever the network's delays, the server's error within its    *)
(* dispersion, the drift within driftPPM, failed queries, and updates      *)
(* between the two halves of Now, the interval that Now returns contains   *)
(* the true time, up to the truncations and the drift within the query.    *)
(* The provisos are what the code does not handle: a step of the wall      *)
(* clock since the query began, a short response, the end of the NTP era,  *)
(* and a product that overflows.                                           *)
IntervalContainsTrueTime ==
  reader.trust = "ok" /\ ~Overflows(reader) =>
    Contains(IntervalOf(reader), reader.slack)

(* Whatever happens to the wall clock, and whatever part of the response   *)
(* is missing, the interval that Now returns is one: Earliest is not after *)
(* Latest, unless the NTP era ends within the query, the product overflows *)
(* or the host drifts within the query.                                    *)
IntervalNotInverted ==
  reader.trust \notin {"none", "era"} /\ ~Overflows(reader) /\ reader.slack = 0 =>
    IntervalOf(reader).Earliest <= IntervalOf(reader).Latest

Width(e) == IntervalOf(e).Latest - IntervalOf(e).Earliest

(* truetime/interval.go: the width is the uncertainty, which CommitWait    *)
(* sits out.  It is never more than its causes explain: twice the          *)
(* dispersion, once for the server's and once for its errors in the two    *)
(* timestamps, half of the time that the query really took, and driftPPM   *)
(* of the time since.  A step of the wall clock at any moment, failed      *)
(* queries and the interleaving of queries and Now add nothing; the        *)
(* provisos are a short response, the end of the NTP era, a product that   *)
(* overflows, and the drift within the query.                              *)
WidthIsExplained ==
  reader.trust \in {"ok", "stepped"} /\ ~Overflows(reader) =>
    Width(reader) <= 4 * RootDisp + reader.took + reader.slack + 1
                     + 2 * ((mono - reader.last) \div Period)

(* truetime/doc.go:21, "Intervals widen between queries": as long as no    *)
(* query succeeds the uncertainty never shrinks, even when somebody sets   *)
(* the wall clock back, until the product overflows.                       *)
WidensBetweenQueries ==
  [][est # None /\ est' \in {est, Stepped(est)} /\ ~Overflows(est)' =>
       Width(est)' >= Width(est)]_vars

(* ntp_source.go:157: "ErrShortNTPResponse is returned when an NTP         *)
(* response is malformed".  Then no interval would rest on a short         *)
(* response.  Violated: the error is returned nowhere, and when both       *)
(* timestamps are missing the interval is off by the time since 1900.      *)
MalformedIsHarmless ==
  reader.trust = "short" /\ ~Overflows(reader) =>
    Contains(IntervalOf(reader), reader.slack)
=============================================================================
