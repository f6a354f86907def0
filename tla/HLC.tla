-------------------------------- MODULE HLC --------------------------------
(***************************************************************************)
(* hlc/clock.go: one hybrid logical clock per process, and under each the  *)
(* wall clock of internal/wallclock, which anybody may move forwards or    *)
(* backwards between two calls.  Every method of Clock holds its mutex     *)
(* throughout and reads the wall clock once, so a method is one step.      *)
(***************************************************************************)
EXTENDS Causality

CONSTANTS
  MaxInt64,     \* largest wall time (2^63 - 1 in the code)
  MaxUint32,    \* largest logical counter (2^32 - 1 in the code)
  MaxDrift,     \* the maxDrift of every clock; 0 disables the check
  Instants,     \* the readings a wall clock may show
  RogueStamps   \* timestamps that senders outside the system invent

Int64  == -(MaxInt64 + 1) .. MaxInt64
Uint32 == 0..MaxUint32

Timestamp == [WallTime : Int64, Logical : Uint32]

ASSUME WidthAssumption == MaxInt64 \in Nat /\ MaxUint32 \in Nat
ASSUME MaxDriftAssumption == MaxDrift \in 0..MaxInt64
ASSUME InstantsAssumption == Instants \subseteq Int64
ASSUME RogueAssumption == RogueStamps \subseteq Timestamp

VARIABLES
  state,        \* state[p]: Clock.state of p
  wall,         \* wall[p]: what p's wall clock shows
  peak,         \* history, peak[p]: the latest reading p has used, at least 0
  rejected,     \* history: the last Receive's refusal, or Accepted
  integrity     \* history: what the stamps can still be trusted for

vars == <<state, wall, peak, rejected, integrity, history>>

-----------------------------------------------------------------------------
(* The arithmetic of the methods.                                          *)

Zero == [WallTime |-> 0, Logical |-> 0]

MaxOf(a, b) == IF a >= b THEN a ELSE b

\* mutant of Inc32: a counter that never wraps
IncUnbounded(c) == c + 1

\* c + 1 on a uint32 that wraps
Inc32(c) == IF c = MaxUint32 THEN 0 ELSE c + 1

\* pt + int64(maxDrift) on an int64 that wraps
Add64(pt, d) ==
  IF pt + d > MaxInt64 THEN pt + d - 2 * (MaxInt64 + 1) ELSE pt + d

Less(a, b) ==
  \/ a.WallTime < b.WallTime
  \/ a.WallTime = b.WallTime /\ a.Logical < b.Logical

\* mutants of Advance: forgets newL = max(pt, newL); a second event at one
\* wall time moves the wall time on
AdvanceToWall(s, pt) ==
  [WallTime |-> pt, Logical |-> IF pt = s.WallTime THEN Inc32(s.Logical) ELSE 0]

AdvanceTicks(s, pt) ==
  IF pt > s.WallTime THEN [WallTime |-> pt, Logical |-> 0]
  ELSE [WallTime |-> s.WallTime + 1, Logical |-> 0]

\* advanceLocked: the local-event rule
Advance(s, pt) ==
  LET newL == MaxOf(pt, s.WallTime) IN
  [WallTime |-> newL,
   Logical |-> IF newL = s.WallTime THEN Inc32(s.Logical) ELSE 0]

MergedWall(s, remote, pt) == MaxOf(pt, MaxOf(remote.WallTime, s.WallTime))

\* mutants of MergedLogical: the tie ignores the remote counter; a fresh
\* wall time keeps the old counter
TieIgnoresRemote(s, remote, pt) ==
  LET newL == MergedWall(s, remote, pt) IN
  CASE newL = s.WallTime -> Inc32(s.Logical)
    [] newL # s.WallTime /\ newL = remote.WallTime -> Inc32(remote.Logical)
    [] OTHER -> 0
FreshKeepsCounter(s, remote, pt) ==
  LET newL == MergedWall(s, remote, pt) IN
  CASE newL = s.WallTime /\ newL = remote.WallTime ->
         Inc32(MaxOf(s.Logical, remote.Logical))
    [] newL # s.WallTime /\ newL = remote.WallTime -> Inc32(remote.Logical)
    [] OTHER -> Inc32(s.Logical)

\* the counter that Receive chooses, from whichever of the local and the
\* remote timestamp is at the new wall time
MergedLogical(s, remote, pt) ==
  LET newL == MergedWall(s, remote, pt) IN
  CASE newL = s.WallTime /\ newL = remote.WallTime ->
         Inc32(MaxOf(s.Logical, remote.Logical))
    [] newL = s.WallTime /\ newL # remote.WallTime -> Inc32(s.Logical)
    [] newL # s.WallTime /\ newL = remote.WallTime -> Inc32(remote.Logical)
    [] OTHER -> 0

\* mutant of Merge: carries into the wall time
MergeCarries(s, remote, pt) ==
  [WallTime |-> MergedWall(s, remote, pt) + 1, Logical |-> 0]

\* the receive rule
Merge(s, remote, pt) ==
  [WallTime |-> MergedWall(s, remote, pt),
   Logical  |-> MergedLogical(s, remote, pt)]

\* mutant of Rejects: the check is missing
NeverRejects(remote, pt) == FALSE

Rejects(remote, pt) ==
  MaxDrift > 0 /\ remote.WallTime > Add64(pt, MaxDrift)

(***************************************************************************)
(* integrity is "clean" until a clock takes over an invented timestamp     *)
(* ("tainted"), increments a counter that is at its limit, or restarts     *)
(* without its saved timestamp ("void").                                   *)
(*                                                                         *)
(* rejected holds the reading at which a timestamp was refused, and        *)
(* whether that timestamp came from a process, before any of this.         *)
(***************************************************************************)
AtLimit(inputs, newL) ==
  \E s \in inputs : s.WallTime = newL /\ s.Logical = MaxUint32

Accepted == [pt |-> 0, due |-> "nobody"]
Refusal(p, sender) ==
  [pt |-> wall[p], due |-> IF integrity = "clean" THEN sender ELSE "unknown"]

-----------------------------------------------------------------------------
Init ==
  /\ HistoryInit
  /\ state = [p \in Node |-> Zero]
  /\ wall \in [Node -> Instants]
  /\ peak = [p \in Node |-> 0]
  /\ rejected = Accepted
  /\ integrity = "clean"

\* what a call does that ends with state s, from the timestamps in inputs
Update(p, s, inputs) ==
  /\ state' = [state EXCEPT ![p] = s]
  /\ peak' = [peak EXCEPT ![p] = MaxOf(peak[p], wall[p])]
  /\ integrity' = IF AtLimit(inputs, s.WallTime) THEN "void" ELSE integrity
  /\ UNCHANGED wall

Now(p) ==
  LET s == Advance(state[p], wall[p]) IN
  /\ LocalEvent(p, s)
  /\ Update(p, s, {state[p]})
  /\ UNCHANGED rejected

Send(p) ==
  LET s == Advance(state[p], wall[p]) IN
  /\ SendEvent(p, s)
  /\ Update(p, s, {state[p]})
  /\ UNCHANGED rejected

Receive(p, m) ==
  LET s == Merge(state[p], m.stamp, wall[p]) IN
  /\ ~Rejects(m.stamp, wall[p])
  /\ ReceiveEvent(p, m, s)
  /\ Update(p, s, {state[p], m.stamp})
  /\ rejected' = Accepted

\* a message of a misbehaving sender: it has no causal past
ReceiveRogue(p, remote) ==
  LET s == Merge(state[p], remote, wall[p]) IN
  /\ ~Rejects(remote, wall[p])
  /\ LocalEvent(p, s)
  /\ state' = [state EXCEPT ![p] = s]
  /\ peak' = [peak EXCEPT ![p] = MaxOf(peak[p], wall[p])]
  /\ integrity' = IF integrity = "void" \/ AtLimit({state[p], remote}, s.WallTime)
                  THEN "void" ELSE "tainted"
  /\ rejected' = Accepted
  /\ UNCHANGED wall

\* the error return: the message is dropped
ReceiveError(p, remote, sender) ==
  /\ Rejects(remote, wall[p])
  /\ rejected' = Refusal(p, sender)
  /\ UNCHANGED <<state, wall, peak, integrity, history>>

(***************************************************************************)
(* A crash of p.  The package has no constructor that takes a timestamp:   *)
(* the owner makes a new Clock and hands it the one that p saved, through  *)
(* Receive, which may refuse it.                                           *)
(***************************************************************************)
Restart(p) ==
  LET s == Merge(Zero, state[p], wall[p]) IN
  /\ ~Rejects(state[p], wall[p])
  /\ LocalEvent(p, s)
  /\ Update(p, s, {Zero, state[p]})
  /\ rejected' = Accepted

RestartError(p) ==
  /\ Rejects(state[p], wall[p])
  /\ state' = [state EXCEPT ![p] = Zero]
  /\ rejected' = Refusal(p, "process")
  /\ integrity' = "void"
  /\ UNCHANGED <<wall, peak, history>>

\* Set, Advance, Step and Reverse of the wall clock, or an NTP correction
SetWall(p, t) ==
  /\ wall[p] # t
  /\ wall' = [wall EXCEPT ![p] = t]
  /\ UNCHANGED <<state, peak, rejected, integrity, history>>

Next ==
  \E p \in Node :
    \/ Now(p)
    \/ Send(p)
    \/ \E m \in net : Receive(p, m) \/ ReceiveError(p, m.stamp, "process")
    \/ \E remote \in RogueStamps :
         ReceiveRogue(p, remote) \/ ReceiveError(p, remote, "unknown")
    \/ Restart(p)
    \/ RestartError(p)
    \/ \E t \in Instants : SetWall(p, t)

Spec == Init /\ [][Next]_vars

-----------------------------------------------------------------------------
(* Every variable has its type. *)
TypeOK ==
  /\ HistoryTypeOK(Timestamp)
  /\ state \in [Node -> Timestamp]
  /\ wall \in [Node -> Instants]
  /\ peak \in [Node -> 0..MaxInt64]
  /\ rejected \in [pt : Int64, due : {"nobody", "process", "unknown"}]
  /\ integrity \in {"clean", "tainted", "void"}

(* hlc/doc.go, "Causal": if event a precedes event b, locally or by send   *)
(* and receive, then HLC(a) < HLC(b), whatever the wall clocks do and      *)
(* whatever invented timestamps the clocks have accepted, as long as no    *)
(* counter has wrapped and no restart lost its saved timestamp.            *)
CausalOrder ==
  integrity # "void" =>
    \A e, f \in log : HappensBefore(e, f) => Less(e.stamp, f.stamp)

(* hlc/doc.go, "Monotonic": a clock's output never goes backward, even if  *)
(* the wall clock is stepped backward, under the same proviso; this        *)
(* includes the first timestamp after a restart.                           *)
Monotonic ==
  [][integrity' # "void" =>
       \A p \in Node : state'[p] = state[p] \/ Less(state[p], state'[p])]_vars

(* hlc/doc.go, "Drift protection": with a maxDrift, no sender can move a   *)
(* clock further than maxDrift beyond the latest reading of its own wall   *)
(* clock.                                                                  *)
DriftBound ==
  MaxDrift > 0 => \A p \in Node : state[p].WallTime <= peak[p] + MaxDrift

(* hlc/doc.go, "Close to physical time": as long as nobody invents a       *)
(* timestamp, no clock is ahead of every reading: some process has used a  *)
(* reading of its wall clock that is at least as late.                     *)
WallTimeWitnessed ==
  integrity = "clean" =>
    \A p \in Node : \E q \in Node : state[p].WallTime <= peak[q]

(* Counters grow only along causal chains: a timestamp with a counter is   *)
(* the direct successor of the timestamp of an event that happened before  *)
(* it (or of the initial Zero), so the counter is at most the number of    *)
(* events of that wall time in its past.                                   *)
TightLogical ==
  integrity = "clean" =>
    \A e \in log :
      \/ e.stamp.Logical = 0
      \/ e.stamp = [WallTime |-> 0, Logical |-> 1]
      \/ \E d \in log : /\ HappensBefore(d, e)
                        /\ d.stamp.WallTime = e.stamp.WallTime
                        /\ e.stamp.Logical = d.stamp.Logical + 1

(* NewWithMaxDrift's comment: maxDrift is "large enough to absorb expected *)
(* [...] skew".  A timestamp of a process, whatever chain of messages,     *)
(* bursts of events and restarts it has come through, is refused only      *)
(* when the receiver's wall clock is more than maxDrift behind a reading   *)
(* that some process has used, so clocks within maxDrift of each other     *)
(* never refuse each other; or when the sum of the check overflows.        *)
RefusesOnlyLaggards ==
  rejected.due = "process" =>
    \/ \E q \in Node : peak[q] - rejected.pt > MaxDrift
    \/ rejected.pt + MaxDrift > MaxInt64
=============================================================================
