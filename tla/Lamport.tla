------------------------------ MODULE Lamport ------------------------------
(***************************************************************************)
(* lamport/clock.go: one Clock per process, a uint64 counter behind a      *)
(* mutex.  Every method holds the mutex from its first to its last         *)
(* statement, so a method is one atomic step.                              *)
(***************************************************************************)
EXTENDS Causality

CONSTANTS
  MaxUint64,   \* largest counter value (2^64 - 1 in the code)
  ResetTo      \* values a caller passes to Reset

ASSUME MaxUint64Assumption == MaxUint64 \in Nat
ASSUME ResetToAssumption == ResetTo \subseteq 0..MaxUint64

VARIABLES
  counter,     \* counter[p]: the counter of p's Clock
  disk,        \* disk[p]: the value of Now that p's owner saved last
  integrity    \* history: has a counter been displaced, and which way?

vars == <<counter, disk, integrity, history>>

Counter == 0..MaxUint64

-----------------------------------------------------------------------------
(* The arithmetic of the methods.                                          *)

\* Go's builtin max
MaxOf(a, b) == IF a >= b THEN a ELSE b

\* mutant of Inc: a counter that never wraps
IncUnbounded(c) == c + 1

\* c.counter++ on a uint64 that wraps
Inc(c) == IF c = MaxUint64 THEN 0 ELSE c + 1

\* mutants of ReceiveValue: the remote stamp is ignored, and the counter
\* moves twice
ReceiveLocalOnly(c, remote) == Inc(c)
ReceiveTwice(c, remote) == Inc(Inc(MaxOf(c, remote)))

\* the new counter after Receive(remote)
ReceiveValue(c, remote) == Inc(MaxOf(c, remote))

(***************************************************************************)
(* The owner of a clock may displace the counter: an increment past        *)
(* MaxUint64 wraps, NewAt resumes from a saved value that may be old, and  *)
(* Reset takes any value.  integrity remembers the worst displacement so   *)
(* far: "clean" (none), "raised" (only upwards) or "lowered".              *)
(***************************************************************************)
Displace(old, new) ==
  IF integrity = "lowered" \/ new < old THEN "lowered"
  ELSE IF new > old THEN "raised" ELSE integrity

IncrementFrom(c) == IF c = MaxUint64 THEN "lowered" ELSE integrity

-----------------------------------------------------------------------------
Init ==
  /\ HistoryInit
  /\ counter = [p \in Node |-> 0]
  /\ disk = [p \in Node |-> 0]
  /\ integrity = "clean"

Tick(p) ==
  /\ LocalEvent(p, Inc(counter[p]))
  /\ counter' = [counter EXCEPT ![p] = Inc(counter[p])]
  /\ integrity' = IncrementFrom(counter[p])
  /\ UNCHANGED disk

Send(p) ==
  /\ SendEvent(p, Inc(counter[p]))
  /\ counter' = [counter EXCEPT ![p] = Inc(counter[p])]
  /\ integrity' = IncrementFrom(counter[p])
  /\ UNCHANGED disk

Receive(p, m) ==
  LET v == ReceiveValue(counter[p], m.stamp) IN
  /\ ReceiveEvent(p, m, v)
  /\ counter' = [counter EXCEPT ![p] = v]
  /\ integrity' = IncrementFrom(MaxOf(counter[p], m.stamp))
  /\ UNCHANGED disk

\* Now changes nothing in the clock; its caller saves the value
Now(p) ==
  /\ disk' = [disk EXCEPT ![p] = counter[p]]
  /\ UNCHANGED <<counter, integrity, history>>

\* a crash of p, and a restart from the saved value
NewAt(p) ==
  /\ counter' = [counter EXCEPT ![p] = disk[p]]
  /\ integrity' = Displace(counter[p], disk[p])
  /\ UNCHANGED <<disk, history>>

Reset(p, to) ==
  /\ counter' = [counter EXCEPT ![p] = to]
  /\ integrity' = Displace(counter[p], to)
  /\ UNCHANGED <<disk, history>>

Next ==
  \E p \in Node :
    \/ Tick(p)
    \/ Send(p)
    \/ \E m \in net : Receive(p, m)
    \/ Now(p)
    \/ NewAt(p)
    \/ \E to \in ResetTo : Reset(p, to)

Spec == Init /\ [][Next]_vars

-----------------------------------------------------------------------------
(* Every variable has its type. *)
TypeOK ==
  /\ HistoryTypeOK(Counter)
  /\ counter \in [Node -> Counter]
  /\ disk \in [Node -> Counter]
  /\ integrity \in {"clean", "raised", "lowered"}

(* lamport/doc.go: if event a causally precedes event b, then              *)
(* timestamp(a) < timestamp(b).  It survives lost, late and repeated       *)
(* messages, restarts and Reset, as long as no counter was ever moved      *)
(* backwards (by a stale restart, a Reset to a smaller value or a wrap).   *)
CausalOrder ==
  integrity # "lowered" =>
    \A e, f \in log : HappensBefore(e, f) => e.stamp < f.stamp

(* The stamps are no larger than causality demands: in a history where no  *)
(* counter was displaced, an event's stamp is 1, or some event that        *)
(* happened before it has the stamp just below.  A stamp is therefore the  *)
(* length of the longest causal chain that ends in its event.              *)
TightStamps ==
  integrity = "clean" =>
    \A e \in log : \/ e.stamp = 1
                   \/ \E d \in log : /\ HappensBefore(d, e)
                                     /\ e.stamp = d.stamp + 1
=============================================================================
