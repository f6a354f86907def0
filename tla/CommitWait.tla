----------------------------- MODULE CommitWait -----------------------------
(***************************************************************************)
(* truetime/: transactions that run WithCommitWait (commit_wait.go), each  *)
(* against a Clock (clock.go) whose UncertaintySource shows an Interval    *)
(* (interval.go).  Each transaction has a source of its own here: the      *)
(* transactions that share a Clock are the ones whose sources always show  *)
(* the same interval.                                                      *)
(*                                                                         *)
(* The source keeps the promise of the UncertaintySource interface, that   *)
(* the interval contains the current global time, and no other: from one   *)
(* sample to the next an interval may shift, shrink or widen.  The clock   *)
(* is read, and the timer and the context are consulted, in separate       *)
(* steps, between which time passes and other transactions run.            *)
(***************************************************************************)
EXTENDS Integers

CONSTANTS
  Txn,        \* the transactions
  MaxTime,    \* bound: true time stops here
  MaxEps,     \* bound: how far an end of an interval is from the true time
  Cap,        \* longest sleep of the loop (100 ms in the code)
  Floor       \* shortest sleep of the loop (100 microseconds in the code)

ASSUME TimeAssumption == MaxTime \in Nat /\ MaxEps \in Nat
ASSUME SleepAssumption == Cap \in Nat /\ Floor \in Nat \ {0} /\ Floor <= Cap

VARIABLES
  now,        \* the current global time
  source,     \* source[t]: the interval that t's clock shows
  pc,         \* pc[t]: where t is in WithCommitWait
  commitAt,   \* commitAt[t]: the commit timestamp, once t has picked it
  wakeAt,     \* wakeAt[t]: when the timer of the loop fires
  done,       \* done[t]: is t's context cancelled?
  before      \* history, before[t]: transactions visible when t started

vars == <<now, source, pc, commitAt, wakeAt, done, before>>

-----------------------------------------------------------------------------
(* Interval.                                                               *)

Interval == [Earliest : Int, Latest : Int]

Contains(i, t) == i.Earliest <= t /\ t <= i.Latest

\* Interval.Definitely, which its comment (interval.go:35) calls "the predicate
\* the commit-wait loop polls on".  The loop does not: its test is strict.  As
\* a mutant of After, Definitely lets transactions tie.
Definitely(i, t) == i.Earliest >= t

\* Clock.After, and the exit test of the loop
After(i, t) == i.Earliest > t

\* mutant of PickFrom: the lower end
PickEarliest(i) == i.Earliest

\* the commit timestamp: clock.Now().Latest
PickFrom(i) == i.Latest

\* mutant of Shift: only one end moves
ShiftLatest(i, d) == [Earliest |-> i.Earliest, Latest |-> i.Latest + d]

\* both ends of an interval move forward by d
Shift(i, d) == [Earliest |-> i.Earliest + d, Latest |-> i.Latest + d]

\* the intervals that keep the source's promise at time t
ValidAt(t) ==
  {i \in [Earliest : (t - MaxEps)..t, Latest : t..(t + MaxEps)] : Contains(i, t)}

-----------------------------------------------------------------------------
(* The sleep of the loop.                                                  *)

Sleep(gap) == IF gap > Cap THEN Cap ELSE IF gap < Floor THEN Floor ELSE gap

\* bound: later commit timestamps might not pass before time stops
LastCommit == MaxTime - MaxEps - Cap - 1

-----------------------------------------------------------------------------
Init ==
  /\ now = 0
  /\ source \in [Txn -> ValidAt(0)]
  /\ pc = [t \in Txn |-> "idle"]
  /\ commitAt = [t \in Txn |-> 0]
  /\ wakeAt = [t \in Txn |-> 0]
  /\ done = [t \in Txn |-> FALSE]
  /\ before = [t \in Txn |-> {}]

Goto(t, l) == pc' = [pc EXCEPT ![t] = l]

Visible(t) == pc[t] = "visible"

\* WithCommitWait is called and runs fn
Start(t) ==
  /\ pc[t] = "idle"
  /\ Goto(t, "fn")
  /\ before' = [before EXCEPT ![t] = {u \in Txn : Visible(u)}]
  /\ UNCHANGED <<now, source, commitAt, wakeAt, done>>

\* fn fails, and so does the transaction
FnError(t) ==
  /\ pc[t] = "fn"
  /\ Goto(t, "failed")
  /\ UNCHANGED <<now, source, commitAt, wakeAt, done, before>>

\* fn succeeds, and the commit timestamp is picked
Pick(t) ==
  /\ pc[t] = "fn"
  /\ PickFrom(source[t]) <= LastCommit
  /\ commitAt' = [commitAt EXCEPT ![t] = PickFrom(source[t])]
  /\ Goto(t, "check")
  /\ UNCHANGED <<now, source, wakeAt, done, before>>

\* CommitWait's first test
Check(t) ==
  /\ pc[t] = "check"
  /\ Goto(t, IF After(source[t], commitAt[t]) THEN "visible" ELSE "loop")
  /\ UNCHANGED <<now, source, commitAt, wakeAt, done, before>>

\* the head of the loop: a sample that is late enough ends the wait
Return(t) ==
  /\ pc[t] = "loop"
  /\ After(source[t], commitAt[t])
  /\ Goto(t, "visible")
  /\ UNCHANGED <<now, source, commitAt, wakeAt, done, before>>

\* any other sample starts a timer
StartTimer(t) ==
  /\ pc[t] = "loop"
  /\ ~After(source[t], commitAt[t])
  /\ wakeAt' = [wakeAt EXCEPT ![t] = now + Sleep(commitAt[t] - source[t].Earliest)]
  /\ Goto(t, "select")
  /\ UNCHANGED <<now, source, commitAt, done, before>>

\* mutant of TimerFires: the wakeup is lost when nobody waits for it yet
TimerMissed(t) ==
  /\ pc[t] = "select"
  /\ now = wakeAt[t]
  /\ Goto(t, "loop")
  /\ UNCHANGED <<now, source, commitAt, wakeAt, done, before>>

\* case <-timer.C, at the earliest when the timer is due
TimerFires(t) ==
  /\ pc[t] = "select"
  /\ now >= wakeAt[t]
  /\ Goto(t, "loop")
  /\ UNCHANGED <<now, source, commitAt, wakeAt, done, before>>

\* case <-ctx.Done(); select takes either case when both are ready
ContextDone(t) ==
  /\ pc[t] = "select"
  /\ done[t]
  /\ Goto(t, "cancelled")
  /\ UNCHANGED <<now, source, commitAt, wakeAt, done, before>>

\* the caller cancels the context, at any time
Cancel(t) ==
  /\ ~done[t]
  /\ done' = [done EXCEPT ![t] = TRUE]
  /\ UNCHANGED <<now, source, pc, commitAt, wakeAt, before>>

\* time passes, and the sources follow it (FakeSource.Advance)
Advance ==
  /\ now < MaxTime
  /\ now' = now + 1
  /\ source' = [t \in Txn |-> Shift(source[t], 1)]
  /\ UNCHANGED <<pc, commitAt, wakeAt, done, before>>

\* a source learns something, or loses confidence (FakeSource.Set)
Set(t, i) ==
  /\ source[t] # i
  /\ source' = [source EXCEPT ![t] = i]
  /\ UNCHANGED <<now, pc, commitAt, wakeAt, done, before>>

\* the steps that t's goroutine takes by itself
Run(t) == Check(t) \/ Return(t) \/ StartTimer(t) \/ TimerFires(t) \/ ContextDone(t)

Next ==
  \/ Advance
  \/ \E t \in Txn :
       \/ Start(t)
       \/ FnError(t)
       \/ Pick(t)
       \/ Run(t)
       \/ Cancel(t)
       \/ \E i \in ValidAt(now) : Set(t, i)

Spec == Init /\ [][Next]_vars

\* time does not stop, and the scheduler runs a goroutine that can run
Fairness == WF_vars(Advance) /\ \A t \in Txn : WF_vars(Run(t))

FairSpec == Spec /\ Fairness

-----------------------------------------------------------------------------
Labels == {"idle", "fn", "check", "loop", "select", "visible", "cancelled", "failed"}

(* Every variable has its type, and the sources keep their promise. *)
TypeOK ==
  /\ now \in 0..MaxTime
  /\ source \in [Txn -> Interval]
  /\ \A t \in Txn : source[t] \in ValidAt(now)
  /\ pc \in [Txn -> Labels]
  /\ commitAt \in [Txn -> Int]
  /\ wakeAt \in [Txn -> Int]
  /\ done \in [Txn -> BOOLEAN]
  /\ before \in [Txn -> SUBSET Txn]

Picked(t) == pc[t] \in {"check", "loop", "select", "visible", "cancelled"}

(* truetime/doc.go: if transaction T1 commits before T2 starts in real     *)
(* time, then T1's commit timestamp is strictly less than T2's, whatever   *)
(* the clocks of the two show.                                             *)
ExternalConsistency ==
  \A t, u \in Txn :
    u \in before[t] /\ Picked(t) => commitAt[u] < commitAt[t]

(* WithCommitWait's comment: when it returns nil, the commit timestamp is  *)
(* in the past everywhere, that is, before the true time.                  *)
CommittedInPast == \A t \in Txn : Visible(t) => commitAt[t] < now

(* CommitWait ends: a transaction that has picked its timestamp becomes    *)
(* visible or is cancelled, however the intervals move meanwhile.          *)
WaitEnds ==
  \A t \in Txn :
    pc[t] \in {"check", "loop", "select"} ~> pc[t] \in {"visible", "cancelled"}

(* commit_wait.go:12: after CommitWait(s) returns, any future observer     *)
(* that samples the clock sees an interval whose Earliest is strictly      *)
(* greater than s.  Violated: a source that has lost confidence since may  *)
(* show an interval that reaches back to s.                                *)
ObserversSeeLater ==
  \A t \in Txn : Visible(t) => source[t].Earliest > commitAt[t]
=============================================================================
