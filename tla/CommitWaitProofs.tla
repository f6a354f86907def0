-------------------------- MODULE CommitWaitProofs --------------------------
(***************************************************************************)
(* External consistency of CommitWait, for any number of transactions and  *)
(* clocks, any uncertainty and any sleep.                                  *)
(***************************************************************************)
EXTENDS CommitWait, TLAPS

(***************************************************************************)
(* The inductive invariant.  Only visible transactions are observed, a     *)
(* visible one has its timestamp in the past, and the promise of the       *)
(* sources, which puts a fresh timestamp at or after the present.          *)
(***************************************************************************)
SourcesContainNow == \A t \in Txn : Contains(source[t], now)

ObservedAreVisible == \A t, u \in Txn : u \in before[t] => Visible(u)

IInv ==
  /\ TypeOK
  /\ SourcesContainNow
  /\ ObservedAreVisible
  /\ CommittedInPast
  /\ ExternalConsistency

(* ValidAt is the set of the intervals around t that contain t. *)
LEMMA ValidContains ==
  ASSUME NEW t \in Int, NEW i \in ValidAt(t)
  PROVE  i \in Interval /\ Contains(i, t)
BY TimeAssumption DEF ValidAt, Interval

(* Time that passes, and an interval that follows it. *)
LEMMA ShiftValid ==
  ASSUME NEW t \in Int, NEW i \in ValidAt(t)
  PROVE  Shift(i, 1) \in ValidAt(t + 1)
BY TimeAssumption DEF ValidAt, Shift, Contains

(* The inductive invariant holds initially. *)
LEMMA InitIInv == Init => IInv
<1> SUFFICES ASSUME Init PROVE IInv
  OBVIOUS
<1> USE DEF Init
<1>1. \A t \in Txn : source[t] \in Interval /\ Contains(source[t], now)
  <2>1. \A i \in ValidAt(0) : i \in Interval /\ Contains(i, 0)
    BY ValidContains
  <2>2. now = 0 /\ \A t \in Txn : source[t] \in ValidAt(0)
    OBVIOUS
  <2> QED
    BY <2>1, <2>2
<1>2. TypeOK
  <2>1. source \in [Txn -> Interval]
    BY <1>1
  <2> QED
    BY <2>1, TimeAssumption DEF TypeOK, Labels
<1>3. SourcesContainNow
  BY <1>1 DEF SourcesContainNow
<1>4. ObservedAreVisible /\ CommittedInPast /\ ExternalConsistency
  BY DEF ObservedAreVisible, CommittedInPast, ExternalConsistency, Visible, Picked
<1> QED
  BY <1>2, <1>3, <1>4 DEF IInv

(* Every step of every action preserves the inductive invariant. *)
LEMMA NextIInv == IInv /\ [Next]_vars => IInv'
<1> SUFFICES ASSUME IInv, [Next]_vars PROVE IInv'
  OBVIOUS
<1> USE DEF IInv
<1>1. CASE Advance
  <2>1. TypeOK'
    <3>1. \A t \in Txn : Shift(source[t], 1) \in ValidAt(now + 1)
      BY ShiftValid DEF TypeOK
    <3> QED
      BY <1>1, <3>1, TimeAssumption DEF Advance, TypeOK, Interval, Shift
  <2>2. SourcesContainNow'
    BY <1>1 DEF Advance, SourcesContainNow, Contains, Shift, TypeOK, Interval
  <2>3. ObservedAreVisible' /\ CommittedInPast' /\ ExternalConsistency'
    BY <1>1 DEF Advance, ObservedAreVisible, CommittedInPast,
                ExternalConsistency, Visible, Picked, TypeOK
  <2> QED
    BY <2>1, <2>2, <2>3
<1>2. ASSUME NEW t \in Txn, Start(t) PROVE IInv'
  <2>1. TypeOK'
    BY <1>2 DEF Start, Goto, TypeOK, Labels
  <2>2. SourcesContainNow' /\ CommittedInPast'
    BY <1>2 DEF Start, Goto, TypeOK, SourcesContainNow, CommittedInPast, Visible
  <2>3. ObservedAreVisible' /\ ExternalConsistency'
    BY <1>2 DEF Start, Goto, TypeOK, ObservedAreVisible, ExternalConsistency,
                Visible, Picked
  <2> QED
    BY <2>1, <2>2, <2>3
<1>3. ASSUME NEW t \in Txn, FnError(t) PROVE IInv'
  BY <1>3 DEF FnError, Goto, TypeOK, Labels, SourcesContainNow,
              ObservedAreVisible, CommittedInPast, ExternalConsistency,
              Visible, Picked
<1>4. ASSUME NEW t \in Txn, Pick(t) PROVE IInv'
  <2>1. TypeOK'
    BY <1>4 DEF Pick, Goto, PickFrom, TypeOK, Labels, Interval
  <2>2. commitAt'[t] >= now /\ commitAt'[t] \in Int
    BY <1>4 DEF Pick, PickFrom, SourcesContainNow, Contains, TypeOK, Interval
  <2>3. \A u \in Txn : u # t => commitAt'[u] = commitAt[u] /\ pc'[u] = pc[u]
    BY <1>4 DEF Pick, Goto, TypeOK
  <2>4. ~Visible(t) /\ ~Visible(t)'
    BY <1>4 DEF Pick, Goto, TypeOK, Visible
  <2>5. UNCHANGED <<now, source, before>>
    BY <1>4 DEF Pick
  <2>6. SourcesContainNow'
    BY <2>5 DEF SourcesContainNow
  <2>7. ObservedAreVisible'
    BY <2>3, <2>4, <2>5 DEF ObservedAreVisible, Visible
  <2>8. CommittedInPast'
    BY <2>3, <2>4, <2>5 DEF CommittedInPast, Visible
  <2>9. ExternalConsistency'
    <3> SUFFICES ASSUME NEW x \in Txn, NEW u \in Txn, u \in before'[x], Picked(x)'
                 PROVE  commitAt'[u] < commitAt'[x]
      BY DEF ExternalConsistency
    <3>1. u # t /\ Visible(u) /\ commitAt[u] < now
      BY <2>4, <2>5 DEF ObservedAreVisible, CommittedInPast
    <3>2. CASE x = t
      BY <3>1, <3>2, <2>2, <2>3 DEF TypeOK
    <3>3. CASE x # t
      BY <3>1, <3>3, <2>3, <2>5 DEF ExternalConsistency, Picked
    <3> QED
      BY <3>2, <3>3
  <2> QED
    BY <2>1, <2>6, <2>7, <2>8, <2>9
<1>5. ASSUME NEW t \in Txn, Check(t) \/ Return(t) PROVE IInv'
  <2>1. UNCHANGED <<now, source, commitAt, wakeAt, done, before>>
    BY <1>5 DEF Check, Return
  <2>2. /\ pc[t] \in {"check", "loop"}
        /\ \/ pc' = [pc EXCEPT ![t] = "loop"]
           \/ After(source[t], commitAt[t]) /\ pc' = [pc EXCEPT ![t] = "visible"]
    BY <1>5 DEF Check, Return, Goto
  <2>3. TypeOK' /\ SourcesContainNow' /\ ObservedAreVisible'
    BY <2>1, <2>2 DEF TypeOK, Labels, SourcesContainNow, ObservedAreVisible, Visible
  <2>4. CommittedInPast'
    <3>1. After(source[t], commitAt[t]) => commitAt[t] < now
      BY DEF After, SourcesContainNow, Contains, TypeOK, Interval
    <3> QED
      BY <2>1, <2>2, <3>1 DEF CommittedInPast, Visible, TypeOK
  <2>5. ExternalConsistency'
    BY <2>1, <2>2 DEF ExternalConsistency, Picked, TypeOK
  <2> QED
    BY <2>3, <2>4, <2>5
<1>6. ASSUME NEW t \in Txn, StartTimer(t) PROVE IInv'
  <2>1. TypeOK'
    <3>1. Sleep(commitAt[t] - source[t].Earliest) \in Int
      BY SleepAssumption DEF Sleep, TypeOK, Interval
    <3> QED
      BY <1>6, <3>1 DEF StartTimer, Goto, TypeOK, Labels
  <2>2. SourcesContainNow' /\ ObservedAreVisible' /\ CommittedInPast'
    BY <1>6 DEF StartTimer, Goto, TypeOK, SourcesContainNow, ObservedAreVisible,
                CommittedInPast, Visible
  <2>3. ExternalConsistency'
    BY <1>6 DEF StartTimer, Goto, TypeOK, ExternalConsistency, Picked
  <2> QED
    BY <2>1, <2>2, <2>3
<1>7. ASSUME NEW t \in Txn, TimerFires(t) \/ ContextDone(t) PROVE IInv'
  <2>1. /\ UNCHANGED <<now, source, commitAt, wakeAt, done, before>>
        /\ pc[t] = "select"
        /\ pc' = [pc EXCEPT ![t] = "loop"] \/ pc' = [pc EXCEPT ![t] = "cancelled"]
    BY <1>7 DEF TimerFires, ContextDone, Goto
  <2> QED
    BY <2>1 DEF TypeOK, Labels, SourcesContainNow, ObservedAreVisible,
                CommittedInPast, ExternalConsistency, Visible, Picked
<1>8. ASSUME NEW t \in Txn, Cancel(t) PROVE IInv'
  BY <1>8 DEF Cancel, TypeOK, SourcesContainNow, ObservedAreVisible,
              CommittedInPast, ExternalConsistency, Visible, Picked
<1>9. ASSUME NEW t \in Txn, NEW i \in ValidAt(now), Set(t, i) PROVE IInv'
  <2>1. i \in Interval /\ Contains(i, now)
    BY ValidContains DEF TypeOK
  <2>2. TypeOK' /\ SourcesContainNow'
    BY <1>9, <2>1 DEF Set, TypeOK, SourcesContainNow
  <2>3. ObservedAreVisible' /\ CommittedInPast' /\ ExternalConsistency'
    BY <1>9 DEF Set, ObservedAreVisible, CommittedInPast, ExternalConsistency,
                Visible, Picked
  <2> QED
    BY <2>2, <2>3
<1>10. CASE UNCHANGED vars
  BY <1>10 DEF vars, TypeOK, SourcesContainNow, ObservedAreVisible,
               CommittedInPast, ExternalConsistency, Visible, Picked
<1> QED
  BY <1>1, <1>2, <1>3, <1>4, <1>5, <1>6, <1>7, <1>8, <1>9, <1>10 DEF Next, Run

(* The inductive invariant holds throughout every behaviour. *)
THEOREM Invariance == Spec => []IInv
<1> QED
  BY InitIInv, NextIInv, PTL DEF Spec

(* Type correctness of commit_wait.go's state. *)
THEOREM TypeCorrect == Spec => []TypeOK
<1>1. IInv => TypeOK
  BY DEF IInv
<1> QED
  BY <1>1, Invariance, PTL

(* truetime/doc.go's external consistency: a transaction that starts after *)
(* another has become visible gets the larger commit timestamp, for every  *)
(* set of transactions, every uncertainty and every behaviour of sources   *)
(* that contain the true time.                                             *)
THEOREM ExternallyConsistent == Spec => []ExternalConsistency
<1>1. IInv => ExternalConsistency
  BY DEF IInv
<1> QED
  BY <1>1, Invariance, PTL

(* When WithCommitWait returns nil, its timestamp is in the past. *)
THEOREM VisibleInPast == Spec => []CommittedInPast
<1>1. IInv => CommittedInPast
  BY DEF IInv
<1> QED
  BY <1>1, Invariance, PTL
=============================================================================
