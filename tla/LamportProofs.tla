--------------------------- MODULE LamportProofs ---------------------------
(***************************************************************************)
(* The clock condition of lamport/, and its converse for equal stamps, for *)
(* any number of processes, any number of events and any counter width.    *)
(***************************************************************************)
EXTENDS Lamport, CommonProofs

(***************************************************************************)
(* The inductive invariant.  CausalOrder alone is not inductive: the stamp *)
(* of a new event must exceed those of everything its process knows, and   *)
(* that is because the counter bounds them (Dominates).  For TightStamps   *)
(* the counter must moreover be one of them (Reached).                     *)
(***************************************************************************)
Dominates ==
  integrity # "lowered" =>
    \A p \in Node : \A e \in log : EventId(e) \in known[p] => e.stamp <= counter[p]

Reached ==
  integrity = "clean" =>
    \A p \in Node :
      \/ counter[p] = 0
      \/ \E d \in log : EventId(d) \in known[p] /\ d.stamp = counter[p]

IInv ==
  /\ TypeOK
  /\ HistoryOK
  /\ Dominates
  /\ CausalOrder
  /\ Reached
  /\ TightStamps

(* An increment yields a counter, and a larger one unless it wraps. *)
LEMMA IncProperties ==
  ASSUME NEW c \in Counter
  PROVE  /\ Inc(c) \in Counter
         /\ c # MaxUint64 => Inc(c) = c + 1
BY MaxUint64Assumption DEF Inc, Counter

(* The larger of two counters is one of them, and bounds both. *)
LEMMA MaxOfProperties ==
  ASSUME NEW a \in Counter, NEW b \in Counter
  PROVE  /\ MaxOf(a, b) \in Counter
         /\ a <= MaxOf(a, b) /\ b <= MaxOf(a, b)
         /\ MaxOf(a, b) = a \/ MaxOf(a, b) = b
BY MaxUint64Assumption DEF MaxOf, Counter

(***************************************************************************)
(* Tick, Send and Receive have one shape: an event of p with causes past   *)
(* gets the increment of base, which bounds the stamps of its causes and   *)
(* is 0 or one of them.                                                    *)
(***************************************************************************)
BoundsCauses(past, base) ==
  /\ integrity # "lowered" =>
       \A e \in log : EventId(e) \in past => e.stamp <= base
  /\ integrity = "clean" =>
       base = 0 \/ \E d \in log : EventId(d) \in past /\ d.stamp = base

(* An event of that shape preserves the inductive invariant. *)
LEMMA EventPreserves ==
  ASSUME IInv, NEW p \in Node, NEW past, Causes(p, past),
         NEW base \in Counter, BoundsCauses(past, base),
         Record(p, past, Inc(base)),
         net' = net \/ net' = net \cup {NewEvent(p, past, Inc(base))},
         counter' = [counter EXCEPT ![p] = Inc(base)],
         counter[p] <= base,
         integrity' = IncrementFrom(base),
         disk' = disk
  PROVE  IInv'
<1> DEFINE f == NewEvent(p, past, Inc(base))
<1>1. HistoryTypeOK(Counter) /\ HistoryOK
  BY DEF IInv, TypeOK
<1>2. Inc(base) \in Counter
  BY IncProperties
<1>3. HistoryTypeOK(Counter)' /\ HistoryOK'
  BY <1>1, <1>2, RecordOK
<1>4. /\ EventId(f) = <<p, executed[p] + 1>>
      /\ f.past = past /\ f.stamp = Inc(base) /\ f.node = p /\ f.seq = executed[p] + 1
      /\ ~HappensBefore(f, f)
      /\ \A e \in log : EventId(e) # EventId(f) /\ ~HappensBefore(f, e)
      /\ \A e \in log : HappensBefore(e, f) <=> EventId(e) \in past
  BY <1>1, NewEventIsNew
<1>5. log' = log \cup {f} /\ known' = [known EXCEPT ![p] = past \cup {EventId(f)}]
  BY <1>4 DEF Record
<1> HIDE DEF f
<1>6. TypeOK'
  BY <1>2, <1>3 DEF IInv, TypeOK, IncrementFrom
<1>7. integrity' # "lowered" => integrity # "lowered" /\ Inc(base) = base + 1
  BY IncProperties DEF IncrementFrom
<1>8. integrity' = "clean" => integrity = "clean" /\ Inc(base) = base + 1
  BY IncProperties DEF IncrementFrom
<1>9. \A e \in log : e.stamp \in Int
  BY <1>1 DEF HistoryTypeOK, Counter
<1>10. base \in Nat
  BY MaxUint64Assumption DEF Counter
<1>11. Dominates'
  <2> SUFFICES ASSUME integrity' # "lowered", NEW q \in Node, NEW e \in log',
                      EventId(e) \in known'[q]
               PROVE  e.stamp <= counter'[q]
    BY DEF Dominates, EventId
  <2>1. CASE q = p /\ e = f
    BY <2>1, <1>4, <1>2, <1>7, <1>10 DEF IInv, TypeOK
  <2>2. CASE q = p /\ e # f
    <3>1. e \in log /\ EventId(e) \in past
      BY <2>2, <1>4, <1>5 DEF IInv, TypeOK, HistoryTypeOK
    <3>2. e.stamp <= base
      BY <3>1, <1>7 DEF BoundsCauses
    <3> QED
      BY <3>1, <3>2, <2>2, <1>7, <1>9, <1>10 DEF IInv, TypeOK
  <2>3. CASE q # p
    <3>1. EventId(e) \in known[q] /\ counter'[q] = counter[q]
      BY <2>3, <1>5 DEF IInv, TypeOK, HistoryTypeOK
    <3>2. e \in log
      BY <3>1, <1>4, <1>5 DEF IInv, HistoryOK, KnownAreRecorded
    <3> QED
      BY <3>1, <3>2, <1>7 DEF IInv, Dominates
  <2> QED
    BY <2>1, <2>2, <2>3
<1>12. CausalOrder'
  <2> SUFFICES ASSUME integrity' # "lowered", NEW e \in log', NEW g \in log',
                      HappensBefore(e, g)
               PROVE  e.stamp < g.stamp
    BY DEF CausalOrder, HappensBefore, EventId
  <2>1. e \in log
    BY <1>4, <1>5
  <2>2. CASE g \in log
    BY <2>1, <2>2, <1>7 DEF IInv, CausalOrder
  <2>3. CASE g = f
    BY <2>1, <2>3, <1>4, <1>7, <1>9, <1>10 DEF BoundsCauses
  <2> QED
    BY <1>5, <2>2, <2>3
<1>13. Reached'
  <2> SUFFICES ASSUME integrity' = "clean", NEW q \in Node, counter'[q] # 0
               PROVE  \E d \in log' : EventId(d) \in known'[q] /\ d.stamp = counter'[q]
    BY DEF Reached, EventId
  <2>1. CASE q = p
    BY <2>1, <1>4, <1>5 DEF IInv, TypeOK, HistoryTypeOK
  <2>2. CASE q # p
    BY <2>2, <1>5, <1>8 DEF IInv, TypeOK, HistoryTypeOK, Reached
  <2> QED
    BY <2>1, <2>2
<1>14. TightStamps'
  <2> SUFFICES ASSUME integrity' = "clean", NEW e \in log', e.stamp # 1
               PROVE  \E d \in log' : HappensBefore(d, e) /\ e.stamp = d.stamp + 1
    BY DEF TightStamps, HappensBefore, EventId
  <2>1. CASE e \in log
    BY <2>1, <1>5, <1>8 DEF IInv, TightStamps
  <2>2. CASE e = f
    <3>1. PICK d \in log : EventId(d) \in past /\ d.stamp = base
      BY <2>2, <1>4, <1>8, <1>10 DEF BoundsCauses
    <3> QED
      BY <3>1, <2>2, <1>4, <1>5, <1>8
  <2> QED
    BY <1>5, <2>1, <2>2
<1> QED
  BY <1>3, <1>6, <1>11, <1>12, <1>13, <1>14 DEF IInv

(* NewAt and Reset replace a counter and record what that displaces. *)
LEMMA DisplacePreserves ==
  ASSUME IInv, NEW p \in Node, NEW to \in Counter,
         counter' = [counter EXCEPT ![p] = to],
         integrity' = Displace(counter[p], to),
         UNCHANGED <<disk, history>>
  PROVE  IInv'
<1>1. counter[p] \in Int /\ to \in Int
  BY MaxUint64Assumption DEF IInv, TypeOK, Counter
<1>2. /\ integrity' # "lowered" => integrity # "lowered" /\ to >= counter[p]
      /\ integrity' = "clean" => integrity = "clean" /\ to = counter[p]
      /\ integrity' \in {"clean", "raised", "lowered"}
  BY <1>1 DEF Displace, IInv, TypeOK
<1>3. TypeOK' /\ HistoryOK'
  BY <1>2 DEF IInv, TypeOK, history, HistoryTypeOK, HistoryOK, KnownAreRecorded,
              RecordedOnce, ProcessOrder, Irreflexive, HappensBefore, EventId
<1>4. Dominates'
  <2> SUFFICES ASSUME integrity' # "lowered", NEW q \in Node, NEW e \in log,
                      EventId(e) \in known[q]
               PROVE  e.stamp <= counter'[q]
    BY DEF Dominates, EventId, history
  <2>1. e.stamp <= counter[q] /\ e.stamp \in Int /\ counter[q] \in Int
    BY <1>2 DEF IInv, Dominates, TypeOK, HistoryTypeOK, Counter
  <2> QED
    BY <1>1, <1>2, <2>1 DEF IInv, TypeOK
<1>5. CausalOrder' /\ TightStamps'
  BY <1>2 DEF IInv, CausalOrder, TightStamps, history, HappensBefore, EventId
<1>6. Reached'
  BY <1>2 DEF IInv, TypeOK, Reached, history, EventId
<1> QED
  BY <1>3, <1>4, <1>5, <1>6 DEF IInv

(* The inductive invariant holds initially. *)
LEMMA InitIInv == Init => IInv
<1> SUFFICES ASSUME Init PROVE IInv
  OBVIOUS
<1>1. HistoryTypeOK(Counter) /\ HistoryOK
  BY HistoryInitOK DEF Init
<1>2. log = {} /\ integrity = "clean"
  BY DEF Init, HistoryInit
<1> QED
  BY <1>1, <1>2, MaxUint64Assumption
     DEF Init, IInv, TypeOK, Counter, Dominates, CausalOrder, Reached, TightStamps

(* Every step of every action preserves the inductive invariant. *)
LEMMA NextIInv == IInv /\ [Next]_vars => IInv'
<1> SUFFICES ASSUME IInv, [Next]_vars PROVE IInv'
  OBVIOUS
<1>1. HistoryTypeOK(Counter) /\ HistoryOK /\ \A p \in Node : counter[p] \in Counter
  BY DEF IInv, TypeOK
<1>2. \A p \in Node : BoundsCauses(known[p], counter[p])
  BY DEF IInv, Dominates, Reached, BoundsCauses
<1>3. \A c \in Counter : c <= c
  BY MaxUint64Assumption DEF Counter
<1>4. ASSUME NEW p \in Node, Tick(p) PROVE IInv'
  BY <1>1, <1>2, <1>3, <1>4, LocalCauses, EventPreserves DEF Tick, LocalEvent
<1>5. ASSUME NEW p \in Node, Send(p) PROVE IInv'
  BY <1>1, <1>2, <1>3, <1>5, LocalCauses, EventPreserves DEF Send, SendEvent
<1>6. ASSUME NEW p \in Node, NEW m \in net, Receive(p, m) PROVE IInv'
  <2> DEFINE past == known[p] \cup m.past \cup {EventId(m)}
             base == MaxOf(counter[p], m.stamp)
  <2>1. m \in log /\ m.stamp \in Counter
    BY <1>1 DEF HistoryTypeOK
  <2>2. /\ base \in Counter
        /\ counter[p] <= base /\ m.stamp <= base
        /\ base = counter[p] \/ base = m.stamp
    BY <1>1, <2>1, MaxOfProperties
  <2>3. Causes(p, past)
    BY <1>1, ReceiveCauses
  <2>4. BoundsCauses(past, base)
    <3>1. ASSUME integrity # "lowered", NEW e \in log, EventId(e) \in past
          PROVE  e.stamp <= base
      <4>1. e.stamp \in Int /\ m.stamp \in Int /\ counter[p] \in Int /\ base \in Int
        BY <1>1, <2>1, <2>2, MaxUint64Assumption DEF HistoryTypeOK, Counter
      <4>2. EventId(e) \in known[p] => e.stamp <= counter[p]
        BY <1>2, <3>1 DEF BoundsCauses
      <4>3. EventId(e) \in m.past => e.stamp < m.stamp
        BY <2>1, <3>1 DEF IInv, CausalOrder, HappensBefore
      <4>4. EventId(e) = EventId(m) => e.stamp = m.stamp
        BY <1>1, <2>1 DEF HistoryOK, RecordedOnce
      <4> QED
        BY <2>2, <3>1, <4>1, <4>2, <4>3, <4>4
    <3>2. ASSUME integrity = "clean", base # 0
          PROVE  \E d \in log : EventId(d) \in past /\ d.stamp = base
      BY <1>2, <2>1, <2>2, <3>2 DEF BoundsCauses
    <3> QED
      BY <3>1, <3>2 DEF BoundsCauses
  <2>5. /\ Record(p, past, Inc(base))
        /\ net' = net
        /\ counter' = [counter EXCEPT ![p] = Inc(base)]
        /\ integrity' = IncrementFrom(base)
        /\ disk' = disk
    BY <1>6 DEF Receive, ReceiveEvent, ReceiveValue
  <2> HIDE DEF past, base
  <2> QED
    BY <2>2, <2>3, <2>4, <2>5, EventPreserves
<1>7. ASSUME NEW p \in Node, Now(p) PROVE IInv'
  BY <1>7 DEF Now, IInv, TypeOK, history, HistoryTypeOK, HistoryOK, KnownAreRecorded,
              RecordedOnce, ProcessOrder, Irreflexive, Dominates, CausalOrder,
              Reached, TightStamps, HappensBefore, EventId
<1>8. ASSUME NEW p \in Node, NewAt(p) PROVE IInv'
  <2>1. disk[p] \in Counter
    BY DEF IInv, TypeOK
  <2> QED
    BY <1>8, <2>1, DisplacePreserves DEF NewAt
<1>9. ASSUME NEW p \in Node, NEW to \in ResetTo, Reset(p, to) PROVE IInv'
  <2>1. to \in Counter
    BY ResetToAssumption DEF Counter
  <2> QED
    BY <1>9, <2>1, DisplacePreserves DEF Reset
<1>10. CASE UNCHANGED vars
  BY <1>10 DEF vars, IInv, TypeOK, history, HistoryTypeOK, HistoryOK, KnownAreRecorded,
               RecordedOnce, ProcessOrder, Irreflexive, Dominates, CausalOrder,
               Reached, TightStamps, HappensBefore, EventId
<1> QED
  BY <1>4, <1>5, <1>6, <1>7, <1>8, <1>9, <1>10 DEF Next

(* The inductive invariant holds throughout every behaviour. *)
THEOREM Invariance == Spec => []IInv
<1> QED
  BY InitIInv, NextIInv, PTL DEF Spec

(* Type correctness of the Lamport clock and its history. *)
THEOREM TypeCorrect == Spec => []TypeOK
<1>1. IInv => TypeOK
  BY DEF IInv
<1> QED
  BY <1>1, Invariance, PTL

(* lamport/doc.go's clock condition: an event that happened before another *)
(* has the smaller stamp, in every history in which no counter was moved   *)
(* backwards, however messages are lost, repeated and reordered.           *)
THEOREM ClockCondition == Spec => []CausalOrder
<1>1. IInv => CausalOrder
  BY DEF IInv
<1> QED
  BY <1>1, Invariance, PTL

(* Without displaced counters a stamp is no larger than causality demands. *)
THEOREM StampsAreTight == Spec => []TightStamps
<1>1. IInv => TightStamps
  BY DEF IInv
<1> QED
  BY <1>1, Invariance, PTL
=============================================================================
