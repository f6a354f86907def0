----------------------------- MODULE HLCProofs -----------------------------
(***************************************************************************)
(* Causality, monotonicity and the drift bound of hlc/, for any number of  *)
(* processes, events, readings and invented timestamps and any widths, and *)
(* the binary form of a timestamp, for any number of values of a byte.     *)
(***************************************************************************)
EXTENDS HLCEncode, CommonProofs

(***************************************************************************)
(* The inductive invariant.  The state of a clock is at or after every     *)
(* stamp its process knows (Dominates); while nothing was invented, it is  *)
(* Zero or one of those stamps (Reached); and the wall time of every stamp *)
(* that may still be delivered was read somewhere (StampsWitnessed).       *)
(***************************************************************************)
AtOrBefore(a, b) == a = b \/ Less(a, b)

Dominates ==
  integrity # "void" =>
    \A p \in Node : \A e \in log :
      EventId(e) \in known[p] => AtOrBefore(e.stamp, state[p])

Reached ==
  integrity = "clean" =>
    \A p \in Node :
      \/ state[p] = Zero
      \/ \E d \in log : EventId(d) \in known[p] /\ d.stamp = state[p]

StampsWitnessed ==
  integrity = "clean" =>
    \A e \in log : \E q \in Node : e.stamp.WallTime <= peak[q]

\* the values of rejected
Refusals == [pt : Int64, due : {"nobody", "process", "unknown"}]

IInv ==
  /\ TypeOK
  /\ HistoryOK
  /\ Dominates
  /\ CausalOrder
  /\ Reached
  /\ TightLogical
  /\ StampsWitnessed
  /\ WallTimeWitnessed
  /\ DriftBound

-----------------------------------------------------------------------------
(* Facts about the arithmetic of clock.go.                                 *)

(* Less is transitive and irreflexive on timestamps. *)
LEMMA LessOrder ==
  ASSUME NEW a \in Timestamp, NEW b \in Timestamp, NEW c \in Timestamp
  PROVE  /\ AtOrBefore(a, b) /\ Less(b, c) => Less(a, c)
         /\ Less(a, b) /\ AtOrBefore(b, c) => Less(a, c)
         /\ ~Less(a, a)
BY WidthAssumption DEF AtOrBefore, Less, Timestamp, Int64, Uint32

(* Zero is a timestamp. *)
LEMMA ZeroType == Zero \in Timestamp
BY WidthAssumption DEF Zero, Timestamp, Int64, Uint32

(* Two wall times have a larger one. *)
LEMMA MaxOfProperties ==
  ASSUME NEW a \in Int, NEW b \in Int
  PROVE  /\ MaxOf(a, b) \in Int
         /\ a <= MaxOf(a, b) /\ b <= MaxOf(a, b)
         /\ MaxOf(a, b) = a \/ MaxOf(a, b) = b
BY DEF MaxOf

(* A counter that is not at its limit grows by one. *)
LEMMA Inc32Properties ==
  ASSUME NEW c \in Uint32
  PROVE  /\ Inc32(c) \in Uint32
         /\ c # MaxUint32 => Inc32(c) = c + 1
BY WidthAssumption DEF Inc32, Uint32

(* What follows from inputs: s is later than each of them, its wall time   *)
(* is one of theirs or the reading pt, and a counter continues one.        *)
Follows(s, inputs, pt) ==
  /\ s \in Timestamp
  /\ s.WallTime = pt \/ \E x \in inputs : s.WallTime = x.WallTime
  /\ ~AtLimit(inputs, s.WallTime) =>
       /\ \A x \in inputs : Less(x, s)
       /\ s.Logical = 0 \/ \E x \in inputs : /\ s.WallTime = x.WallTime
                                             /\ s.Logical = x.Logical + 1

(* The local-event rule of advanceLocked. *)
LEMMA AdvanceFollows ==
  ASSUME NEW s \in Timestamp, NEW pt \in Int64
  PROVE  Follows(Advance(s, pt), {s}, pt)
<1> DEFINE newL == MaxOf(pt, s.WallTime)
           a == Advance(s, pt)
<1>1. /\ s.WallTime \in Int64 /\ s.Logical \in Uint32
      /\ pt \in Int /\ s.WallTime \in Int /\ s.Logical \in Nat /\ 0 \in Uint32
  BY WidthAssumption DEF Timestamp, Int64, Uint32
<1>2. newL >= pt /\ newL >= s.WallTime /\ (newL = pt \/ newL = s.WallTime)
  BY <1>1, MaxOfProperties
<1>3. a.WallTime = newL
  BY DEF Advance
<1>4. a.Logical = IF newL = s.WallTime THEN Inc32(s.Logical) ELSE 0
  BY DEF Advance
<1>5. a \in Timestamp
  BY <1>1, <1>2, Inc32Properties DEF Advance, Timestamp
<1>6. Inc32(s.Logical) \in Uint32 /\ (s.Logical # MaxUint32 => Inc32(s.Logical) = s.Logical + 1)
  BY <1>1, Inc32Properties
<1> HIDE DEF newL, a
<1>7. ASSUME ~AtLimit({s}, a.WallTime)
      PROVE  /\ Less(s, a)
             /\ \/ a.Logical = 0
                \/ a.WallTime = s.WallTime /\ a.Logical = s.Logical + 1
  <2>1. CASE newL = s.WallTime
    BY <1>1, <1>3, <1>4, <1>6, <1>7, <2>1 DEF AtLimit, Less
  <2>2. CASE newL # s.WallTime
    BY <1>1, <1>2, <1>3, <1>4, <2>2 DEF Less
  <2> QED
    BY <2>1, <2>2
<1> QED
  BY <1>2, <1>3, <1>5, <1>7 DEF Follows, a

(* The four cases of Receive. *)
LEMMA MergeFollows ==
  ASSUME NEW s \in Timestamp, NEW remote \in Timestamp, NEW pt \in Int64
  PROVE  Follows(Merge(s, remote, pt), {s, remote}, pt)
<1> DEFINE newL == MergedWall(s, remote, pt)
           newC == MergedLogical(s, remote, pt)
           a == Merge(s, remote, pt)
<1>1. /\ s.WallTime \in Int64 /\ s.Logical \in Uint32
      /\ remote.WallTime \in Int64 /\ remote.Logical \in Uint32
      /\ pt \in Int /\ s.WallTime \in Int /\ s.Logical \in Nat /\ 0 \in Uint32
      /\ remote.WallTime \in Int /\ remote.Logical \in Nat
  BY WidthAssumption DEF Timestamp, Int64, Uint32
<1>2. /\ newL >= pt /\ newL >= s.WallTime /\ newL >= remote.WallTime
      /\ newL = pt \/ newL = s.WallTime \/ newL = remote.WallTime
      /\ newL \in Int64 /\ newL \in Int
  BY <1>1 DEF MergedWall, MaxOf
<1>3. LET top == MaxOf(s.Logical, remote.Logical) IN
      /\ top \in Uint32 /\ top >= s.Logical /\ top >= remote.Logical
      /\ top = s.Logical \/ top = remote.Logical
  BY <1>1 DEF MaxOf
<1>4. CASE newL = s.WallTime /\ newL = remote.WallTime
  <2>1. newC = Inc32(MaxOf(s.Logical, remote.Logical))
    BY <1>4 DEF MergedLogical
  <2>2. a = [WallTime |-> newL, Logical |-> newC]
    BY DEF Merge
  <2> HIDE DEF newL, newC, a
  <2>3. a \in Timestamp
    BY <1>2, <1>3, <2>1, <2>2, Inc32Properties DEF Timestamp
  <2>4. ~AtLimit({s, remote}, newL) =>
          newC = MaxOf(s.Logical, remote.Logical) + 1
    BY <1>3, <1>4, <2>1, Inc32Properties DEF AtLimit
  <2>5. ASSUME ~AtLimit({s, remote}, newL)
        PROVE  /\ Less(s, a) /\ Less(remote, a)
               /\ a.Logical = s.Logical + 1 \/ a.Logical = remote.Logical + 1
    BY <1>1, <1>3, <1>4, <2>2, <2>4, <2>5 DEF Less
  <2>6. a.WallTime = newL
    BY <2>2
  <2>7. Follows(a, {s, remote}, pt)
    BY <1>4, <2>3, <2>5, <2>6 DEF Follows
  <2> QED
    BY <2>7 DEF a
<1>5. CASE newL = s.WallTime /\ newL # remote.WallTime
  <2>1. newC = Inc32(s.Logical)
    BY <1>5 DEF MergedLogical
  <2>2. a = [WallTime |-> newL, Logical |-> newC]
    BY DEF Merge
  <2> HIDE DEF newL, newC, a
  <2>3. a \in Timestamp
    BY <1>1, <1>2, <2>1, <2>2, Inc32Properties DEF Timestamp
  <2>4. ~AtLimit({s, remote}, newL) => newC = s.Logical + 1
    BY <1>1, <1>5, <2>1, Inc32Properties DEF AtLimit
  <2> QED
    BY <1>1, <1>2, <1>5, <2>2, <2>3, <2>4 DEF Follows, Less, a
<1>6. CASE newL # s.WallTime /\ newL = remote.WallTime
  <2>1. newC = Inc32(remote.Logical)
    BY <1>6 DEF MergedLogical
  <2>2. a = [WallTime |-> newL, Logical |-> newC]
    BY DEF Merge
  <2> HIDE DEF newL, newC, a
  <2>3. a \in Timestamp
    BY <1>1, <1>2, <2>1, <2>2, Inc32Properties DEF Timestamp
  <2>4. ~AtLimit({s, remote}, newL) => newC = remote.Logical + 1
    BY <1>1, <1>6, <2>1, Inc32Properties DEF AtLimit
  <2> QED
    BY <1>1, <1>2, <1>6, <2>2, <2>3, <2>4 DEF Follows, Less, a
<1>7. CASE newL # s.WallTime /\ newL # remote.WallTime
  <2>1. newC = 0
    BY <1>7 DEF MergedLogical
  <2>2. a = [WallTime |-> newL, Logical |-> newC]
    BY DEF Merge
  <2> HIDE DEF newL, newC, a
  <2> QED
    BY <1>1, <1>2, <1>7, <2>1, <2>2 DEF Follows, Less, Timestamp, a
<1> QED
  BY <1>4, <1>5, <1>6, <1>7

(* The drift check, even where its sum wraps, never lets through a         *)
(* timestamp further than MaxDrift ahead of the reading.                   *)
LEMMA AcceptedWithinDrift ==
  ASSUME NEW remote \in Timestamp, NEW pt \in Int64,
         MaxDrift > 0, ~Rejects(remote, pt)
  PROVE  remote.WallTime <= pt + MaxDrift
BY WidthAssumption, MaxDriftAssumption DEF Rejects, Add64, Timestamp, Int64

-----------------------------------------------------------------------------
(* The steps.                                                              *)

(***************************************************************************)
(* Now, Send, Receive and a restart have one shape: an event of p with     *)
(* causes past gets a stamp that follows from inputs, which bound the      *)
(* stamps of the causes and are, as long as nothing was invented, Zero or  *)
(* among them.                                                             *)
(***************************************************************************)
InputsFit(p, past, inputs) ==
  /\ inputs \subseteq Timestamp
  /\ integrity # "void" =>
       \A e \in log : EventId(e) \in past =>
         \E x \in inputs : AtOrBefore(e.stamp, x)
  /\ MaxDrift > 0 =>
       \A x \in inputs : x.WallTime <= MaxOf(peak[p], wall[p]) + MaxDrift

InputsWitnessed(past, inputs) ==
  \A x \in inputs :
    /\ \E q \in Node : x.WallTime <= peak[q]
    /\ x = Zero \/ \E d \in log : EventId(d) \in past /\ d.stamp = x

(* The types that every step of a proof needs. *)
LEMMA Types ==
  ASSUME IInv, NEW p \in Node
  PROVE  /\ HistoryTypeOK(Timestamp) /\ HistoryOK
         /\ state[p] \in Timestamp
         /\ wall[p] \in Int64 /\ wall[p] \in Int
         /\ peak[p] \in 0..MaxInt64 /\ peak[p] \in Int /\ peak[p] >= 0
         /\ MaxOf(peak[p], wall[p]) \in 0..MaxInt64
         /\ MaxOf(peak[p], wall[p]) >= wall[p]
         /\ MaxOf(peak[p], wall[p]) >= peak[p]
         /\ MaxOf(peak[p], wall[p]) \in Int
<1>1. /\ HistoryTypeOK(Timestamp) /\ HistoryOK
      /\ state[p] \in Timestamp
      /\ wall[p] \in Instants
      /\ peak[p] \in 0..MaxInt64
  BY DEF IInv, TypeOK
<1>2. wall[p] \in Int64
  BY <1>1, InstantsAssumption
<1>3. wall[p] \in Int /\ wall[p] <= MaxInt64 /\ peak[p] \in Int /\ peak[p] >= 0
  BY <1>1, <1>2, WidthAssumption DEF Int64
<1> QED
  BY <1>1, <1>2, <1>3, WidthAssumption DEF MaxOf

(* An event of that shape preserves the inductive invariant. *)
LEMMA EventPreserves ==
  ASSUME IInv, NEW p \in Node, NEW past, Causes(p, past),
         NEW s, NEW inputs, Follows(s, inputs, wall[p]), InputsFit(p, past, inputs),
         Record(p, past, s),
         net' = net \/ net' = net \cup {NewEvent(p, past, s)},
         state' = [state EXCEPT ![p] = s],
         peak' = [peak EXCEPT ![p] = MaxOf(peak[p], wall[p])],
         wall' = wall,
         rejected' \in Refusals,
         integrity' \in {"clean", "tainted", "void"},
         AtLimit(inputs, s.WallTime) => integrity' = "void",
         integrity' # "void" => integrity # "void",
         integrity' = "clean" => integrity = "clean" /\ InputsWitnessed(past, inputs)
  PROVE  IInv'
<1> DEFINE f == NewEvent(p, past, s)
           top == MaxOf(peak[p], wall[p])
<1>1. HistoryTypeOK(Timestamp) /\ HistoryOK /\ s \in Timestamp
  BY Types DEF Follows
<1>2. HistoryTypeOK(Timestamp)' /\ HistoryOK'
  BY <1>1, RecordOK
<1>3. /\ EventId(f) = <<p, executed[p] + 1>>
      /\ f.past = past /\ f.stamp = s /\ f.node = p /\ f.seq = executed[p] + 1
      /\ ~HappensBefore(f, f)
      /\ \A e \in log : EventId(e) # EventId(f) /\ ~HappensBefore(f, e)
      /\ \A e \in log : HappensBefore(e, f) <=> EventId(e) \in past
  BY <1>1, NewEventIsNew
<1>4. log' = log \cup {f} /\ known' = [known EXCEPT ![p] = past \cup {EventId(f)}]
  BY <1>3 DEF Record
<1>5. /\ top \in 0..MaxInt64 /\ top \in Int /\ top >= wall[p] /\ top >= peak[p]
      /\ wall[p] \in Int /\ peak[p] \in Int
  BY Types
<1>6. /\ \A q \in Node : q # p => peak'[q] = peak[q] /\ state'[q] = state[q]
      /\ peak'[p] = top /\ state'[p] = s
  BY DEF IInv, TypeOK
<1>7. \A q \in Node : peak[q] \in Int /\ peak'[q] \in Int /\ peak'[q] >= peak[q]
  BY <1>5, <1>6, Types
<1> HIDE DEF f, top
<1>8. TypeOK'
  <2>1. peak' \in [Node -> 0..MaxInt64]
    BY <1>5 DEF IInv, TypeOK, top
  <2> QED
    BY <1>1, <1>2, <2>1 DEF IInv, TypeOK, Refusals
<1>9. \A e \in log : e.stamp \in Timestamp /\ e.stamp.WallTime \in Int
  BY <1>1, WidthAssumption DEF HistoryTypeOK, Timestamp, Int64
<1>10. s.WallTime \in Int /\ \A x \in inputs : x.WallTime \in Int
  BY <1>1, WidthAssumption DEF InputsFit, Timestamp, Int64
<1>11. ASSUME integrity' # "void", NEW e \in log, EventId(e) \in past
       PROVE  Less(e.stamp, s)
  <2>1. PICK x \in inputs : AtOrBefore(e.stamp, x)
    BY <1>11 DEF InputsFit
  <2>2. Less(x, s) /\ x \in Timestamp
    BY <1>11 DEF Follows, InputsFit
  <2> QED
    BY <1>1, <1>9, <2>1, <2>2, LessOrder
<1>12. Dominates'
  <2> SUFFICES ASSUME integrity' # "void", NEW q \in Node, NEW e \in log',
                      EventId(e) \in known'[q]
               PROVE  AtOrBefore(e.stamp, state'[q])
    BY DEF Dominates, EventId, AtOrBefore, Less
  <2>1. CASE q = p /\ e = f
    BY <2>1, <1>3, <1>6 DEF AtOrBefore
  <2>2. CASE q = p /\ e # f
    <3>1. e \in log /\ EventId(e) \in past
      BY <2>2, <1>3, <1>4 DEF IInv, TypeOK, HistoryTypeOK
    <3> QED
      BY <3>1, <2>2, <1>6, <1>11 DEF AtOrBefore
  <2>3. CASE q # p
    <3>1. EventId(e) \in known[q] /\ state'[q] = state[q]
      BY <2>3, <1>4, <1>6 DEF IInv, TypeOK, HistoryTypeOK
    <3>2. e \in log
      BY <3>1, <1>3, <1>4 DEF IInv, HistoryOK, KnownAreRecorded
    <3> QED
      BY <3>1, <3>2 DEF IInv, Dominates
  <2> QED
    BY <2>1, <2>2, <2>3
<1>13. CausalOrder'
  <2> SUFFICES ASSUME integrity' # "void", NEW e \in log', NEW g \in log',
                      HappensBefore(e, g)
               PROVE  Less(e.stamp, g.stamp)
    BY DEF CausalOrder, HappensBefore, EventId, Less
  <2>1. e \in log
    BY <1>3, <1>4
  <2>2. CASE g \in log
    BY <2>1, <2>2 DEF IInv, CausalOrder
  <2>3. CASE g = f
    BY <2>1, <2>3, <1>3, <1>11
  <2> QED
    BY <1>4, <2>2, <2>3
<1>14. Reached'
  <2> SUFFICES ASSUME integrity' = "clean", NEW q \in Node, state'[q] # Zero
               PROVE  \E d \in log' : EventId(d) \in known'[q] /\ d.stamp = state'[q]
    BY DEF Reached, EventId, Zero
  <2>1. CASE q = p
    BY <2>1, <1>3, <1>4, <1>6 DEF IInv, TypeOK, HistoryTypeOK
  <2>2. CASE q # p
    BY <2>2, <1>4, <1>6 DEF IInv, TypeOK, HistoryTypeOK, Reached
  <2> QED
    BY <2>1, <2>2
<1>15. TightLogical'
  <2> SUFFICES ASSUME integrity' = "clean", NEW e \in log'
               PROVE  \/ e.stamp.Logical = 0
                      \/ e.stamp = [WallTime |-> 0, Logical |-> 1]
                      \/ \E d \in log' : /\ HappensBefore(d, e)
                                         /\ d.stamp.WallTime = e.stamp.WallTime
                                         /\ e.stamp.Logical = d.stamp.Logical + 1
    BY DEF TightLogical, HappensBefore, EventId
  <2>1. CASE e \in log
    BY <2>1, <1>4 DEF IInv, TightLogical
  <2>2. CASE e = f /\ s.Logical # 0
    <3>1. PICK x \in inputs : s.WallTime = x.WallTime /\ s.Logical = x.Logical + 1
      BY <2>2 DEF Follows
    <3>2. CASE x = Zero
      <4>1. s.WallTime = 0 /\ s.Logical = 1
        BY <3>1, <3>2 DEF Zero
      <4>2. s = [WallTime |-> 0, Logical |-> 1]
        BY <1>1, <4>1 DEF Timestamp
      <4> QED
        BY <4>2, <2>2, <1>3
    <3>3. CASE x # Zero
      <4>1. PICK d \in log : EventId(d) \in past /\ d.stamp = x
        BY <3>3 DEF InputsWitnessed
      <4> QED
        BY <4>1, <3>1, <2>2, <1>3, <1>4
    <3> QED
      BY <3>2, <3>3
  <2> QED
    BY <1>3, <1>4, <2>1, <2>2
<1>16. ASSUME integrity' = "clean" PROVE \E q \in Node : s.WallTime <= peak'[q]
  <2>1. CASE s.WallTime = wall[p]
    BY <2>1, <1>5, <1>6
  <2>2. CASE \E x \in inputs : s.WallTime = x.WallTime
    <3>1. PICK q \in Node : s.WallTime <= peak[q]
      BY <1>16, <2>2 DEF InputsWitnessed
    <3> QED
      BY <3>1, <1>7, <1>10
  <2> QED
    BY <2>1, <2>2 DEF Follows
<1>17. StampsWitnessed'
  <2> SUFFICES ASSUME integrity' = "clean", NEW e \in log'
               PROVE  \E q \in Node : e.stamp.WallTime <= peak'[q]
    BY DEF StampsWitnessed
  <2>1. CASE e \in log
    <3>1. PICK q \in Node : e.stamp.WallTime <= peak[q]
      BY <2>1 DEF IInv, StampsWitnessed
    <3> QED
      BY <3>1, <2>1, <1>7, <1>9
  <2> QED
    BY <1>3, <1>4, <1>16, <2>1
<1>18. WallTimeWitnessed'
  <2> SUFFICES ASSUME integrity' = "clean", NEW r \in Node
               PROVE  \E q \in Node : state'[r].WallTime <= peak'[q]
    BY DEF WallTimeWitnessed
  <2>1. CASE r # p
    <3>1. PICK q \in Node : state[r].WallTime <= peak[q]
      BY DEF IInv, WallTimeWitnessed
    <3>2. state[r].WallTime \in Int
      BY Types, WidthAssumption DEF Timestamp, Int64
    <3> QED
      BY <3>1, <3>2, <2>1, <1>6, <1>7
  <2> QED
    BY <1>6, <1>16, <2>1
<1>19. DriftBound'
  <2> SUFFICES ASSUME MaxDrift > 0, NEW q \in Node
               PROVE  state'[q].WallTime <= peak'[q] + MaxDrift
    BY DEF DriftBound
  <2>1. CASE q = p
    <3>1. s.WallTime <= top + MaxDrift
      BY <1>5, <1>10, MaxDriftAssumption DEF Follows, InputsFit, top
    <3> QED
      BY <3>1, <2>1, <1>6
  <2>2. CASE q # p
    BY <2>2, <1>6 DEF IInv, DriftBound
  <2> QED
    BY <2>1, <2>2
<1> QED
  BY <1>2, <1>8, <1>12, <1>13, <1>14, <1>15, <1>17, <1>18, <1>19 DEF IInv

(* The state of a clock fits as an input of its own next event. *)
LEMMA StateFits ==
  ASSUME IInv, NEW p \in Node
  PROVE  /\ InputsFit(p, known[p], {state[p]})
         /\ InputsFit(p, known[p], {Zero, state[p]})
         /\ integrity = "clean" => /\ InputsWitnessed(known[p], {state[p]})
                                   /\ InputsWitnessed(known[p], {Zero, state[p]})
<1>1. MaxDrift > 0 => state[p].WallTime <= MaxOf(peak[p], wall[p]) + MaxDrift
  BY Types, MaxDriftAssumption, WidthAssumption
     DEF IInv, DriftBound, Timestamp, Int64
<1>2. MaxDrift > 0 => Zero.WallTime <= MaxOf(peak[p], wall[p]) + MaxDrift
  BY Types, MaxDriftAssumption DEF Zero
<1>3. integrity = "clean" => /\ \E q \in Node : state[p].WallTime <= peak[q]
                             /\ \E q \in Node : Zero.WallTime <= peak[q]
  BY Types DEF IInv, WallTimeWitnessed, Zero
<1> QED
  BY <1>1, <1>2, <1>3, Types, ZeroType
     DEF IInv, InputsFit, InputsWitnessed, Dominates, Reached

(* So do the state and an accepted timestamp, if the message's past is     *)
(* known to be at or before that timestamp.                                *)
LEMMA RemoteFits ==
  ASSUME IInv, NEW p \in Node, NEW remote \in Timestamp, ~Rejects(remote, wall[p]),
         NEW past,
         integrity # "void" =>
           \A e \in log : EventId(e) \in past =>
             EventId(e) \in known[p] \/ AtOrBefore(e.stamp, remote)
  PROVE  InputsFit(p, past, {state[p], remote})
<1>1. MaxDrift > 0 => state[p].WallTime <= MaxOf(peak[p], wall[p]) + MaxDrift
  BY StateFits DEF InputsFit
<1>2. MaxDrift > 0 => remote.WallTime <= MaxOf(peak[p], wall[p]) + MaxDrift
  <2>1. MaxDrift > 0 => remote.WallTime <= wall[p] + MaxDrift
    BY Types, AcceptedWithinDrift
  <2> QED
    BY <2>1, Types, MaxDriftAssumption, WidthAssumption DEF Timestamp, Int64
<1> QED
  BY <1>1, <1>2, Types DEF IInv, InputsFit, Dominates

(* The inductive invariant holds initially. *)
LEMMA InitIInv == Init => IInv
<1> SUFFICES ASSUME Init PROVE IInv
  OBVIOUS
<1>1. HistoryTypeOK(Timestamp) /\ HistoryOK
  BY HistoryInitOK DEF Init
<1>2. log = {} /\ integrity = "clean" /\ state = [p \in Node |-> Zero]
  BY DEF Init, HistoryInit
<1>3. TypeOK
  BY <1>1, ZeroType, WidthAssumption DEF Init, TypeOK, Accepted, Int64
<1>4. Dominates /\ CausalOrder /\ Reached /\ TightLogical /\ StampsWitnessed
  BY <1>2 DEF Dominates, CausalOrder, Reached, TightLogical, StampsWitnessed
<1>5. WallTimeWitnessed /\ DriftBound
  BY <1>2, MaxDriftAssumption DEF Init, WallTimeWitnessed, DriftBound, Zero
<1> QED
  BY <1>1, <1>3, <1>4, <1>5 DEF IInv

(* Every step of every action preserves the inductive invariant. *)
LEMMA NextIInv == IInv /\ [Next]_vars => IInv'
<1> SUFFICES ASSUME IInv, [Next]_vars PROVE IInv'
  OBVIOUS
<1>1. Accepted \in Refusals
  BY WidthAssumption DEF Accepted, Refusals, Int64
<1>2. rejected \in Refusals
  BY DEF IInv, TypeOK, Refusals
<1>3. integrity \in {"clean", "tainted", "void"}
  BY DEF IInv, TypeOK
<1>4. ASSUME NEW p \in Node, Now(p) \/ Send(p) PROVE IInv'
  <2> DEFINE s == Advance(state[p], wall[p])
  <2>1. Causes(p, known[p]) /\ Follows(s, {state[p]}, wall[p])
    BY Types, LocalCauses, AdvanceFollows
  <2>2. /\ Record(p, known[p], s)
        /\ net' = net \/ net' = net \cup {NewEvent(p, known[p], s)}
        /\ Update(p, s, {state[p]})
        /\ rejected' = rejected
    BY <1>4 DEF Now, Send, LocalEvent, SendEvent
  <2> HIDE DEF s
  <2> QED
    BY <1>2, <1>3, <2>1, <2>2, StateFits, EventPreserves DEF Update
<1>5. ASSUME NEW p \in Node, NEW m \in net, Receive(p, m) PROVE IInv'
  <2> DEFINE s == Merge(state[p], m.stamp, wall[p])
             past == known[p] \cup m.past \cup {EventId(m)}
  <2>1. m \in log /\ m.stamp \in Timestamp
    BY Types DEF HistoryTypeOK
  <2>2. Causes(p, past) /\ Follows(s, {state[p], m.stamp}, wall[p])
    BY <2>1, Types, ReceiveCauses, MergeFollows
  <2>3. InputsFit(p, past, {state[p], m.stamp})
    <3>1. ASSUME integrity # "void", NEW e \in log, EventId(e) \in past
          PROVE  EventId(e) \in known[p] \/ AtOrBefore(e.stamp, m.stamp)
      <4>1. EventId(e) \in m.past => Less(e.stamp, m.stamp)
        BY <2>1, <3>1 DEF IInv, CausalOrder, HappensBefore
      <4>2. EventId(e) = EventId(m) => e = m
        BY <2>1 DEF IInv, HistoryOK, RecordedOnce
      <4> QED
        BY <3>1, <4>1, <4>2 DEF AtOrBefore
    <3>2. ~Rejects(m.stamp, wall[p])
      BY <1>5 DEF Receive
    <3> HIDE DEF past
    <3> QED
      BY <2>1, <3>1, <3>2, RemoteFits
  <2>4. integrity = "clean" => InputsWitnessed(past, {state[p], m.stamp})
    <3>1. integrity = "clean" => InputsWitnessed(known[p], {state[p]})
      BY StateFits
    <3>2. integrity = "clean" => \E q \in Node : m.stamp.WallTime <= peak[q]
      BY <2>1 DEF IInv, StampsWitnessed
    <3> QED
      BY <2>1, <3>1, <3>2 DEF InputsWitnessed
  <2>5. /\ Record(p, past, s)
        /\ net' = net
        /\ Update(p, s, {state[p], m.stamp})
        /\ rejected' = Accepted
    BY <1>5 DEF Receive, ReceiveEvent
  <2> HIDE DEF s, past
  <2> QED
    BY <1>1, <1>3, <2>2, <2>3, <2>4, <2>5, EventPreserves DEF Update
<1>6. ASSUME NEW p \in Node, NEW remote \in RogueStamps, ReceiveRogue(p, remote)
      PROVE  IInv'
  <2> DEFINE s == Merge(state[p], remote, wall[p])
  <2>1. remote \in Timestamp
    BY RogueAssumption
  <2>2. Causes(p, known[p]) /\ Follows(s, {state[p], remote}, wall[p])
    BY <2>1, Types, LocalCauses, MergeFollows
  <2>3. InputsFit(p, known[p], {state[p], remote})
    BY <1>6, <2>1, RemoteFits DEF ReceiveRogue
  <2>4. /\ Record(p, known[p], s)
        /\ net' = net
        /\ state' = [state EXCEPT ![p] = s]
        /\ peak' = [peak EXCEPT ![p] = MaxOf(peak[p], wall[p])]
        /\ integrity' = IF integrity = "void" \/ AtLimit({state[p], remote}, s.WallTime)
                        THEN "void" ELSE "tainted"
        /\ rejected' = Accepted
        /\ wall' = wall
    BY <1>6 DEF ReceiveRogue, LocalEvent
  <2> HIDE DEF s
  <2> QED
    BY <1>1, <1>3, <2>2, <2>3, <2>4, EventPreserves
<1>7. ASSUME NEW p \in Node, Restart(p) PROVE IInv'
  <2> DEFINE s == Merge(Zero, state[p], wall[p])
  <2>1. Causes(p, known[p]) /\ Follows(s, {Zero, state[p]}, wall[p])
    BY Types, ZeroType, LocalCauses, MergeFollows
  <2>2. /\ Record(p, known[p], s)
        /\ net' = net
        /\ Update(p, s, {Zero, state[p]})
        /\ rejected' = Accepted
    BY <1>7 DEF Restart, LocalEvent
  <2> HIDE DEF s
  <2> QED
    BY <1>1, <1>3, <2>1, <2>2, StateFits, EventPreserves DEF Update
<1> USE DEF IInv, TypeOK, history, HistoryTypeOK, HistoryOK, KnownAreRecorded,
            RecordedOnce, ProcessOrder, Irreflexive, Dominates, CausalOrder, Reached,
            TightLogical, StampsWitnessed, WallTimeWitnessed, DriftBound,
            HappensBefore, EventId
<1>8. ASSUME NEW p \in Node, NEW remote \in Timestamp,
             NEW sender \in {"process", "unknown"}, ReceiveError(p, remote, sender)
      PROVE  IInv'
  <2>1. rejected' \in Refusals
    BY <1>8, Types DEF ReceiveError, Refusal, Refusals
  <2> QED
    BY <1>8, <2>1 DEF ReceiveError, Refusals
<1>9. ASSUME NEW p \in Node, RestartError(p) PROVE IInv'
  <2>1. rejected' \in Refusals
    BY <1>9, Types DEF RestartError, Refusal, Refusals
  <2>2. TypeOK'
    BY <1>9, <2>1, ZeroType DEF RestartError, Refusals
  <2>3. DriftBound'
    BY <1>9, Types, MaxDriftAssumption DEF RestartError, Zero
  <2> QED
    BY <1>9, <2>2, <2>3 DEF RestartError
<1>10. ASSUME NEW p \in Node, NEW t \in Instants, SetWall(p, t) PROVE IInv'
  BY <1>10 DEF SetWall
<1>11. CASE UNCHANGED vars
  BY <1>11 DEF vars
<1>12. /\ \A m \in net : m.stamp \in Timestamp
       /\ \A remote \in RogueStamps : remote \in Timestamp
  BY RogueAssumption
<1> QED
  BY <1>4, <1>5, <1>6, <1>7, <1>8, <1>9, <1>10, <1>11, <1>12 DEF Next

(* A step that is not void moves no clock backwards. *)
LEMMA StepForward ==
  ASSUME IInv, [Next]_vars, integrity' # "void", NEW q \in Node
  PROVE  state'[q] = state[q] \/ Less(state[q], state'[q])
<1>1. ASSUME NEW p \in Node, NEW s, NEW inputs, Follows(s, inputs, wall[p]),
             state[p] \in inputs, ~AtLimit(inputs, s.WallTime),
             state' = [state EXCEPT ![p] = s]
      PROVE  state'[q] = state[q] \/ Less(state[q], state'[q])
  BY <1>1 DEF Follows, IInv, TypeOK
<1>2. ASSUME NEW p \in Node, Now(p) \/ Send(p)
      PROVE  state'[q] = state[q] \/ Less(state[q], state'[q])
  <2>1. Follows(Advance(state[p], wall[p]), {state[p]}, wall[p])
    BY Types, AdvanceFollows
  <2> QED
    BY <1>1, <1>2, <2>1 DEF Now, Send, Update
<1>3. ASSUME NEW p \in Node, NEW m \in net, Receive(p, m)
      PROVE  state'[q] = state[q] \/ Less(state[q], state'[q])
  <2> DEFINE s == Merge(state[p], m.stamp, wall[p])
             inputs == {state[p], m.stamp}
  <2>1. m.stamp \in Timestamp
    BY Types DEF HistoryTypeOK
  <2>2. Follows(s, inputs, wall[p]) /\ state[p] \in inputs
    BY <2>1, Types, MergeFollows
  <2>3. state' = [state EXCEPT ![p] = s] /\ ~AtLimit(inputs, s.WallTime)
    BY <1>3 DEF Receive, Update
  <2> HIDE DEF s, inputs
  <2> QED
    BY <1>1, <2>2, <2>3
<1>4. ASSUME NEW p \in Node, NEW remote \in RogueStamps, ReceiveRogue(p, remote)
      PROVE  state'[q] = state[q] \/ Less(state[q], state'[q])
  <2>1. Follows(Merge(state[p], remote, wall[p]), {state[p], remote}, wall[p])
    BY Types, MergeFollows, RogueAssumption
  <2> QED
    BY <1>1, <1>4, <2>1 DEF ReceiveRogue
<1>5. ASSUME NEW p \in Node, Restart(p)
      PROVE  state'[q] = state[q] \/ Less(state[q], state'[q])
  <2>1. Follows(Merge(Zero, state[p], wall[p]), {Zero, state[p]}, wall[p])
    BY Types, ZeroType, MergeFollows
  <2> QED
    BY <1>1, <1>5, <2>1 DEF Restart, Update
<1> QED
  BY <1>2, <1>3, <1>4, <1>5 DEF Next, ReceiveError, RestartError, SetWall, vars

-----------------------------------------------------------------------------
(* The inductive invariant holds throughout every behaviour. *)
THEOREM Invariance == Spec => []IInv
<1> QED
  BY InitIInv, NextIInv, PTL DEF Spec

(* Type correctness of the hybrid clock and its history. *)
THEOREM TypeCorrect == Spec => []TypeOK
<1>1. IInv => TypeOK
  BY DEF IInv
<1> QED
  BY <1>1, Invariance, PTL

(* hlc/doc.go, "Causal", whatever the wall clocks and the senders do, as   *)
(* long as no counter wraps and no restart loses its timestamp.            *)
THEOREM Causal == Spec => []CausalOrder
<1>1. IInv => CausalOrder
  BY DEF IInv
<1> QED
  BY <1>1, Invariance, PTL

(* hlc/doc.go, "Monotonic", under the same proviso. *)
THEOREM ClocksAreMonotonic == Spec => Monotonic
<1>1. IInv /\ [Next]_vars =>
        [integrity' # "void" =>
           \A p \in Node : state'[p] = state[p] \/ Less(state[p], state'[p])]_vars
  BY StepForward
<1> QED
  BY <1>1, Invariance, PTL DEF Spec, Monotonic

(* hlc/doc.go, "Drift protection": no sender, however its timestamps are   *)
(* made, moves a clock further than maxDrift beyond the latest reading of  *)
(* the clock's own wall clock.                                             *)
THEOREM DriftIsBounded == Spec => []DriftBound
<1>1. IInv => DriftBound
  BY DEF IInv
<1> QED
  BY <1>1, Invariance, PTL

(* Where nobody invents timestamps, no clock is ahead of every reading used *)
(* so far.                                                                  *)
THEOREM CloseToPhysicalTime == Spec => []WallTimeWitnessed
<1>1. IInv => WallTimeWitnessed
  BY DEF IInv
<1> QED
  BY <1>1, Invariance, PTL

(* Where nobody invents timestamps, every counter continues the counter of  *)
(* a cause.                                                                 *)
THEOREM CountersAreTight == Spec => []TightLogical
<1>1. IInv => TightLogical
  BY DEF IInv
<1> QED
  BY <1>1, Invariance, PTL

(* A refusal at p of a timestamp that some process has reached has one of  *)
(* the two causes.                                                         *)
LEMMA RefusalIsDue ==
  ASSUME IInv, NEW p \in Node, NEW remote \in Timestamp, NEW sender,
         Rejects(remote, wall[p]), rejected' = Refusal(p, sender), peak' = peak,
         integrity = "clean" /\ sender = "process" =>
           \E q \in Node : remote.WallTime <= peak[q]
  PROVE  RefusesOnlyLaggards'
<1> SUFFICES ASSUME rejected'.due = "process"
             PROVE  \/ \E q \in Node : peak[q] - wall[p] > MaxDrift
                    \/ wall[p] + MaxDrift > MaxInt64
  BY DEF RefusesOnlyLaggards, Refusal
<1>1. integrity = "clean" /\ sender = "process"
  BY DEF Refusal
<1>2. PICK q \in Node : remote.WallTime <= peak[q]
  BY <1>1
<1>3. /\ remote.WallTime \in Int /\ peak[q] \in Int /\ wall[p] \in Int
      /\ MaxDrift \in Int /\ MaxInt64 \in Int
  BY Types, WidthAssumption, MaxDriftAssumption DEF Timestamp, Int64
<1>4. remote.WallTime > Add64(wall[p], MaxDrift)
  BY DEF Rejects
<1>5. CASE ~(wall[p] + MaxDrift > MaxInt64)
  <2>1. Add64(wall[p], MaxDrift) = wall[p] + MaxDrift
    BY <1>5 DEF Add64
  <2>2. peak[q] - wall[p] > MaxDrift
    BY <1>2, <1>3, <1>4, <2>1
  <2> QED
    BY <2>2
<1> QED
  BY <1>5

(* No step takes back a reading that a process has used. *)
LEMMA PeaksGrow ==
  ASSUME IInv, [Next]_vars, NEW q \in Node
  PROVE  peak[q] \in Int /\ peak'[q] \in Int /\ peak[q] <= peak'[q]
<1>1. \/ peak' = peak
      \/ \E p \in Node : peak' = [peak EXCEPT ![p] = MaxOf(peak[p], wall[p])]
  BY DEF Next, Now, Send, Receive, ReceiveRogue, ReceiveError, Restart, RestartError,
         SetWall, Update, vars
<1>2. peak \in [Node -> 0..MaxInt64]
  BY DEF IInv, TypeOK
<1>3. CASE peak' = peak
  BY <1>3, Types
<1>4. ASSUME NEW p \in Node, peak' = [peak EXCEPT ![p] = MaxOf(peak[p], wall[p])]
      PROVE  peak[q] \in Int /\ peak'[q] \in Int /\ peak[q] <= peak'[q]
  BY <1>2, <1>4, Types
<1> QED
  BY <1>1, <1>3, <1>4

(* NewWithMaxDrift's comment: the drift check absorbs the expected skew.   *)
(* Unless its sum overflows, it refuses a timestamp of a process only to a *)
(* clock that is more than maxDrift behind some reading.                   *)
THEOREM OnlyLaggardsRefuse == Spec => []RefusesOnlyLaggards
<1>1. Init => RefusesOnlyLaggards
  BY DEF Init, RefusesOnlyLaggards, Accepted
<1>2. IInv /\ RefusesOnlyLaggards /\ [Next]_vars => RefusesOnlyLaggards'
  <2> SUFFICES ASSUME IInv, RefusesOnlyLaggards, [Next]_vars
               PROVE  RefusesOnlyLaggards'
    OBVIOUS
  <2>1. CASE rejected' = rejected
    <3> SUFFICES ASSUME rejected.due = "process",
                        ~(rejected.pt + MaxDrift > MaxInt64)
                 PROVE  \E q \in Node : peak'[q] - rejected.pt > MaxDrift
      BY <2>1 DEF RefusesOnlyLaggards
    <3>1. PICK q \in Node : peak[q] - rejected.pt > MaxDrift
      BY DEF RefusesOnlyLaggards
    <3>2. rejected.pt \in Int /\ MaxDrift \in Int
      BY WidthAssumption, MaxDriftAssumption DEF IInv, TypeOK, Int64
    <3>3. peak'[q] - rejected.pt > MaxDrift
      BY <3>1, <3>2, PeaksGrow
    <3> QED
      BY <3>3
  <2>2. CASE rejected' = Accepted
    BY <2>2 DEF RefusesOnlyLaggards, Accepted
  <2>3. ASSUME NEW p \in Node, NEW m \in net, ReceiveError(p, m.stamp, "process")
        PROVE  RefusesOnlyLaggards'
    <3>1. m \in log /\ m.stamp \in Timestamp
      BY DEF IInv, TypeOK, HistoryTypeOK
    <3>2. integrity = "clean" => \E q \in Node : m.stamp.WallTime <= peak[q]
      BY <3>1 DEF IInv, StampsWitnessed
    <3> QED
      BY <2>3, <3>1, <3>2, RefusalIsDue DEF ReceiveError
  <2>4. ASSUME NEW p \in Node, NEW remote \in RogueStamps,
               ReceiveError(p, remote, "unknown")
        PROVE  RefusesOnlyLaggards'
    BY <2>4, RogueAssumption, RefusalIsDue DEF ReceiveError
  <2>5. ASSUME NEW p \in Node, RestartError(p)
        PROVE  RefusesOnlyLaggards'
    <3>1. integrity = "clean" => \E q \in Node : state[p].WallTime <= peak[q]
      BY DEF IInv, WallTimeWitnessed
    <3> QED
      BY <2>5, <3>1, Types, RefusalIsDue DEF RestartError
  <2> QED
    BY <2>1, <2>2, <2>3, <2>4, <2>5
    DEF Next, Now, Send, Receive, ReceiveRogue, Restart, SetWall, vars
<1> QED
  BY <1>1, <1>2, Invariance, PTL DEF Spec

-----------------------------------------------------------------------------
(* The binary form of a timestamp: encode.go.                              *)

(* An int64 survives the detour through a uint64. *)
LEMMA ToInt64OfToUint64 ==
  ASSUME NEW x \in Int64
  PROVE  /\ ToUint64(x) \in Nat /\ ToUint64(x) < 2 * (MaxInt64 + 1)
         /\ ToInt64(ToUint64(x)) = x
<1> DEFINE N == 2 * (MaxInt64 + 1)
<1>1. N \in Nat \ {0} /\ x \in Int /\ -(MaxInt64 + 1) <= x /\ x <= MaxInt64 /\ MaxInt64 \in Nat
  BY WidthAssumption DEF Int64
<1>2. CASE 0 <= x
  <2>1. x % N = x
    BY <1>1, <1>2
  <2> QED
    BY <1>1, <1>2, <2>1 DEF ToUint64, ToInt64
<1>3. CASE x < 0
  <2>1. x % N = x + N
    BY <1>1, <1>3
  <2> QED
    BY <1>1, <1>3, <2>1 DEF ToUint64, ToInt64
<1> QED
  BY <1>1, <1>2, <1>3

(* Decoding inverts encoding, and refuses rows of any other length. *)
LEMMA TimestampSurvives ==
  ASSUME NEW a \in Timestamp
  PROVE  Survives(a)
<1> DEFINE u == ToUint64(a.WallTime)
           x == Put(u, WallWidth)
           y == Put(a.Logical, LogicalWidth)
           data == x \o y
<1>1. /\ a.WallTime \in Int64 /\ a.Logical \in Uint32
      /\ a = [WallTime |-> a.WallTime, Logical |-> a.Logical]
  BY DEF Timestamp
<1>2. /\ u \in Nat /\ u < Capacity(WallWidth) /\ ToInt64(u) = a.WallTime
      /\ a.Logical \in Nat /\ a.Logical < Capacity(LogicalWidth)
  <2>1. /\ u \in Nat /\ u < 2 * (MaxInt64 + 1) /\ ToInt64(u) = a.WallTime
    BY <1>1, ToInt64OfToUint64
  <2>2. PICK c \in [0..LogicalWidth -> Nat] : c[LogicalWidth] = Capacity(LogicalWidth)
    BY FieldsAssumption, CapacityRounds
  <2>3. Capacity(LogicalWidth) \in Nat
    BY <2>2, FieldsAssumption
  <2>4. a.Logical \in Nat /\ a.Logical <= MaxUint32 /\ MaxUint32 \in Nat
    BY <1>1, WidthAssumption DEF Uint32
  <2> QED
    BY <2>1, <2>3, <2>4, FieldsAssumption
<1> HIDE DEF u
<1>3. /\ x \in Seq(Byte) /\ Len(x) = WallWidth /\ Uint(x) = u
      /\ y \in Seq(Byte) /\ Len(y) = LogicalWidth /\ Uint(y) = a.Logical
  BY <1>2, FieldsAssumption, PutType, UintOfPut
<1>4. MarshalBinary(a) = data
  BY DEF MarshalBinary, u
<1> HIDE DEF x, y
<1>5. /\ data \in Seq(Byte) /\ Len(data) = WallWidth + LogicalWidth
      /\ Slice(data, 0, WallWidth) = x
      /\ Slice(data, WallWidth, Len(data)) = y
      /\ \A cut \in 0..(Len(data) - 1) : Len(Slice(data, 0, cut)) = cut
  BY <1>3, SliceOfConcat
<1> HIDE DEF data
<1>6. UnmarshalBinary(data) = a
  BY <1>1, <1>2, <1>3, <1>5 DEF UnmarshalBinary
<1>7. \A cut \in 0..(Len(data) - 1) :
        UnmarshalBinary(Slice(data, 0, cut)) = ErrCorruptEncoding
  <2> SUFFICES ASSUME NEW cut \in 0..(Len(data) - 1)
               PROVE  UnmarshalBinary(Slice(data, 0, cut)) = ErrCorruptEncoding
    OBVIOUS
  <2>1. Len(Slice(data, 0, cut)) # WallWidth + LogicalWidth
    BY <1>5, FieldsAssumption
  <2> QED
    BY <2>1 DEF UnmarshalBinary
<1>8. \A b \in Byte : UnmarshalBinary(Append(data, b)) = ErrCorruptEncoding
  <2> SUFFICES ASSUME NEW b \in Byte
               PROVE  UnmarshalBinary(Append(data, b)) = ErrCorruptEncoding
    OBVIOUS
  <2>1. Len(Append(data, b)) # WallWidth + LogicalWidth
    BY <1>5, FieldsAssumption
  <2> QED
    BY <2>1 DEF UnmarshalBinary
<1> QED
  BY <1>4, <1>6, <1>7, <1>8 DEF Survives

(* Every timestamp that is issued or invented survives the wire. *)
THEOREM TimestampsSurvive == Spec => []TimestampsSurviveWire
<1>1. ASSUME NEW a \in Timestamp PROVE <<a, TRUE>> \in WireOutcomes
  <2>1. Survives(a) = TRUE
    BY TimestampSurvives DEF Survives
  <2> QED
    BY <2>1 DEF WireOutcomes
<1>2. TypeOK => TimestampsSurviveWire
  BY <1>1, RogueAssumption DEF TypeOK, HistoryTypeOK, TimestampsSurviveWire
<1> QED
  BY <1>2, TypeCorrect, PTL

(* The conversions between int64 and uint64 invert each other. *)
LEMMA ToUint64OfToInt64 ==
  ASSUME NEW u \in Nat, u < 2 * (MaxInt64 + 1)
  PROVE  ToUint64(ToInt64(u)) = u /\ ToInt64(u) \in Int64
<1> DEFINE N == 2 * (MaxInt64 + 1)
<1>1. MaxInt64 \in Nat /\ N \in Nat \ {0} /\ N = 2 * (MaxInt64 + 1)
  BY WidthAssumption
<1> HIDE DEF N
<1>2. CASE u > MaxInt64
  <2>1. (u - N) % N = u
    BY <1>1, <1>2
  <2> QED
    BY <1>1, <1>2, <2>1 DEF ToUint64, ToInt64, Int64, N
<1>3. CASE ~(u > MaxInt64)
  <2>1. u % N = u
    BY <1>1, <1>3
  <2> QED
    BY <1>1, <1>3, <2>1 DEF ToUint64, ToInt64, Int64, N
<1> QED
  BY <1>2, <1>3

(* hlc/encode.go:50, UnmarshalBinary on a row of any origin: a row of the  *)
(* right length is the encoding of the timestamp that is read from it.  So *)
(* no row is corrupt but for its length, and rows can be compared instead  *)
(* of timestamps.                                                          *)
THEOREM RowsAreTimestamps ==
  ASSUME NEW data \in Seq(Byte), Len(data) = WallWidth + LogicalWidth
  PROVE  MarshalBinary(UnmarshalBinary(data)) = data
<1> DEFINE x == Slice(data, 0, WallWidth)
           y == Slice(data, WallWidth, Len(data))
           a == UnmarshalBinary(data)
<1>1. WallWidth \in Nat /\ LogicalWidth \in Nat /\ Len(data) \in Nat
  BY FieldsAssumption
<1>2. x \in Seq(Byte) /\ Len(x) = WallWidth
  <2>1. 0 <= WallWidth /\ WallWidth <= Len(data) /\ WallWidth - 0 = WallWidth
    BY <1>1
  <2> QED
    BY <1>1, <2>1, SliceType
<1>3. y \in Seq(Byte) /\ Len(y) = LogicalWidth
  <2> DEFINE to == Len(data)
  <2>1. to \in Nat /\ WallWidth <= to /\ to <= Len(data) /\ to - WallWidth = LogicalWidth
    BY <1>1
  <2> HIDE DEF to
  <2>2. Slice(data, WallWidth, to) \in Seq(Byte) /\ Len(Slice(data, WallWidth, to)) = LogicalWidth
    BY <1>1, <2>1, SliceType
  <2> QED
    BY <2>2 DEF to
<1>4. a.WallTime = ToInt64(Uint(x)) /\ a.Logical = Uint(y)
  BY DEF UnmarshalBinary
<1>5. x \o y = data
  <2>1. Len(x \o y) = Len(data) /\ x \o y \in Seq(Byte)
    BY <1>1, <1>2, <1>3
  <2>2. \A j \in 1..WallWidth : x[j] = data[j]
    BY <1>1 DEF Slice
  <2>3. \A j \in 1..LogicalWidth : y[j] = data[WallWidth + j]
    BY <1>1 DEF Slice
  <2> HIDE DEF x, y
  <2>4. ASSUME NEW j \in 1..Len(data) PROVE (x \o y)[j] = data[j]
    <3>1. CASE j <= WallWidth
      BY <1>1, <1>2, <1>3, <2>2, <3>1
    <3>2. CASE ~(j <= WallWidth)
      <4>1. j - WallWidth \in 1..LogicalWidth /\ WallWidth + (j - WallWidth) = j
        BY <1>1, <3>2
      <4>2. \A k \in 1..Len(y) : (x \o y)[k + Len(x)] = y[k]
        BY <1>2, <1>3
      <4>3. (x \o y)[(j - WallWidth) + WallWidth] = y[j - WallWidth]
        BY <1>2, <1>3, <4>1, <4>2
      <4>4. (j - WallWidth) + WallWidth = j
        BY <1>1
      <4> QED
        BY <2>3, <4>1, <4>3, <4>4, Zenon
    <3> QED
      BY <3>1, <3>2
  <2> DEFINE z == x \o y
  <2>5. z \in Seq(Byte) /\ Len(z) = Len(data) /\ \A j \in 1..Len(data) : z[j] = data[j]
    BY <2>1, <2>4
  <2> HIDE DEF z
  <2>6. z = [j \in 1..Len(data) |-> z[j]] /\ data = [j \in 1..Len(data) |-> data[j]]
    BY <2>5
  <2>7. z = data
    BY <2>5, <2>6
  <2> QED
    BY <2>7 DEF z
<1> HIDE DEF x, y, a
<1>6. Put(Uint(x), WallWidth) = x /\ Put(Uint(y), LogicalWidth) = y
  BY <1>2, <1>3, PutOfUint
<1>7. Uint(x) \in Nat /\ Uint(x) < 2 * (MaxInt64 + 1)
  BY <1>2, UintType, FieldsAssumption
<1>8. ToUint64(a.WallTime) = Uint(x)
  BY <1>4, <1>7, ToUint64OfToInt64
<1>9. MarshalBinary(a) = x \o y
  BY <1>4, <1>6, <1>8 DEF MarshalBinary
<1> QED
  BY <1>5, <1>9 DEF a
=============================================================================
