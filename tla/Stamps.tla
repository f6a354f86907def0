------------------------------- MODULE Stamps -------------------------------
(***************************************************************************)
(* ordering/happens_before.go: the adapters that make a Lamport, a hybrid  *)
(* and a vector timestamp Comparable.  A stamp is its concrete type with   *)
(* its value.  Comparable is an open interface: the types that a program   *)
(* adds are the stamps of type "Foreign", related in any way whatever.     *)
(***************************************************************************)
EXTENDS Snapshot

CONSTANT
  ForeignBefore   \* what HappensBefore holds between, as pairs of values of
                  \* types that the package does not define

LamportStamp(c) == [type |-> "Lamport", value |-> c]
HLCStamp(wall, logical) ==
  [type |-> "HLC", value |-> [WallTime |-> wall, Logical |-> logical]]
NewVectorStamp(snap) == [type |-> "Vector", value |-> snap]
ForeignStamp(x) == [type |-> "Foreign", value |-> x]

\* the values of the three types; a foreign type has any
IsStamp(s) ==
  \/ s.type = "Lamport" /\ s.value \in Nat
  \/ s.type = "HLC" /\ s.value \in [WallTime : Int, Logical : Nat]
  \/ s.type = "Vector" /\ \A n \in DOMAIN s.value : s.value[n] \in Nat
  \/ s.type = "Foreign"

\* hlc: Timestamp.Less
HLCLess(a, b) ==
  \/ a.WallTime < b.WallTime
  \/ a.WallTime = b.WallTime /\ a.Logical < b.Logical

\* mutant of HappensBefore: a type assertion that is not checked
HappensBeforeAnyType(s, o) ==
  CASE s.type = "Lamport" -> o.type = "Lamport" => s.value < o.value
    [] s.type = "HLC"     -> o.type = "HLC" => HLCLess(s.value, o.value)
    [] s.type = "Vector"  -> o.type = "Vector" => Compare(s.value, o.value) = "Before"
    [] s.type = "Foreign" -> <<s.value, o.value>> \in ForeignBefore

HappensBefore(s, o) ==
  /\ s.type = o.type
  /\ CASE s.type = "Lamport" -> s.value < o.value
       [] s.type = "HLC"     -> HLCLess(s.value, o.value)
       [] s.type = "Vector"  -> Compare(s.value, o.value) = "Before"
       [] s.type = "Foreign" -> <<s.value, o.value>> \in ForeignBefore

\* Concurrent of the three adapters
Concurrent(s, o) ==
  /\ s.type = o.type
  /\ CASE s.type = "Lamport" -> s.value = o.value
       [] s.type = "HLC"     -> s.value = o.value
       [] s.type = "Vector"  -> Compare(s.value, o.value) = "Concurrent"
=============================================================================
