----------------------------- MODULE HLCEncode -----------------------------
(***************************************************************************)
(* hlc/encode.go: the binary form of a Timestamp, the wall time and then   *)
(* the counter, both of fixed width.                                       *)
(***************************************************************************)
EXTENDS HLC, BigEndian

CONSTANTS
  WallWidth,      \* bytes of an int64
  LogicalWidth    \* bytes of a uint32

ASSUME FieldsAssumption ==
  /\ WallWidth \in Nat /\ LogicalWidth \in Nat
  /\ Capacity(WallWidth) = 2 * (MaxInt64 + 1)
  /\ MaxUint32 < Capacity(LogicalWidth)

\* the conversions between int64 and uint64
ToUint64(x) == x % (2 * (MaxInt64 + 1))

\* mutant of ToInt64: the sign is lost
StaysUnsigned(u) == u

ToInt64(u) == IF u > MaxInt64 THEN u - 2 * (MaxInt64 + 1) ELSE u

MarshalBinary(a) == Put(ToUint64(a.WallTime), WallWidth) \o Put(a.Logical, LogicalWidth)

ErrCorruptEncoding == [error |-> "corrupt"]

UnmarshalBinary(data) ==
  IF Len(data) # WallWidth + LogicalWidth
  THEN ErrCorruptEncoding
  ELSE [WallTime |-> ToInt64(Uint(Slice(data, 0, WallWidth))),
        Logical  |-> Uint(Slice(data, WallWidth, Len(data)))]

\* a survives the wire, and its bytes are refused when some are missing or
\* one is added
Survives(a) ==
  LET data == MarshalBinary(a) IN
  /\ UnmarshalBinary(data) = a
  /\ \A cut \in 0..(Len(data) - 1) :
       UnmarshalBinary(Slice(data, 0, cut)) = ErrCorruptEncoding
  /\ \A b \in Byte : UnmarshalBinary(Append(data, b)) = ErrCorruptEncoding

\* a constant, so that TLC computes it once
WireOutcomes == {<<a, Survives(a)>> : a \in Timestamp}

(* encode.go:49, "decodes a Timestamp from the format produced by          *)
(* MarshalBinary": decoding inverts encoding for every timestamp that the  *)
(* clocks issue and for those that other senders invent, wall times before *)
(* 1970, which go through an unsigned integer, and counters at their limit *)
(* included; a row of any other length is refused.                         *)
TimestampsSurviveWire ==
  \A a \in RogueStamps \cup {e.stamp : e \in log} : <<a, TRUE>> \in WireOutcomes
=============================================================================
