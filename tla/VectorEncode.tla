--------------------------- MODULE VectorEncode ---------------------------
(***************************************************************************)
(* vector/encode.go: the binary form of a Snapshot.  On the wire the nodes *)
(* are strings of bytes of any length, so each entry carries the length of *)
(* its node ID.  The widths of the fields are parameters: w is that of a   *)
(* uint16, for the number of entries and the length of an ID.              *)
(***************************************************************************)
EXTENDS VectorClock, BigEndian

CONSTANTS
  ValueWidth,     \* bytes of a uint64
  Widths,         \* the widths of a uint16 to look at
  Namings         \* the ways to look at to name the nodes by strings of bytes

ASSUME WidthsAssumption ==
  ValueWidth \in Nat /\ MaxUint64 < Capacity(ValueWidth) /\ Widths \subseteq Nat
ASSUME NamingsAssumption ==
  \A name \in Namings : /\ name \in [Node -> Seq(Byte)]
                        /\ \A n, m \in Node : name[n] = name[m] => n = m

\* the map that Clock.vec is, its keys being strings
Named(v, name) ==
  [id \in {name[n] : n \in DOMAIN v} |-> v[CHOOSE n \in DOMAIN v : name[n] = id]]

\* the order of sort.Strings
StringLess(a, b) ==
  \E i \in 1..Len(b) :
    /\ \A j \in 1..(i - 1) : j <= Len(a) /\ a[j] = b[j]
    /\ i > Len(a) \/ a[i] < b[i]

MaxUint16(w) == Capacity(w) - 1

TooLarge(m, w) ==
  \/ Cardinality(DOMAIN m) > MaxUint16(w)
  \/ \E id \in DOMAIN m : Len(id) > MaxUint16(w)

ErrTooLarge == [error |-> "too large"]

\* the IDs of a map after sort.Strings
SortedKeys(ids) ==
  CHOOSE keys \in [1..Cardinality(ids) -> ids] :
    \A i, j \in 1..Cardinality(ids) : i < j => StringLess(keys[i], keys[j])

Entry(m, id, w) == Put(Len(id), w) \o id \o Put(m[id], ValueWidth)

\* buff[i] is the buffer up to off after i rounds of the loop
MarshalBinary(m, w) ==
  LET keys == SortedKeys(DOMAIN m)
      count == Cardinality(DOMAIN m)
      buff[i \in 0..count] ==
        IF i = 0 THEN Put(count, w) ELSE buff[i - 1] \o Entry(m, keys[i], w)
  IN  IF TooLarge(m, w) THEN ErrTooLarge ELSE [data |-> buff[count]]

ErrCorruptEncoding == [error |-> "corrupt"]

\* one round of UnmarshalBinary's loop, s being off and vec before it
ReadEntry(data, w, s) ==
  LET idAt  == s.off + w
      idLen == Uint(Slice(data, s.off, idAt))
      valAt == idAt + idLen
  IN  IF s = ErrCorruptEncoding \/ idAt > Len(data) \/ valAt + ValueWidth > Len(data)
      THEN ErrCorruptEncoding
      ELSE [off |-> valAt + ValueWidth,
            vec |-> [id \in DOMAIN s.vec \cup {Slice(data, idAt, valAt)} |->
                       IF id = Slice(data, idAt, valAt)
                       THEN Uint(Slice(data, valAt, valAt + ValueWidth))
                       ELSE s.vec[id]]]

Start(w) == [off |-> w, vec |-> EmptyVector]

\* mutant of UnmarshalBinary: what follows the last entry is ignored
UnmarshalIgnoresTail(data, w) ==
  LET count == Uint(Slice(data, 0, w))
      loop[i \in 0..count] == IF i = 0 THEN Start(w) ELSE ReadEntry(data, w, loop[i - 1])
  IN  IF Len(data) < w \/ loop[count] = ErrCorruptEncoding
      THEN ErrCorruptEncoding
      ELSE [vec |-> loop[count].vec]

UnmarshalBinary(data, w) ==
  LET count == Uint(Slice(data, 0, w))
      loop[i \in 0..count] == IF i = 0 THEN Start(w) ELSE ReadEntry(data, w, loop[i - 1])
  IN  IF Len(data) < w \/ loop[count] = ErrCorruptEncoding \/ loop[count].off # Len(data)
      THEN ErrCorruptEncoding
      ELSE [vec |-> loop[count].vec]

\* v survives the wire, unless it is refused as too large, and its bytes are
\* refused when some are missing at the end or one is added
Survives(v) ==
  \A name \in Namings, w \in Widths :
    LET m == Named(v, name)
        bin == MarshalBinary(m, w)
    IN  bin # ErrTooLarge =>
          /\ UnmarshalBinary(bin.data, w) = [vec |-> m]
          /\ \A cut \in 0..(Len(bin.data) - 1) :
               UnmarshalBinary(Slice(bin.data, 0, cut), w) = ErrCorruptEncoding
          /\ \A b \in Byte :
               UnmarshalBinary(Append(bin.data, b), w) = ErrCorruptEncoding

\* a constant, so that TLC computes it once
WireOutcomes == {<<v, Survives(v)>> : v \in Vector}

(* encode.go:91, "Decodes a Snapshot from the format produced by           *)
(* MarshalBinary": decoding inverts encoding for every map of a clock,     *)
(* empty ones, zero entries, counters at their limit, and node IDs that    *)
(* are empty, that begin like another or that read like lengths included;  *)
(* a map is refused when its size or an ID does not fit, never cut off; a  *)
(* datagram that lost its tail, or gained one, is refused.                 *)
VectorsSurviveWire == \A p \in Node : <<vec[p], TRUE>> \in WireOutcomes
=============================================================================
