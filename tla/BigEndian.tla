----------------------------- MODULE BigEndian -----------------------------
(***************************************************************************)
(* External: the big-endian integers of Go's encoding/binary, as the       *)
(* binary encodings of vector/ and hlc/ use them.  A string of bytes is a  *)
(* sequence, and the number of values of a byte a constant.                *)
(***************************************************************************)
EXTENDS Integers, Sequences

CONSTANT Base      \* a byte is one of 0..Base - 1

ASSUME BaseAssumption == Base \in Nat \ {0, 1}

Byte == 0..(Base - 1)

\* the number of values of w bytes
Capacity(w) ==
  LET values[i \in 0..w] == IF i = 0 THEN 1 ELSE Base * values[i - 1]
  IN  values[w]

\* PutUint16, PutUint32, PutUint64: x in w bytes, the last of them before any
\* shift of x
Put(x, w) ==
  LET shifted[i \in 0..w] == IF i = 0 THEN x ELSE shifted[i - 1] \div Base
  IN  [i \in 1..w |-> shifted[w - i] % Base]

\* Uint16, Uint32, Uint64
Uint(bytes) ==
  LET read[i \in 0..Len(bytes)] == IF i = 0 THEN 0 ELSE read[i - 1] * Base + bytes[i]
  IN  read[Len(bytes)]

\* data[from:to]
Slice(data, from, to) == SubSeq(data, from + 1, to)
=============================================================================
