\* Two clients and a store: stale restarts, maps with zero entries, a counter
\* that wraps within reach, and every pair of IDs on the wire.
CONSTANTS
  n1 = n1  n2 = n2
  Node <- TwoNodes
  Replica = {r1}
  MaxEvents = 3
  MaxLog = 5
  MaxUint64 = 2
  Rosters <- EmptyOrFull
  Base = 2
  ValueWidth = 2
  Widths = {1, 2}
  Namings <- AllNamings
SPECIFICATION StoreSpec
SYMMETRY Symmetry
INVARIANTS
  ExactCausality ExactKnowledge EqualAgrees
  StoreTypeOK SiblingsAreLatest
  VectorsSurviveWire
