\* Two processes with a drift check, restarts, invented timestamps and wall
\* clocks that move both ways; the logical counter and the sum of the drift
\* check overflow within reach.
CONSTANTS
  n1 = n1  n2 = n2
  Node <- TwoNodes
  MaxEvents = 3
  MaxLog = 4
  MaxInt64 = 7
  MaxUint32 = 2
  MaxDrift = 2
  Instants <- Readings
  RogueStamps <- Invented
  Base = 2
  WallWidth = 4
  LogicalWidth = 2
SPECIFICATION Spec
SYMMETRY Symmetry
INVARIANTS
  TypeOK CausalOrder DriftBound WallTimeWitnessed TightLogical
  RefusesOnlyLaggards TimestampsSurviveWire
PROPERTY Monotonic
