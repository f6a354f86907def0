\* Three processes with restarts and resets; the counter wraps within reach.
CONSTANTS
  n1 = n1  n2 = n2  n3 = n3
  Node <- ThreeNodes
  MaxEvents = 3
  MaxLog = 4
  MaxUint64 = 4
  ResetTo <- ResetAnywhere
SPECIFICATION Spec
SYMMETRY Symmetry
INVARIANTS TypeOK CausalOrder TightStamps
