\* Three processes, one of them made from a map with two zero entries.
CONSTANTS
  n1 = n1  n2 = n2  n3 = n3
  Node <- ThreeNodes
  MaxEvents = 2
  MaxLog = 6
  MaxUint64 = 4
  Rosters <- EmptyOrPair
SPECIFICATION Spec
INVARIANT EqualMeansIdentical
