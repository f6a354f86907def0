\* Two sessions that write for one actor without reading each other.
CONSTANTS
  s1 = s1  s2 = s2  s3 = s3  a1 = a1  a2 = a2
  Node <- TwoSessions
  Actor <- OneActor
  MaxEvents = 2
  MaxLog = 6
  MaxUint64 = 4
SPECIFICATION Spec
INVARIANT DiscardIsSafe
