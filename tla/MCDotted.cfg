\* Three sessions of two actors; a counter wraps within reach.
CONSTANTS
  s1 = s1  s2 = s2  s3 = s3  a1 = a1  a2 = a2
  Node <- ThreeSessions
  Actor <- TwoActors
  MaxEvents = 2
  MaxLog = 6
  MaxUint64 = 3
SPECIFICATION Spec
SYMMETRY Symmetry
INVARIANTS TypeOK ExactHistories ExactlyOneRelation WinnerIsLatest
