\* Two queries, one step of the wall clock back by three units, two units of
\* drift; the end of the NTP era and the overflow are within reach.
CONSTANTS
  MaxTime = 4
  MaxQueries = 2
  MaxSteps = 1
  Period = 2
  Rate = 2
  Scale = 4
  Skews <- ZeroOrBehind
  RootDisp = 1
  Cuts <- Lost
  Fine = 2
  ServerErrors <- Errors
  EpochOffset = 4
  EraLength = 8
  MaxInt64 = 7
SPECIFICATION Spec
CHECK_DEADLOCK FALSE
INVARIANTS IntervalContainsTrueTime IntervalNotInverted WidthIsExplained
PROPERTY WidensBetweenQueries
