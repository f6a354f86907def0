\* One query, whose response is cut short.
CONSTANTS
  MaxTime = 4
  MaxQueries = 1
  MaxSteps = 0
  Period = 2
  Rate = 2
  Scale = 4
  Skews <- ZeroOrBehind
  RootDisp = 1
  Cuts <- Lost
  Fine = 2
  ServerErrors <- Errors
  EpochOffset = 4
  EraLength = 8
  MaxInt64 = 7
SPECIFICATION Spec
CHECK_DEADLOCK FALSE
INVARIANT MalformedIsHarmless
