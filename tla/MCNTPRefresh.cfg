\* Two starts, two callers of Stop; a panic ends the program.
CONSTANTS
  c1 = c1  c2 = c2
  Caller <- TwoCallers
  MaxStarts = 2
SPECIFICATION FairRefresh
CHECK_DEADLOCK FALSE
INVARIANTS RefreshTypeOK NoPanic StopTerminates
PROPERTIES StopReturns KeepsRefreshing
