\* Two transactions on two clocks, with time for one to follow the other; a
\* sleep shorter than the gap, and one that floors.
CONSTANTS
  t1 = t1  t2 = t2
  Txn <- TwoTxns
  MaxTime = 5
  MaxEps = 1
  Cap = 1
  Floor = 1
SPECIFICATION FairSpec
CHECK_DEADLOCK FALSE
INVARIANTS TypeOK ExternalConsistency CommittedInPast
PROPERTY WaitEnds
