\* One transaction, whose clock is sampled again after the wait.
CONSTANTS
  t1 = t1  t2 = t2
  Txn <- OneTxn
  MaxTime = 8
  MaxEps = 1
  Cap = 2
  Floor = 1
SPECIFICATION Spec
CHECK_DEADLOCK FALSE
INVARIANT ObserversSeeLater
