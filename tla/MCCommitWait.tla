---------------------------- MODULE MCCommitWait ----------------------------
(* Small instances of CommitWait for TLC.                                  *)
EXTENDS CommitWait, TLC

CONSTANTS t1, t2

OneTxn == {t1}
TwoTxns == {t1, t2}
=============================================================================
