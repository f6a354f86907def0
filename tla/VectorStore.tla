---------------------------- MODULE VectorStore ----------------------------
(***************************************************************************)
(* examples/vector_kv/main.go: a store that uses vector clocks to detect   *)
(* conflicting writes.  Clients stamp their writes with Send and catch up  *)
(* with Receive; this module adds the rows that each replica keeps for one *)
(* key.  A versionedValue is the send event of its write: the value is the *)
(* event, the version its stamp.  The order of the rows is left out.       *)
(*                                                                         *)
(* The example has one store, replicas here being stores that get the same *)
(* writes from the network: in any order, any number of times or never.    *)
(***************************************************************************)
EXTENDS VectorClock

CONSTANT Replica     \* the stores

VARIABLES
  rows,              \* rows[r]: the siblings that r holds
  got                \* history, got[r]: the writes that have reached r

store == <<rows, got>>

StoreInit ==
  /\ Init
  /\ rows = [r \in Replica |-> {}]
  /\ got = [r \in Replica |-> {}]

\* a row that makes the incoming write w stale
Supersedes(row, w) == Compare(w.stamp, row.stamp) \in {"Before", "Equal"}

\* mutant of Applied: rows are dropped although the incoming write is stale
DropsBeforeCheck(w, existing) ==
  LET keepers == {row \in existing : Compare(row.stamp, w.stamp) = "Concurrent"}
  IN  IF \E row \in keepers : Supersedes(row, w) THEN keepers ELSE keepers \cup {w}

\* the rows after write(key, value, version)
Applied(w, existing) ==
  LET keepers == {row \in existing : Compare(row.stamp, w.stamp) # "Before"}
  IN  IF \E row \in existing : Supersedes(row, w)
      THEN existing
      ELSE keepers \cup {w}

Write(r, w) ==
  /\ rows' = [rows EXCEPT ![r] = Applied(w, rows[r])]
  /\ got' = [got EXCEPT ![r] = got[r] \cup {w}]
  /\ UNCHANGED vars

StoreNext ==
  \/ Next /\ UNCHANGED store
  \/ \E r \in Replica, w \in net : Write(r, w)

StoreSpec == StoreInit /\ [][StoreNext]_<<vars, store>>

-----------------------------------------------------------------------------
(* Every variable has its type; a replica holds only what it was sent. *)
StoreTypeOK ==
  /\ TypeOK
  /\ got \in [Replica -> SUBSET net]
  /\ rows \in [Replica -> SUBSET net]
  /\ \A r \in Replica : rows[r] \subseteq got[r]

\* the writes that no other one of a set supersedes
Latest(writes) ==
  {w \in writes : \A other \in writes : ~HappensBefore(w, other)}

(* "The store keeps both writes as siblings rather than silently           *)
(* discarding one" (main.go:2): a replica's rows are exactly the writes    *)
(* that reached it and that no other write it received has seen.  Replicas *)
(* that received the same writes therefore hold the same rows, whatever    *)
(* the order and the number of deliveries.                                 *)
SiblingsAreLatest ==
  ~void => \A r \in Replica : rows[r] = Latest(got[r])
=============================================================================
