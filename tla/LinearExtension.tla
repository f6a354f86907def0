-------------------------- MODULE LinearExtension --------------------------
(***************************************************************************)
(* What a sort by a partial order promises: it emits every item once, an   *)
(* item only after all its predecessors, and gives up only when each item  *)
(* that is left waits for another one.                                     *)
(***************************************************************************)
EXTENDS Integers, Sequences

VARIABLES
  items,      \* what is sorted
  before,     \* the pairs <<i, j>> where i precedes j
  emitted,    \* the items that have been emitted, in order
  finished    \* has the sort returned?

vars == <<items, before, emitted, finished>>

Emitted == {emitted[k] : k \in DOMAIN emitted}
Ready(i) ==
  i \in items \ Emitted /\ \A j \in items : <<j, i>> \in before => j \in Emitted

Init ==
  /\ before \subseteq items \X items
  /\ emitted = <<>>
  /\ finished = FALSE

Emit(i) ==
  /\ ~finished
  /\ Ready(i)
  /\ emitted' = Append(emitted, i)
  /\ UNCHANGED <<items, before, finished>>

Finish ==
  /\ ~finished
  /\ \A i \in items : ~Ready(i)
  /\ finished' = TRUE
  /\ UNCHANGED <<items, before, emitted>>

Next == (\E i \in items : Emit(i)) \/ Finish

Safe == Init /\ [][Next]_vars
Spec == Safe /\ WF_vars(Next)
=============================================================================
