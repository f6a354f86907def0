----------------------------- MODULE Causality -----------------------------
(***************************************************************************)
(* The system around the clocks: processes that execute events and         *)
(* exchange stamped messages, and the happens-before relation that the     *)
(* clocks of lamport/, vector/ and hlc/ promise to respect.                *)
(*                                                                         *)
(* Nothing here belongs to a clock.  The variables are history: they       *)
(* record what happened, so that a property can compare the stamps the     *)
(* library returned with the causal order of the events that got them.     *)
(* A message is the send event itself.  It stays in net for ever, so that  *)
(* it may be delivered late, out of order, more than once or never.        *)
(***************************************************************************)
EXTENDS Integers, FiniteSets

CONSTANTS
  Node,       \* the processes, each of which owns one clock
  MaxEvents,  \* bound: events a process executes
  MaxLog      \* bound: events they all execute

ASSUME MaxEventsAssumption == MaxEvents \in Nat

VARIABLES
  executed,   \* executed[p]: number of events executed by p
  known,      \* known[p]: identifiers of the events in p's causal past
  log,        \* every event executed, with its stamp and its causal past
  net         \* the send events, whose stamps travel in messages

history == <<executed, known, log, net>>

(***************************************************************************)
(* An event is the seq-th one of its node; past holds the identifiers of   *)
(* the events that happened before it.                                     *)
(***************************************************************************)
EventId(e) == <<e.node, e.seq>>

HappensBefore(e, f) == EventId(e) \in f.past

ConcurrentEvents(e, f) ==
  /\ EventId(e) # EventId(f)
  /\ ~HappensBefore(e, f)
  /\ ~HappensBefore(f, e)

HistoryInit ==
  /\ executed = [p \in Node |-> 0]
  /\ known = [p \in Node |-> {}]
  /\ log   = {}
  /\ net   = {}

NewEvent(p, past, stamp) ==
  [node |-> p, seq |-> executed[p] + 1, stamp |-> stamp, past |-> past]

Record(p, past, stamp) ==
  /\ executed[p] < MaxEvents /\ Cardinality(log) < MaxLog
  /\ executed' = [executed EXCEPT ![p] = executed[p] + 1]
  /\ known' = [known EXCEPT ![p] = past \cup {<<p, executed[p] + 1>>}]
  /\ log' = log \cup {NewEvent(p, past, stamp)}

LocalEvent(p, stamp) ==
  /\ Record(p, known[p], stamp)
  /\ UNCHANGED net

SendEvent(p, stamp) ==
  /\ Record(p, known[p], stamp)
  /\ net' = net \cup {NewEvent(p, known[p], stamp)}

ReceiveEvent(p, m, stamp) ==
  /\ Record(p, known[p] \cup m.past \cup {EventId(m)}, stamp)
  /\ UNCHANGED net

(***************************************************************************)
(* What a well-formed history looks like, whatever the stamps are.         *)
(***************************************************************************)
Ids == {<<p, k>> : p \in Node, k \in 1..MaxEvents}

HistoryTypeOK(Stamp) ==
  /\ executed \in [Node -> 0..MaxEvents]
  /\ known \in [Node -> SUBSET Ids]
  /\ log \subseteq [node : Node, seq : 1..MaxEvents,
                    stamp : Stamp, past : SUBSET Ids]
  /\ net \subseteq log

\* events are recorded once, and their causes before them
KnownAreRecorded ==
  /\ \A p \in Node : \A id \in known[p] : \E e \in log : EventId(e) = id
  /\ \A f \in log : \A id \in f.past : \E e \in log : EventId(e) = id

RecordedOnce ==
  /\ \A e \in log : e.seq <= executed[e.node]
  /\ \A e, f \in log : EventId(e) = EventId(f) => e = f

\* the events of one process are ordered, and known to it
ProcessOrder ==
  /\ \A e \in log : EventId(e) \in known[e.node]
  /\ \A e, f \in log : e.node = f.node /\ e.seq < f.seq => HappensBefore(e, f)

Irreflexive == \A e \in log : ~HappensBefore(e, e)

HistoryOK == KnownAreRecorded /\ RecordedOnce /\ ProcessOrder /\ Irreflexive
=============================================================================
