----------------------------- MODULE NTPRefresh -----------------------------
(***************************************************************************)
(* truetime/ntp_source.go: Start and Stop of an NTPSource, and the refresh *)
(* loop.  The k-th Start makes context k, channel k and goroutine k, and   *)
(* writes the first two to the fields cancel and done, without a lock.     *)
(* The goroutine evaluates s.done, the argument of its deferred close,     *)
(* when it begins to run, not when it is made.                             *)
(***************************************************************************)
EXTENDS Integers

CONSTANTS
  Caller,        \* goroutines that call Stop, and one of which calls Start
  MaxStarts      \* bound: calls of Start

ASSUME MaxStartsAssumption == MaxStarts \in Nat

Id == 1..MaxStarts
Nil == 0

VARIABLES
  starts,        \* calls of Start so far
  starting,      \* is one of them half done?
  cancel, done,  \* the fields: the context and the channel of a Start, or Nil
  cancelled,     \* the contexts that are Done
  closed,        \* the channels that are closed
  loop,          \* loop[k]: where goroutine k is
  deferred,      \* deferred[k]: the channel that goroutine k will close
  ticked,        \* the goroutines whose ticker has a tick in its channel
  stop,          \* stop[c]: where c is in Stop
  waitFor,       \* waitFor[c]: the channel that c receives from
  joined,        \* history: has a Stop returned since the last Start?
  overlapped,    \* history: did Start meet a loop or a Stop that was not over?
  panicked       \* has a goroutine closed a closed channel?

refreshVars == <<starts, starting, cancel, done, cancelled, closed, loop, deferred,
                 ticked, stop, waitFor, joined, overlapped, panicked>>
fields == <<starts, starting, cancel, done>>
loops == <<loop, deferred, ticked, closed>>
callers == <<stop, waitFor, joined, overlapped>>

RefreshInit ==
  /\ starts = 0 /\ starting = FALSE /\ cancel = Nil /\ done = Nil
  /\ cancelled = {} /\ closed = {} /\ ticked = {}
  /\ loop = [k \in Id |-> "none"]
  /\ deferred = [k \in Id |-> Nil]
  /\ stop = [c \in Caller |-> "idle"]
  /\ waitFor = [c \in Caller |-> Nil]
  /\ joined = TRUE /\ overlapped = FALSE
  /\ panicked = FALSE

-----------------------------------------------------------------------------
(* Start: the context, then the channel and the goroutine.  Nothing keeps  *)
(* its caller from starting again, nor others from calling Stop meanwhile. *)

StartContext ==
  LET k == starts + 1 IN
  /\ starts < MaxStarts /\ ~starting
  /\ starting' = TRUE
  /\ starts' = k /\ cancel' = k
  /\ joined' = FALSE
  /\ overlapped' = (overlapped \/ ~joined \/ \E c \in Caller : stop[c] # "idle")
  /\ UNCHANGED <<done, cancelled, loops, stop, waitFor, panicked>>

StartLoop ==
  /\ starting
  /\ starting' = FALSE
  /\ done' = starts
  /\ loop' = [loop EXCEPT ![starts] = "spawned"]
  /\ UNCHANGED <<starts, cancel, cancelled, closed, deferred, ticked, callers, panicked>>

\* whoever passed a context to Start cancels it
CancelParent(k) ==
  /\ k <= starts /\ k \notin cancelled
  /\ cancelled' = cancelled \cup {k}
  /\ UNCHANGED <<fields, loops, callers, panicked>>

-----------------------------------------------------------------------------
(* The goroutine of a Start.                                               *)

\* mutant of DeferredChannel: the goroutine is made before the field is set
NoChannel(k) == Nil

\* the argument of defer close(s.done)
DeferredChannel(k) == done

\* defer close(s.done), and the ticker
Begin(k) ==
  /\ loop[k] = "spawned"
  /\ loop' = [loop EXCEPT ![k] = "select"]
  /\ deferred' = [deferred EXCEPT ![k] = DeferredChannel(k)]
  /\ UNCHANGED <<fields, cancelled, closed, ticked, callers, panicked>>

\* the runtime's ticker: a tick is dropped when one is waiting
Tick(k) ==
  /\ loop[k] \in {"select", "query"} /\ k \notin ticked
  /\ ticked' = ticked \cup {k}
  /\ UNCHANGED <<fields, cancelled, closed, loop, deferred, callers, panicked>>

\* case <-t.C, which may be chosen also when the context is Done
BeginQuery(k) ==
  /\ loop[k] = "select" /\ k \in ticked
  /\ ticked' = ticked \ {k}
  /\ loop' = [loop EXCEPT ![k] = "query"]
  /\ UNCHANGED <<fields, cancelled, closed, deferred, callers, panicked>>

\* mutant of EndQuery: an error ends the loop
EndQueryReturns(k) ==
  /\ loop[k] = "query"
  /\ loop' = [loop EXCEPT ![k] = "exited"]
  /\ ticked' = ticked \ {k}
  /\ closed' = closed \cup {deferred[k]}
  /\ UNCHANGED <<fields, cancelled, deferred, callers, panicked>>

\* the query has an answer, an error, or reaches its deadline; the error is
\* dropped
EndQuery(k) ==
  /\ loop[k] = "query"
  /\ loop' = [loop EXCEPT ![k] = "select"]
  /\ UNCHANGED <<fields, cancelled, closed, deferred, ticked, callers, panicked>>

\* mutant of Exit: the ticker is looked at first
ExitWithoutTick(k) ==
  /\ loop[k] = "select" /\ k \in cancelled /\ k \notin ticked
  /\ loop' = [loop EXCEPT ![k] = "exited"]
  /\ closed' = closed \cup {deferred[k]}
  /\ UNCHANGED <<fields, cancelled, deferred, ticked, callers, panicked>>

\* case <-ctx.Done(): the deferred calls run; closing a closed channel panics
Exit(k) ==
  /\ loop[k] = "select" /\ k \in cancelled
  /\ loop' = [loop EXCEPT ![k] = "exited"]
  /\ ticked' = ticked \ {k}
  /\ closed' = closed \cup {deferred[k]}
  /\ panicked' = (panicked \/ deferred[k] \in closed)
  /\ UNCHANGED <<fields, cancelled, deferred, callers>>

-----------------------------------------------------------------------------
(* Stop.                                                                   *)

\* s.cancel is nil: Start was never invoked
StopUnstarted(c) ==
  /\ stop[c] = "idle" /\ cancel = Nil
  /\ joined' = TRUE
  /\ UNCHANGED <<fields, cancelled, loops, stop, waitFor, overlapped, panicked>>

StopCancel(c) ==
  /\ stop[c] = "idle" /\ cancel # Nil
  /\ cancelled' = cancelled \cup {cancel}
  /\ stop' = [stop EXCEPT ![c] = "cancelled"]
  /\ overlapped' = (overlapped \/ starting)
  /\ UNCHANGED <<fields, loops, waitFor, joined, panicked>>

\* <-s.done: the field is read, then the receive blocks
StopWait(c) ==
  /\ stop[c] = "cancelled"
  /\ waitFor' = [waitFor EXCEPT ![c] = done]
  /\ stop' = [stop EXCEPT ![c] = "waiting"]
  /\ UNCHANGED <<fields, cancelled, loops, joined, overlapped, panicked>>

\* mutant of StopReturn: Stop does not wait
StopReturnEarly(c) ==
  /\ stop[c] = "waiting"
  /\ stop' = [stop EXCEPT ![c] = "idle"]
  /\ joined' = TRUE
  /\ UNCHANGED <<fields, cancelled, loops, waitFor, overlapped, panicked>>

StopReturn(c) ==
  /\ stop[c] = "waiting" /\ waitFor[c] \in closed
  /\ stop' = [stop EXCEPT ![c] = "idle"]
  /\ joined' = TRUE
  /\ UNCHANGED <<fields, cancelled, loops, waitFor, overlapped, panicked>>

-----------------------------------------------------------------------------
\* a panic ends the program
RefreshNext ==
  /\ ~panicked
  /\ \/ StartContext \/ StartLoop
     \/ \E k \in Id :
          \/ CancelParent(k)
          \/ Begin(k) \/ Tick(k) \/ BeginQuery(k) \/ EndQuery(k) \/ Exit(k)
     \/ \E c \in Caller :
          StopUnstarted(c) \/ StopCancel(c) \/ StopWait(c) \/ StopReturn(c)

RefreshSpec == RefreshInit /\ [][RefreshNext]_refreshVars

(***************************************************************************)
(* Goroutines that can run do run, tickers tick, and a query ends, by its  *)
(* deadline at the latest.  A select that finds its context Done again and *)
(* again takes that case eventually: the choice is random.                 *)
(***************************************************************************)
Fairness ==
  /\ \A k \in Id : /\ WF_refreshVars(Begin(k)) /\ WF_refreshVars(Tick(k))
                   /\ WF_refreshVars(BeginQuery(k) \/ Exit(k))
                   /\ WF_refreshVars(EndQuery(k))
                   /\ SF_refreshVars(Exit(k))
  /\ WF_refreshVars(StartLoop)
  /\ \A c \in Caller : WF_refreshVars(StopWait(c)) /\ WF_refreshVars(StopReturn(c))

FairRefresh == RefreshSpec /\ Fairness

-----------------------------------------------------------------------------
(* Every variable has its type. *)
RefreshTypeOK ==
  /\ starts \in 0..MaxStarts /\ starting \in BOOLEAN
  /\ cancel \in 0..MaxStarts /\ done \in 0..MaxStarts
  /\ cancelled \subseteq Id /\ closed \subseteq Id /\ ticked \subseteq Id
  /\ loop \in [Id -> {"none", "spawned", "select", "query", "exited"}]
  /\ deferred \in [Id -> 0..MaxStarts]
  /\ stop \in [Caller -> {"idle", "cancelled", "waiting"}]
  /\ waitFor \in [Caller -> 0..MaxStarts]
  /\ joined \in BOOLEAN /\ overlapped \in BOOLEAN /\ panicked \in BOOLEAN

Alive(k) == loop[k] \in {"spawned", "select", "query"}

(* The proviso: nothing is claimed once Start was called before a Stop had *)
(* joined the last loop, or ran at the same time as a Stop.  The first     *)
(* loop is then beyond the reach of Stop, and may close the channel of the *)
(* second; and a Stop that finds cancel but not yet done waits for ever.   *)

(* No goroutine closes a channel that is closed already, which would end   *)
(* the program, however often the source is stopped, by several goroutines *)
(* at once or after its parent's context ended the loop, and started again. *)
NoPanic == panicked => overlapped

(* Stop's comment: it "terminates the background refresh loop".  From its  *)
(* return until the next Start no loop and no query is left, whichever of  *)
(* several Stops has returned, and also if a tick was chosen after cancel. *)
StopTerminates == joined /\ ~overlapped => \A k \in Id : ~Alive(k)

(* Every call of Stop returns, also when it meets a query in flight, when  *)
(* ticks come faster than queries end, and when the parent's context has   *)
(* ended the loop before.                                                  *)
StopReturns ==
  \A c \in Caller : stop[c] # "idle" ~> stop[c] = "idle" \/ overlapped

(* A loop whose context is not Done queries again and again: no failed     *)
(* query, dropped tick or other loop's end stops it.                       *)
KeepsRefreshing ==
  \A k \in Id : k <= starts ~> loop[k] = "query" \/ k \in cancelled \/ panicked
=============================================================================
