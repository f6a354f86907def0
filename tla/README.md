# A TLA+ verification of chrono

chrono is a Go library of clocks for distributed systems: Lamport clocks, vector
clocks, hybrid logical clocks, TrueTime-style clocks with commit wait, dotted
versions, and helpers to sort events by any of them. This directory holds TLA+
models of its packages, TLC configurations that check them on small instances, and
TLAPS proofs of the main results for every instance. `PROJECT.json` maps every
definition to the lines it models.

    tlc -workers 2 -config MCLamport.cfg MCLamport    # a run
    tlapm LamportProofs.tla                           # a proof

## 1. Inventory

| component | state | operations | used by |
|---|---|---|---|
| `lamport/clock.go` | a `uint64` behind a mutex | `New`, `NewAt`, `Tick`, `Send`, `Receive`, `Now`, `Reset` | `ordering`, examples |
| `hlc/clock.go` | a `Timestamp` (int64 wall time, uint32 counter), `maxDrift`, a wall clock; a mutex | `New`, `NewWithMaxDrift`, `Now`, `Send`, `Receive` (may fail), `Current`; `Timestamp.Less` | `ordering`, examples |
| `internal/wallclock` | an int64 reading, atomically updated (`Fake`); the OS clock (`Real`) | `NowNanos`, `Set`, `Advance`, `Step`, `Reverse` | `hlc`, `truetime` |
| `vector/clock.go`, `compare.go` | a map from node IDs to `uint64` behind an RWMutex; `Snapshot` is an immutable copy | `New`, `NewFromMap`, `Tick`, `Send`, `Receive`, `Now`; `Get`, `Equal`, `Compare` | `ordering`, examples |
| `truetime/` clock, interval, commit wait | an `UncertaintySource` that returns an `Interval` | `Clock.Now`, `After`, `Before`; `CommitWait`, `WithCommitWait` | examples |
| `truetime/ntp_source.go` | offset, uncertainty and time of the last query behind an RWMutex; a background goroutine | `Now`, `query`, `Start`, `Stop` | `truetime.Clock` |
| `dotted/` | immutable `Version`s, maps from actors to `uint64` | `Increment`, `Merge`, `Descends`, `Dominates`, `Equals`, `Concurrent`, `ResolveLatestWriteWins` | callers' stores |
| `ordering/` | none | `TopologicalSort`, `MaximalElements`, `MinimalElements`, adapters for the three kinds of stamp | callers |
| `vector/encode.go`, `hlc/encode.go` | none | `MarshalBinary`, `UnmarshalBinary` and JSON | callers |
| `examples/vector_kv` | rows of versioned values per key | `write`, `read` | - |

**Interaction.** The packages share no state. A clock belongs to a process, and clocks
meet only through the stamps that callers put into messages, so a message may be
late, lost, repeated or reordered. A hybrid clock reads a wall clock that somebody else
moves. Commit wait samples a clock several times while time passes and the source
learns or loses confidence. An `NTPSource` is such a source: its refresh goroutine replaces the
estimate that callers of `Now` read, and its owner starts and stops that goroutine. A store combines `Send`, `Receive` and `Compare`.

**What is hard.** Which orders of deliveries, ticks and restarts can occur; counters at the
limit of their width; wall clocks that step back under a hybrid clock; the drift check at
and beyond the limit of int64; partial maps, zero entries, and nodes that only one of two
maps knows; intervals that change between the sample that picks a timestamp and the ones
that wait for it; a query that is in flight while the clocks drift and step; `Start` and
`Stop` that meet a loop in any of its states; input for the sort that is not a partial order; bytes that were
cut off. `PROJECT.json` lists these hazards with the lines where they bite
and the properties about them.

**What makes each part correct.**

* lamport: causal order implies stamp order; stamps no larger than causality demands.
* hlc: causal and monotonic whatever the wall clocks do; close to physical time; a bounded
  effect of senders that invent timestamps; clocks within the drift of each other never refuse each other.
* vector: `Compare` decides happens-before exactly; a clock's map is what its process knows.
* commit wait: external consistency; the timestamp of a visible transaction is past; the
  wait ends.
* store: a replica's siblings are the writes that nothing it received supersedes.
* NTP source: intervals contain the true time, are no wider than delay, dispersion and age explain, and widen between queries;
  `Stop` returns, and nothing runs after it; the loop keeps refreshing.
* binary encodings: decoding inverts encoding and refuses what was cut off or lengthened; equal values have equal bytes.
* dotted: the four tests decide the causal relation of two writes; a resolution never picks a
  superseded one.
* ordering: the sort's result is the least linear extension of its input, and what is missing is on a cycle or after
  one; the frontier covers every event; the adapters are one strict partial order.
* encodings: decoding inverts encoding, and what was cut off or continued is refused.

## 2. Modules

| module | models | extends |
|---|---|---|
| `Causality` | processes, events, messages, happens-before (history variables only) | |
| `Lamport` | `lamport/clock.go` | `Causality` |
| `HLC` | `hlc/clock.go`, `wallclock/fake.go` | `Causality` |
| `Snapshot` | the pure functions of `vector/` | |
| `VectorClock` | `vector/clock.go` | `Causality`, `Snapshot` |
| `VectorStore` | `examples/vector_kv/main.go` over the vector clocks | `VectorClock` |
| `Dotted` | `dotted/`, used by the sessions of a store | `Causality` |
| `CommitWait` | `truetime/` except the NTP source | |
| `NTPSource` | `truetime/ntp_source.go`: `query`, `Now` | |
| `NTPRefresh` | `truetime/ntp_source.go`: `Start`, `Stop`, the loop | |
| `Stamps` | `ordering/happens_before.go`: the adapters | `Snapshot` |
| `LinearExtension` | abstract: what a sort by a partial order promises | |
| `Ordering` | `ordering/partial_order.go`; refines `LinearExtension` | `Stamps` |
| `BigEndian` | external: the integers of `encoding/binary` | |
| `HLCEncode` | `hlc/encode.go`, binary form | `HLC`, `BigEndian` |
| `VectorEncode` | `vector/encode.go`, binary form | `VectorClock`, `BigEndian` |
| `MC*` | instances for TLC | |
| `CommonProofs` | lemmas about histories, induction over data, and the bytes of a number | `Causality`, `BigEndian`, `TLAPS` |
| `*Proofs` | theorems about the module they are named after; `HLCProofs` covers `HLCEncode` too, `VectorProofs` `VectorClock`, `VectorStore` and `VectorEncode`, `NTPProofs` `NTPSource` and `NTPRefresh` | that module, `TLAPS` |

**Causality** is the context in which a clock is used. It records each event with its
stamp and its causal past, as a set of event identifiers. A message is the send event itself
and is never removed from `net`: it can be received at any later time by anyone (its sender
included), any number of times, or never. Happens-before is defined by these pasts, never by
the stamps, so that a property can compare the two.

**The clocks.** Every method of the three clocks takes its lock first and releases it last, so
one action models one call, and its return value is the stamp of the event. (`MaxLog` bounds the events of a
whole history, `MaxEvents` those of a process.) The fields of a
`Clock` are the variables `counter`, `state` and `vec`, one per process. `Now` of the Lamport and
the vector clock changes nothing; it is there because its caller saves the value on `disk`, from
where `NewAt` and `NewFromMap` restart after a crash, possibly from an old value. The hybrid
clock has no such constructor: `Restart` makes a new `Clock` and passes the saved timestamp
through `Receive`, as a user of the package has to; `RestartError` is the refusal of that
timestamp by the drift check when the wall clock has been set back meanwhile.
`SetWall` stands for all ways to move a wall clock.

Counters are modular, as in Go, with their width as a constant. What a wrap, a stale restart, a
`Reset` or an invented timestamp does to the guarantees is the caller's responsibility,
except where a comment promises more than the code does (section 3). The history variables `integrity` and `void` remember
that it happened; they are set from the *preconditions* of the operation (a counter at its
limit, a saved value that differs), never from its result, and the guarantees are stated for
histories in which it did not. A history after such an event is still explored: the properties
that do not depend on it (types, the drift bound, `EqualAgrees`) are checked there too.

**CommitWait** is not atomic. A transaction moves through `fn`, the pick of `Latest`, the first
test, the head of the loop, and the `select`; between any two of these steps time advances, the
source shows another interval, the context is cancelled, or another transaction runs. A step
samples the source once, like the code. `wakeAt` is the timer, with the cap and the floor of the
sleep. The source is the environment, constrained by the one promise that the comment of
`UncertaintySource` makes: the interval contains the true time. Each transaction has its own
source, so the results hold for transactions on different machines as well as on one.

**VectorStore** adds to the vector clocks the rows that replicas of the example's store keep for
one key. A write is a send event: its stamp is the version, and the event itself the value. Rows
are a set, because their order only matters to the printout. The `got` of a replica is history.

**Dotted** has no state in the code: a `Version` is immutable. The model adds who uses it. A session holds
the `Version` of what it has read and written; `Write` stores a value under `Increment` of it, `Read` merges
the `Version` of a stored value. The initial state chooses the actor of each session freely, so sessions may
share one, as clients of one storage node or a client that reconnects. `integrity` becomes
"shared" when a session writes for an actor whose earlier writes it has not all seen.

**NTPSource** tells apart the true time `now`, the host's monotonic clock (`now + dev`, which drifts by at most one
unit per `Period`, the constant that `driftPPM` stands for) and its wall clock, which drifts along and is `skew` away
because somebody set it. A Go time holds both readings: `elapsed` and the round trip are monotonic differences, whereas
those with the server's times are differences of wall readings. A query is four steps (`Send`, the server's two,
`Receive`), between which anything may happen; `QueryError` ends it at any point. `CopyEstimate` and `ReturnInterval` are the two
halves of `Now`, with the unlock between them. The clock of the server is off by anything within its root
dispersion, differently at T2 and T3. NTP timestamps wrap at the end of an era and are truncated by `ntpTimeFromBytes`; the product
`elapsed * driftPPM` wraps; divisions truncate. A short response ends between two fields or within one (`Cut`), and the rest reads as zero. `trust`, `slack`,
`sent` and `took` are history: whether the wall clock was
stepped since the query began, the response was short or the era over, how much the host drifted during the query, the true time
when it began, and how long it took.
`NewNTPSource` is the first query; until it has succeeded there is no source.

**NTPRefresh** has one goroutine, context and channel per `Start`, and callers that call `Stop` concurrently. The fields
`cancel` and `done` are written by `Start` in two steps and read by `Stop` and by the goroutine without a lock. The
argument of `defer close(s.done)` is evaluated when the goroutine begins to run, which is what makes a
restart delicate. `select` takes either case that is ready. A ticker holds at most one tick. A panic ends the program.

**Ordering** is the loop of `TopologicalSort`, a round per step, on indices, because IDs and stamps may repeat. The in-degrees,
the used flags and the result are the variables. `MaximalElements` and `MinimalElements` are definitions of their input.
`Comparable` is an open interface, so besides the adapters of `Stamps` the input may have stamps of a "Foreign" type,
whose `HappensBefore` is an arbitrary relation, cycles included. `Abstract` maps the loop to `LinearExtension`: the
items are the indices, the pairs the edges, and `out` is what was emitted.

**HLCEncode** and **VectorEncode** are functions on sequences of bytes; the number of values of a byte and the widths of
the fields are constants. In `VectorEncode` a node has a name, a string of bytes, and the IDs are sorted by them; `buff[i]` is what the buffer holds up to `off`
after `i` rounds. The properties look at every timestamp and map that the clocks reach in the runs of `HLC` and `VectorStore`.

## 3. Runs

Each passing run takes at most about two minutes.

| run | instance | shows |
|---|---|---|
| `lamport` | 3 processes, 4 events, counters 0..4 | clock condition, tightness; with restarts and resets |
| `hlc` | 2 processes, 4 events, readings {0, 2, 6}, maxDrift 2, int64 to 7, counters 0..2, three invented timestamps | causality, monotonicity, drift bound, closeness, refusals by laggards only, the binary form |
| `vector_equal` | 3 processes, a map with zero entries | *violated*: `Equal` on different vectors |
| `store` | 2 clients, 5 events, counters 0..2, empty and full maps of zeros, 1 store; 12 namings of the nodes, lengths of 1 and 2 bytes | exact causality and knowledge, `Equal`; siblings are the unsuperseded writes; the binary form |
| `dotted` | 3 sessions of 1 or 2 actors, 2 writes each, counters 0..3 | the tests are exact, exclusive and exhaustive; last-write-wins |
| `dotted_discard` | 2 sessions of 1 actor | *violated*: what is dominated was seen |
| `commit_wait` | 2 transactions, 2 sources, time 0..5, uncertainty 1 | external consistency; timestamps are past; the wait ends |
| `commit_wait_observers` | 1 transaction | *violated*: later samples may reach back to the commit timestamp |
| `ntp_source` | 2 queries, time 0..4, one step of the wall clock by 3, drift 1 in 2 | containment; intervals are not inverted, no wider than explained, and widen |
| `ntp_short` | 1 query, a short response | *violated*: a malformed response is an error |
| `ntp_refresh` | 2 starts, 2 callers of `Stop` | no double close; `Stop` terminates the loop and returns; the loop refreshes |
| `ordering` | slices of up to 3 events over 8 stamps of all types, and of up to 4 with a cycle | refinement, completeness, the least extension, the frontier, the adapters |

**Bounds.** `MaxEvents` bounds the events of a process: two suffice for a send and a receive on
both sides, hence for crossing messages, repeated receipts and causality through another process;
three let a counter wrap and the process go on. Widths (`MaxUint64`, `MaxUint32`, `MaxInt64`) are
small enough to be reached. The readings of `hlc` are chosen so that remote and local times tie, lead
and trail, so that 0 and 2 are within the drift of each other and 6 is beyond it, hence a timestamp received or saved can be too,
and so that the sum of the drift check wraps at 6. In `CommitWait`, `MaxTime` ends
time, and `LastCommit` keeps transactions from picking timestamps that cannot pass before it
ends; `MaxTime` = 5 with an uncertainty of 1 lets one transaction become visible and another start, pick and become
visible after it. One store suffices: `SiblingsAreLatest` says what its rows are as a function of the writes that reached
it, so stores that got the same writes agree. In `NTPSource`, the instance is so small that the overflow of the product, the end
of an era (between T1 and T2, between T2 and T3, or before both) and two units of drift are within reach, and a short response
(`Cuts`) ends after a field, within it, or before it; `MaxQueries` = 2
lets a query replace an estimate that a `Now` has copied. Two starts and two callers show each case
of `NTPRefresh`: a stop that meets another, the parent's cancellation, and a restart. The slices of
`Ordering` have every kind of tie: equal IDs, equal stamps, incomparable vectors, and mixed types.

Deadlock is not checked where the system really stops: time ends in `CommitWait` and `NTPSource`, a sort returns, and
a source may stay stopped. In the other modules a wall clock can always move or a value be saved again.

**Symmetry** is used for processes in the safety runs only: nothing in the modules tells members of this set apart,
and the names of `VectorEncode` are all looked at in every state.

**Fairness.** `commit_wait` assumes weak fairness of the passage of time and of the steps of each goroutine. Go's scheduler
runs a goroutine that can run, and a timer that is due fires. Nothing is assumed about the sources, which may change at
every step, nor about the caller, who need not cancel. `WaitEnds` needs `now >= wakeAt` in the timer: a lost wakeup
would break it. It also needs every interval to contain the true time, with bounded uncertainty.
`ntp_refresh` assumes that goroutines that can run do, that tickers tick, that a query ends (it has a deadline of five
seconds), and, as strong fairness of `Exit`, that a `select` which finds its context done again and again takes that case at some
point: Go chooses uniformly at random among the cases that are ready. Nothing obliges anyone to start, to stop or to
cancel. `ordering` assumes that a function that was called runs.

**The violations** are disagreements between comments and code. `Snapshot.Equal` errs on maps with zero entries. A
comment on `dotted` does not hold for an actor with several sessions. One promise about later samples commit wait
cannot keep; `CommittedInPast` and `ExternalConsistency` hold nevertheless. `query` ignores how many bytes it has read, so
that a short response is not the error that `ErrShortNTPResponse` documents but a timestamp of 1900.

Provisos of the passing properties mark other limits:

* "an HLC's output never goes backward" (`hlc/doc.go:15`) does not survive the limit of the uint32 counter, which wraps to 0
  while the wall time stands still: `Monotonic` and `CausalOrder` except counters at the limit.
* With a maxDrift near the largest duration, `pt + maxDrift` wraps and every timestamp is refused: `RefusesOnlyLaggards`
  names that sum, and `DriftBound` holds there too, since the wrapped sum is negative.
* `docs/COMPARISON.md:144` says that "persistence of HLC `Timestamp` to disk" covers a restart. `hlc` has no constructor
  that restores one, and `Receive` may refuse it: the clock then restarts from zero (`RestartError`), and the causal
  properties except what follows. By `RefusesOnlyLaggards` this takes a clock that is set back, or behind others,
  by more than maxDrift.
* "*Clock and its sources are safe for concurrent use" (`truetime/doc.go:26`) is not so for `Start`. When it is called before a
  `Stop` has joined the last loop, or at the same time as a `Stop`, the first loop may be beyond reach, two loops may close one channel,
  which panics, or a `Stop` may wait for ever: `overlapped` in `NTPRefresh`. `NoPanic` and `StopTerminates` leave these histories out.
* An interval of an `NTPSource` is not one around the true time after the wall clock was stepped (until the next query), nor after the end of
  the NTP era in 2036, nor about 1.5 years after the last successful query, when the product overflows. It is up to two
  units (nanoseconds) short because of truncations, and by the drift during the query, for which nothing is added (`Rounding`
  and `slack`). The root delay that the server reports is not used; the model's server has none.
  These are the provisos of `IntervalContainsTrueTime` and `WidensBetweenQueries`: the runs go through the end of an era and the overflow,
  and the properties claim nothing there.

Two more comments are inexact. `Definitely` is not "the predicate the commit-wait loop polls on"
(`interval.go:35`): the loop's test is strict, and has to be, since with `Definitely` in its place
`CommittedInPast` and `ExternalConsistency` fail. A write that does not descend from the stored value need not
be "equal or concurrent" (`version.go:49`): a late one is older.

## 4. Proofs

The theorems hold for every set of processes, every number of events and every width. They assume only
what the modules' `ASSUME`s say: bounds are naturals, readings and invented timestamps have their Go
types, maxDrift is not negative, initial maps contain only zeros, and the sleep has a positive floor
not above its cap; a slice is a finite sequence of records whose IDs are naturals and whose stamps have the types of their adapters;
an int64 takes exactly `WallWidth` bytes, and a uint32 fits `LogicalWidth` and a map's counter `ValueWidth`; the names of nodes are
different strings of bytes; a unit of drift has a positive period, a cut loses at least one unit, and a root dispersion
does not exceed `EpochOffset` (an NTP short format holds at most 18 hours, whereas 70 years lie between the
epochs of NTP and Unix). TLC evaluates these on every run.

* `CommonProofs`: a step that records an event keeps the history well formed (each event
  recorded once, causes recorded before effects, processes totally ordered, no event its own cause). Its second part is
  induction, over the naturals and over the subsets of a finite set, and the existence of what a loop computes. The
  theorems of the library for this take the predicate as a parameter, which the provers cannot instantiate; here it is
  the *set* of the values that have the property, and the argument a least counterexample. Its third part is the bytes of a
  number: those that `Put` writes are the remainders of the successive quotients, and `Uint` runs through these quotients
  backwards, from the 0 that is left when the number fits; conversely, every string of bytes is what `Put` writes for the number it reads as.
* `LamportProofs`: `ClockCondition`, `StampsAreTight`. The clock condition is not
  inductive, because it says nothing about the counters. The invariant adds that a counter is at least
  the stamp of every event its process knows, and stamps exceed those of their causes; for tightness,
  that each non-zero counter is reached by a known event with that stamp.
* `HLCProofs`: `Causal` and `ClocksAreMonotonic` along the same lines, with `Less` in place of `<`, over
  lemmas about `Advance` and `Merge` (the result exceeds each argument unless a counter at the limit is
  involved). `DriftIsBounded` needs that the drift check's sum does not wrap towards acceptance.
  `CloseToPhysicalTime` bounds every wall time by a reading used somewhere. `CountersAreTight` says that a counter continues
  that of a cause at the same wall time, so that no counter grows without reason; its invariant ties each clock's state to an event
  that its process knows. `OnlyLaggardsRefuse`: the wall time of
  a stamp is at most a reading that some process has used, and the largest reading of a process only grows.
  `TimestampsSurvive`: with the lemmas about bytes, a negative wall time survives the detour through a uint64.
  `RowsAreTimestamps` is the converse: a row of the right length, whoever wrote it, is the encoding of what is read from it.
* `VectorProofs`, the clocks: `CharacterisesCausality` and `MapsAreKnowledge`. The invariant reads a map as a set of
  events: it covers the k-th event of n if its counter for n is at least k. A clock's map covers exactly
  what its process knows, a snapshot exactly its event and the causes of that; counters do not exceed
  the numbers of events; causal pasts are closed. Then `LessOrEq` is inclusion, and `Compare`
  follows. `EqualIsSound` holds for finite sets of processes, on maps without zero entries.
* `VectorProofs`, the store: `RowsAreLatest`, for any number of clients and stores. The invariant: rows are an antichain, and every
  write received is a row or happened before one. The latter is what makes a comparison with the rows alone
  as good as one with everything ever received. `ConflictsAreReal` adds what the clocks' invariant
  says of stamps: the versions that a replica reports as conflicting belong to writes of which neither knew the other.
* `VectorProofs`, the wire: `VectorsSurvive`, for finite sets of processes, all their names and all widths. First, the order of strings is
  strict and total, so that a finite set of strings can be sorted in exactly one way (`SortedKeysUnique`), which lists every string once:
  what `sort.Strings` returns does not depend on the order in which Go's map was ranged over. Second, each buffer begins
  the next one, and the fields of an entry lie where the lengths before them add up to. Third, a string that *agrees*
  with the encoding as far as both go is read, round by round, up to where it ends; after the last round it is accepted if it is exactly as
  long as the encoding (`ReadsWhatAgrees`). The encoding itself, a prefix of it and the encoding with a byte added are three such
  strings. `BytesIdentifyMaps` follows. `DecodedIsEncodable` starts from the other end, with any bytes: the loop of
  `UnmarshalBinary` keeps at most one entry per round, with IDs and values that fit their fields, hence
  what it accepts can be encoded and read again, although the bytes need not be the same.
* `CommitWaitProofs`: `ExternallyConsistent` and `VisibleInPast`. The invariant: sources contain the true
  time, timestamps of visible transactions are past, and whatever was visible when a transaction started
  still is. A later pick is at least the true time, and so exceeds them.
* `DottedProofs`: `VersionsAreHistories`. The rank of a write is the counter of its own actor in its version. The invariant, for
  histories in which the sessions of an actor see each other's writes: no counter is ahead of the number of writes of its
  actor, whoever knows a write has a version that descends from its version, and whoever has reached its rank knows
  it. A new write has a rank that nobody has reached. `RelationsAreExclusive` only needs that no counter has wrapped: then the
  maps are finite and without zeros, so that the lengths that `Equals` compares stand for the sets of actors and the two loops
  of `Dominates` find that the converse of `Descends` fails. `WinnersAreLatest`: what is dominated has a smaller sum. The sum
  of a map does not depend on the order in which the loop meets its entries, which is shown by giving every set of actors a
  sum; it grows with each counter; and as long as it fits, no partial sum wraps.
* `NTPProofs`, the loop: `NoDoubleClose` and `StopJoinsTheLoop`. As long as no start overlapped, the fields name the context and
  the channel of the last `Start`, only its loop is alive, and a loop that is alive will close that open channel.
* `NTPProofs`, the source: `NowContainsTrueTime`, `NowReturnsAnInterval`, `NowIsNoWiderThanExplained`, `WidthNeverShrinks`. The invariant keeps the true
  times of the steps of a query, in their order, together with what the clocks showed: half the round trip and the root
  dispersion then bound the distance between the midpoint and the true time (the four timestamps). Since the query the host has
  drifted by at most one unit per full period, plus one; the quotient that `Now` adds counts the full periods. For the width,
  the same times bound the dispersion from above: the wall readings cancel, and what is left is the time that the query took, the server's
  errors, and the drift within the query. That the fields have their types is part of this invariant.
* `OrderingProofs`, the adapters: `AdaptersAreOrders` and, since these orders have no cycles, `AdaptersSortCompletely`: a
  sort of the package's own stamps, mixed in any way, is never short.
* `OrderingProofs`, the sort: for every finite slice and every `HappensBefore`, `ShortOnlyAtCycles`, `SortIsLeast`,
  `FrontierIsComplete`, and `ImplementsLinearExtension`, the refinement of the safety part of `LinearExtension`. The invariant: an
  in-degree is the number of predecessors that are not in the result, and the result contains the predecessors of each of its
  members. When nothing is available, the events that are left are a set in which each waits for another, hence within
  `Stuck`, and no member of such a set is ever emitted. For `SortIsLeast` a second invariant says that, whenever an event was chosen, no
  smaller one was ready; at the first place where another extension differs, its event was ready too. The frontier
  needs a minimal element of a finite partial order, from the least-number principle, for sets, by well-foundedness of
  `<` on the naturals.

**Only model-checked:** liveness (`WaitEnds`, `StopReturns`, `KeepsRefreshing`, that a sort returns), which under fairness is outside this prover's
reach, as is `ENABLED`; and the violations, which need a counterexample only. No module that is proved about has a recursive
operator: recursion is by recursive functions, which are shown to exist before they are used.

## 5. Not modelled

* `Timestamp.String`, `Snapshot.String` and other formatting, JSON encodings (a library's), benchmarks, tests and
  the other examples, which have no state of their own.
* The operating system's clock behind `wallclock.Real`: `SetWall` covers anything it can do.
* Data races: every access in the clocks is under the lock; the modules take that from the code. In `NTPRefresh` an
  access to a field is one step; a torn read or a stale one, which Go's memory model allows for a race between `Start`
  and `Stop`, would come under `overlapped` as well.
* `UnmarshalBinary` on bytes that no `MarshalBinary` has made, beyond a lost or added tail, is in no run. The code accepts a
  repeated ID (the last entry counts) and IDs out of order; that this is harmless is `DecodedIsEncodable`.
* In an NTP response, everything but the three fields that are used: mode, stratum, leap indicator and originate timestamp are
  not looked at by the code, and the model's server is synchronised and answers the request at hand.
* Both readings of a time that an `NTPSource` has shifted. `Add` moves the monotonic reading as well, and `After` compares
  monotonic readings when both times have one; `CommitWait` has one scale of time. A monotonic clock that stands still
  while the host sleeps is a drift beyond `driftPPM`.
* `queryInterval`: ticks come at any time. `time.NewTicker` panics for one that is not positive, which `NewNTPSource`
  accepts.

## 6. Plan

1. `NTPSource` in the place of the abstract source of `CommitWait`, with both readings of a time.
2. A model of the clocks with threads and locks as separate steps, refining the atomic ones.
