------------------------------ MODULE NTPProofs ------------------------------
(***************************************************************************)
(* The two halves of truetime/ntp_source.go: the refresh loop under any    *)
(* number of Starts and callers of Stop, and the estimate for any drift,   *)
(* root dispersion and resolution, any errors of the server within its     *)
(* dispersion and any steps of the wall clock.                             *)
(***************************************************************************)
EXTENDS NTPSource, NTPRefresh, TLAPS

-----------------------------------------------------------------------------
(* The refresh loop.                                                       *)

\* the fields name the last Start; between its two halves done is behind
Fields ==
  /\ cancel = starts
  /\ starting => starts # 0
  /\ done = IF starting THEN starts - 1 ELSE starts

\* a goroutine is made after its channel is in the field, so that the channel
\* it defers to close is one, if not always its own
Begun == {"select", "query", "exited"}
LoopsHaveChannels ==
  \A k \in Id : /\ loop[k] # "none" => k <= done
                /\ loop[k] \in Begun => deferred[k] \in Id

\* at most the last loop runs, every channel is closed by its own loop, and a
\* Stop waits for the last loop
OneLoop ==
  /\ ~panicked
  /\ \A k \in Id : /\ Alive(k) => k = starts /\ ~starting
                   /\ loop[k] \in Begun => deferred[k] = k
                   /\ k \in closed <=> loop[k] = "exited"
  /\ \A c \in Caller : /\ stop[c] # "idle" => ~starting
                       /\ stop[c] = "waiting" => waitFor[c] = starts
  /\ joined => ~starting /\ \A k \in Id : ~Alive(k)

RefreshInv ==
  /\ RefreshTypeOK
  /\ Fields
  /\ LoopsHaveChannels
  /\ ~overlapped => OneLoop

(* Initially no Start was called. *)
LEMMA RefreshInitially == RefreshInit => RefreshInv
<1> SUFFICES ASSUME RefreshInit
             PROVE  RefreshInv
  OBVIOUS
<1> USE MaxStartsAssumption DEF RefreshInit, Id, Nil
<1>1. RefreshTypeOK
  <2>1. /\ starting \in BOOLEAN /\ joined \in BOOLEAN /\ overlapped \in BOOLEAN
        /\ panicked \in BOOLEAN
    BY Zenon
  <2>2. /\ starts \in 0..MaxStarts /\ cancel \in 0..MaxStarts /\ done \in 0..MaxStarts
        /\ loop \in [Id -> {"none", "spawned", "select", "query", "exited"}]
        /\ deferred \in [Id -> 0..MaxStarts]
        /\ stop \in [Caller -> {"idle", "cancelled", "waiting"}]
        /\ waitFor \in [Caller -> 0..MaxStarts]
    OBVIOUS
  <2> QED
    BY <2>1, <2>2, Zenon DEF RefreshTypeOK
<1>2. Fields
  BY DEF Fields
<1>3. LoopsHaveChannels
  BY DEF LoopsHaveChannels, Begun
<1>4. OneLoop
  BY DEF OneLoop, Begun, Alive
<1> QED
  BY <1>1, <1>2, <1>3, <1>4 DEF RefreshInv

(* The first half of Start.  It finds no loop alive and no Stop under way, *)
(* or the overlap is recorded.                                             *)
LEMMA StartContextPreserves ==
  ASSUME RefreshInv, StartContext
  PROVE  RefreshInv'
<1> USE MaxStartsAssumption DEF RefreshInv, StartContext, Id, loops
<1>1. RefreshTypeOK'
  <2>1. starting' \in BOOLEAN /\ joined' \in BOOLEAN /\ overlapped' \in BOOLEAN
    BY Zenon
  <2>2. starts' \in 0..MaxStarts /\ cancel' \in 0..MaxStarts
    BY DEF RefreshTypeOK
  <2> QED
    BY <2>1, <2>2, Zenon DEF RefreshTypeOK
<1>2. Fields'
  BY DEF RefreshTypeOK, Fields
<1>3. LoopsHaveChannels'
  BY DEF RefreshTypeOK, LoopsHaveChannels
<1>4. ~overlapped' => OneLoop'
  BY DEF RefreshTypeOK, OneLoop, Alive
<1> QED
  BY <1>1, <1>2, <1>3, <1>4

(* The second half of Start makes the goroutine of the last Start. *)
LEMMA StartLoopPreserves ==
  ASSUME RefreshInv, StartLoop
  PROVE  RefreshInv'
<1> USE MaxStartsAssumption DEF RefreshInv, StartLoop, Id, callers
<1>1. RefreshTypeOK'
  BY DEF RefreshTypeOK, Fields
<1>2. Fields'
  BY DEF RefreshTypeOK, Fields
<1>3. LoopsHaveChannels'
  BY DEF RefreshTypeOK, Fields, LoopsHaveChannels, Begun
<1>4. starts \in Id /\ loop[starts] = "none"
  BY DEF RefreshTypeOK, Fields, LoopsHaveChannels
<1>5. ~overlapped' => OneLoop'
  BY <1>4 DEF RefreshTypeOK, OneLoop, Alive, Begun
<1> QED
  BY <1>1, <1>2, <1>3, <1>5

(* The goroutine takes the channel to close from the field.  While nothing *)
(* overlapped it is the last one, and the channel is its own.              *)
LEMMA BeginPreserves ==
  ASSUME RefreshInv, NEW k \in Id, Begin(k)
  PROVE  RefreshInv'
<1> USE MaxStartsAssumption DEF RefreshInv, Begin, DeferredChannel, Id, callers, fields
<1>1. RefreshTypeOK'
  BY DEF RefreshTypeOK
<1>2. Fields'
  BY DEF Fields
<1>3. LoopsHaveChannels'
  BY DEF RefreshTypeOK, LoopsHaveChannels, Begun
<1>4. ~overlapped' => OneLoop'
  BY DEF RefreshTypeOK, Fields, OneLoop, Alive, Begun
<1> QED
  BY <1>1, <1>2, <1>3, <1>4

(* The end of a loop closes the channel it deferred to close. *)
LEMMA ExitPreserves ==
  ASSUME RefreshInv, NEW k \in Id, Exit(k)
  PROVE  RefreshInv'
<1> USE MaxStartsAssumption DEF RefreshInv, Exit, Id, callers, fields
<1>1. deferred[k] \in Id
  BY DEF LoopsHaveChannels, Begun
<1>2. RefreshTypeOK'
  BY <1>1 DEF RefreshTypeOK
<1>3. Fields'
  BY DEF Fields
<1>4. LoopsHaveChannels'
  BY DEF RefreshTypeOK, LoopsHaveChannels, Begun
<1>5. ~overlapped' => OneLoop'
  BY DEF RefreshTypeOK, OneLoop, Alive, Begun
<1> QED
  BY <1>2, <1>3, <1>4, <1>5

(* Ticks, queries and the parent's cancellation leave the channels alone. *)
LEMMA LoopStepPreserves ==
  ASSUME RefreshInv, NEW k \in Id,
         CancelParent(k) \/ Tick(k) \/ BeginQuery(k) \/ EndQuery(k)
  PROVE  RefreshInv'
<1> USE MaxStartsAssumption
    DEF RefreshInv, CancelParent, Tick, BeginQuery, EndQuery, Id, loops, callers, fields
<1>1. RefreshTypeOK'
  BY DEF RefreshTypeOK
<1>2. Fields'
  BY DEF Fields
<1>3. LoopsHaveChannels'
  BY DEF RefreshTypeOK, LoopsHaveChannels, Begun
<1>4. ~overlapped' => OneLoop'
  <2>1. /\ UNCHANGED <<panicked, starts, starting, deferred, closed>>
        /\ UNCHANGED <<stop, waitFor, joined, overlapped>>
    OBVIOUS
  <2>2. \A j \in Id : \/ loop'[j] = loop[j]
                      \/ loop[j] \in {"select", "query"} /\ loop'[j] \in {"select", "query"}
    BY DEF RefreshTypeOK
  <2>3. \A j \in Id : /\ Alive(j)' <=> Alive(j)
                      /\ loop'[j] \in Begun <=> loop[j] \in Begun
                      /\ loop'[j] = "exited" <=> loop[j] = "exited"
    BY <2>2 DEF Alive, Begun
  <2> QED
    BY <2>1, <2>3 DEF OneLoop
<1> QED
  BY <1>1, <1>2, <1>3, <1>4

(* Stop.  A call that overlaps no Start waits for the last channel, which  *)
(* only the last loop closes, at its end.                                  *)
LEMMA StopPreserves ==
  ASSUME RefreshInv, NEW c \in Caller,
         StopUnstarted(c) \/ StopCancel(c) \/ StopWait(c) \/ StopReturn(c)
  PROVE  RefreshInv'
<1> USE MaxStartsAssumption DEF RefreshInv, Id, Nil, loops, fields
<1>1. RefreshTypeOK'
  <2>1. CASE StopCancel(c)
    BY <2>1 DEF RefreshTypeOK, StopCancel
  <2>2. CASE StopUnstarted(c) \/ StopWait(c) \/ StopReturn(c)
    BY <2>2 DEF RefreshTypeOK, StopUnstarted, StopWait, StopReturn
  <2> QED
    BY <2>1, <2>2
<1>2. Fields'
  BY DEF Fields, StopUnstarted, StopCancel, StopWait, StopReturn
<1>3. LoopsHaveChannels'
  BY DEF LoopsHaveChannels, StopUnstarted, StopCancel, StopWait, StopReturn
<1>4. ~overlapped' => OneLoop'
  <2>1. CASE StopUnstarted(c)
    <3>1. ~starting /\ \A k \in Id : ~Alive(k)
      BY <2>1 DEF StopUnstarted, RefreshTypeOK, Fields, LoopsHaveChannels, Alive
    <3> QED
      BY <2>1, <3>1 DEF StopUnstarted, OneLoop, Alive
  <2>2. CASE StopCancel(c)
    BY <2>2 DEF StopCancel, RefreshTypeOK, OneLoop, Alive
  <2>3. CASE StopWait(c)
    BY <2>3 DEF StopWait, RefreshTypeOK, Fields, OneLoop, Alive
  <2>4. CASE StopReturn(c)
    <3>1. ASSUME ~overlapped
          PROVE  ~starting /\ \A k \in Id : ~Alive(k)
      BY <2>4, <3>1 DEF StopReturn, RefreshTypeOK, OneLoop, Alive
    <3> QED
      BY <2>4, <3>1 DEF StopReturn, RefreshTypeOK, OneLoop, Alive
  <2> QED
    BY <2>1, <2>2, <2>3, <2>4
<1> QED
  BY <1>1, <1>2, <1>3, <1>4

(* The invariant holds in every reachable state. *)
THEOREM RefreshInvariance == RefreshSpec => []RefreshInv
<1>1. RefreshInv /\ [RefreshNext]_refreshVars => RefreshInv'
  <2> SUFFICES ASSUME RefreshInv, [RefreshNext]_refreshVars
               PROVE  RefreshInv'
    OBVIOUS
  <2>1. CASE UNCHANGED refreshVars
    BY <2>1 DEF refreshVars, RefreshInv, RefreshTypeOK, Fields, LoopsHaveChannels,
                OneLoop, Alive
  <2>2. CASE RefreshNext
    BY <2>2, StartContextPreserves, StartLoopPreserves, BeginPreserves, ExitPreserves,
       LoopStepPreserves, StopPreserves
    DEF RefreshNext
  <2> QED
    BY <2>1, <2>2
<1> QED
  BY <1>1, RefreshInitially, PTL DEF RefreshSpec

(* Type correctness of the refresh loop: in particular no goroutine closes *)
(* a channel that was never made.                                          *)
THEOREM RefreshTypeCorrect == RefreshSpec => []RefreshTypeOK
BY RefreshInvariance, PTL DEF RefreshInv

(* No double close ends the program, unless Start overlapped a loop or a   *)
(* Stop.                                                                   *)
THEOREM NoDoubleClose == RefreshSpec => []NoPanic
<1>1. RefreshInv => NoPanic
  BY DEF RefreshInv, RefreshTypeOK, OneLoop, NoPanic
<1> QED
  BY <1>1, RefreshInvariance, PTL

(* After a Stop has returned no loop is left. *)
THEOREM StopJoinsTheLoop == RefreshSpec => []StopTerminates
<1>1. RefreshInv => StopTerminates
  BY DEF RefreshInv, OneLoop, StopTerminates
<1> QED
  BY <1>1, RefreshInvariance, PTL

-----------------------------------------------------------------------------
(* Arithmetic: Go's division, the products that wrap, the timestamps.      *)

(* The product of two numbers that are not negative is not. *)
LEMMA ProductOfNaturals ==
  ASSUME NEW a \in Nat, NEW b \in Nat
  PROVE  a * b \in Nat
OBVIOUS

(* Factors may be compared instead of products. *)
LEMMA CancelFactor ==
  ASSUME NEW d \in Nat \ {0}, NEW a \in Int, NEW b \in Int, d * a < d * b + d
  PROVE  a <= b
<1> SUFFICES ASSUME b + 1 <= a
             PROVE  FALSE
  OBVIOUS
<1>1. d * (a - b - 1) \in Nat
  BY ProductOfNaturals
<1> QED
  BY <1>1

(* The quotient is the only number with a remainder below the divisor. *)
LEMMA Quotient ==
  ASSUME NEW a \in Int, NEW d \in Nat \ {0}
  PROVE  /\ a \div d \in Int
         /\ d * (a \div d) <= a
         /\ a < d * (a \div d) + d
         /\ \A q \in Int : d * q <= a => q <= a \div d
         /\ \A q \in Int : a < d * q + d => a \div d <= q
<1>1. /\ a \div d \in Int
      /\ d * (a \div d) <= a
      /\ a < d * (a \div d) + d
  OBVIOUS
<1>2. ASSUME NEW q \in Int, d * q <= a
      PROVE  q <= a \div d
  <2> DEFINE z == a \div d
  <2>1. z \in Int /\ d * q < d * z + d
    BY <1>1, <1>2
  <2> HIDE DEF z
  <2>2. q <= z
    BY <2>1, CancelFactor
  <2> QED
    BY <2>2 DEF z
<1>3. ASSUME NEW q \in Int, a < d * q + d
      PROVE  a \div d <= q
  <2> DEFINE z == a \div d
  <2>1. z \in Int /\ d * z < d * q + d
    BY <1>1, <1>3
  <2> HIDE DEF z
  <2>2. z <= q
    BY <2>1, CancelFactor
  <2> QED
    BY <2>2 DEF z
<1> QED
  BY <1>1, <1>2, <1>3

(* Half of a number, truncated toward zero, is off by less than one. *)
LEMMA Half ==
  ASSUME NEW a \in Int
  PROVE  /\ Quot(a, 2) \in Int
         /\ a - 1 <= 2 * Quot(a, 2) /\ 2 * Quot(a, 2) <= a + 1
         /\ a >= 0 => Quot(a, 2) >= 0
BY DEF Quot

(* A product within the range of an int64 does not wrap. *)
LEMMA NoWrap ==
  ASSUME NEW x \in 0..MaxInt64
  PROVE  Wrap64(x) = x
<1>1. MaxInt64 \in Nat /\ x \in Nat
  BY BoundsAssumption
<1>2. (x + MaxInt64 + 1) % (2 * (MaxInt64 + 1)) = x + MaxInt64 + 1
  BY <1>1
<1> QED
  BY <1>1, <1>2 DEF Wrap64

(* What driftPPM adds after an elapsed time: a unit for each full Period,  *)
(* as long as the product does not overflow.                               *)
LEMMA ExtraProperties ==
  ASSUME NEW elapsed \in Nat, elapsed * Rate <= MaxInt64
  PROVE  Extra(elapsed) = elapsed \div Period
<1> DEFINE q == elapsed \div Period
           a == elapsed * Rate
<1>0. /\ Rate \in Nat /\ Rate > 0 /\ Period \in Nat \ {0} /\ Scale = Rate * Period
      /\ MaxInt64 \in Nat
  BY RateAssumption, BoundsAssumption
<1>1. /\ q \in Int /\ Period * q <= elapsed /\ elapsed < Period * q + Period
  BY <1>0, Quotient
<1>2. a \in 0..MaxInt64
  BY <1>0, ProductOfNaturals
<1> HIDE DEF q
<1>3. Scale \in Nat \ {0}
  BY <1>0
<1>4. Scale * q <= a
  <2>1. (elapsed - Period * q) * Rate \in Nat
    BY <1>0, <1>1, ProductOfNaturals
  <2> QED
    BY <2>1, <1>0, <1>1
<1>5. a < Scale * q + Scale
  <2>1. (Period * q + Period - elapsed - 1) * Rate \in Nat
    BY <1>0, <1>1, ProductOfNaturals
  <2> QED
    BY <2>1, <1>0, <1>1
<1> HIDE DEF a
<1>6. a \div Scale = q
  BY <1>1, <1>2, <1>3, <1>4, <1>5, <1>0, Quotient
<1>7. Extra(elapsed) = Quot(a, Scale)
  BY <1>2, NoWrap DEF Extra, a
<1> QED
  BY <1>6, <1>7, <1>2, <1>0 DEF Quot, q

\* y is within n of x
Near(x, y, n) == x - n <= y /\ y <= x + n

\* the timestamps of a server
Raw == 0..(Fine * EraLength - 1)

(* A timestamp fits its field.  Before the era ends it decodes to the true *)
(* time, up to the server's dispersion.                                    *)
LEMMA ServerTimeProperties ==
  ASSUME NEW e \in ServerErrors, now \in Nat
  PROVE  /\ ServerTime(e) \in Raw
         /\ ~EraOver => Near(ntpTimeFromBytes(ServerTime(e)), now, RootDisp)
<1> DEFINE x == now + EpochOffset
           a == Fine * x + e
           era == Fine * EraLength
<1>1. /\ Fine \in Nat \ {0} /\ RootDisp \in Nat /\ EraLength \in Nat \ {0}
      /\ x \in Int /\ RootDisp <= x /\ e \in Int /\ Fine * RootDisp \in Int
      /\ -(Fine * RootDisp) <= e /\ e <= Fine * RootDisp
  BY ServerAssumption, EraAssumption
<1> HIDE DEF x
<1>2. a \in Int /\ era \in Nat \ {0}
  BY <1>1
<1>3. ServerTime(e) = a % era
  BY DEF ServerTime, x
<1>4. ServerTime(e) \in Raw
  <2> HIDE DEF a, era
  <2>1. a % era \in 0..(era - 1)
    BY <1>2
  <2> QED
    BY <1>3, <2>1 DEF Raw, era
<1>5. ASSUME ~EraOver
      PROVE  Near(ntpTimeFromBytes(ServerTime(e)), now, RootDisp)
  <2>1. x + RootDisp <= EraLength - 1
    BY <1>1, <1>5, EraAssumption DEF EraOver, x
  <2>2. Fine * (x - RootDisp) <= a /\ a <= Fine * (x + RootDisp)
    BY <1>1
  <2>3. Fine * (x - RootDisp) \in Nat
    BY <1>1, ProductOfNaturals
  <2>4. Fine * (EraLength - 1 - x - RootDisp) \in Nat
    BY <1>1, <2>1, ProductOfNaturals
  <2>5. a < era
    BY <1>1, <2>2, <2>4
  <2>6. 0 <= a
    BY <1>2, <1>1, <2>2, <2>3
  <2>7. a % era = a
    <3> HIDE DEF a, era
    <3> QED
      BY <1>2, <2>5, <2>6
  <2>8. a < Fine * (x + RootDisp) + Fine
    BY <1>1, <1>2, <2>2
  <2> HIDE DEF a
  <2>9. a \div Fine \in Int /\ x - RootDisp <= a \div Fine /\ a \div Fine <= x + RootDisp
    BY <1>1, <1>2, <2>2, <2>8, Quotient
  <2> QED
    BY <1>1, <1>3, <2>7, <2>9, EraAssumption DEF ntpTimeFromBytes, Near, x
<1> QED
  BY <1>4, <1>5

(* The four timestamps of a query: sent at the true time n1, received and  *)
(* answered by the server at n2 and n3, received at n4.  The offset is     *)
(* then off by no more than the dispersion, up to the truncations and the  *)
(* drift d within the query.                                               *)
LEMMA FourTimestamps ==
  ASSUME NEW n1 \in Nat, NEW n2 \in Nat, NEW n3 \in Nat, NEW n4 \in Nat,
         n1 <= n2, n2 <= n3, n3 <= n4,
         NEW t1mono \in Int, NEW t2 \in Int, NEW t3 \in Int,
         NEW s \in Int, NEW v \in Int, NEW d \in Nat, NEW rd \in Nat,
         Near(t1mono, n1 + v, d), Near(t2, n2, rd), Near(t3, n3, rd)
  PROVE  LET off == Quot((t2 - (t1mono + s)) + (t3 - (n4 + v + s)), 2)
             dis == Dispersion(rd, n4 + v - t1mono, t3 - t2)
         IN  Near(n4, n4 + v + s + off, dis + d + 1)
<1> DEFINE x == (t2 - (t1mono + s)) + (t3 - (n4 + v + s))
           y == (n4 + v - t1mono) - (t3 - t2)
           hx == Quot(x, 2)
           hy == Quot(y, 2)
<1>1. x \in Int /\ y \in Int
  OBVIOUS
<1>2. /\ hx \in Int /\ hy \in Int
      /\ x - 1 <= 2 * hx /\ 2 * hx <= x + 1
      /\ y - 1 <= 2 * hy /\ 2 * hy <= y + 1
  BY <1>1, Half
<1> HIDE DEF hx, hy
<1>3. Near(n4, n4 + v + s + hx, rd + hy + d + 1)
  BY <1>2 DEF Near
<1> QED
  BY <1>3 DEF hx, hy, Dispersion

(* The dispersion of that query is explained by the server's dispersion,   *)
(* its errors and the time that the query took, up to the drift d; without *)
(* such a drift it is no less than zero, also when the last timestamp was  *)
(* cut short.                                                              *)
LEMMA DispersionBounds ==
  ASSUME NEW n1 \in Nat, NEW n2 \in Nat, NEW n3 \in Nat, NEW n4 \in Nat,
         n1 <= n2, n2 <= n3, n3 <= n4,
         NEW t1mono \in Int, NEW t2 \in Int, NEW t3 \in Int, NEW cut \in Int,
         NEW v \in Int, NEW d \in Nat, NEW rd \in Nat, cut <= t3,
         Near(t1mono, n1 + v, d), Near(t2, n2, rd), Near(t3, n3, rd)
  PROVE  /\ d = 0 => Dispersion(rd, n4 + v - t1mono, cut - t2) >= 0
         /\ 2 * Dispersion(rd, n4 + v - t1mono, t3 - t2)
              <= 4 * rd + (n4 - n1) + d + 1
<1> DEFINE y == (n4 + v - t1mono) - (t3 - t2)
           z == (n4 + v - t1mono) - (cut - t2)
           hy == Quot(y, 2)
           hz == Quot(z, 2)
<1>1. y \in Int /\ z \in Int
  OBVIOUS
<1>2. /\ hy \in Int /\ 2 * hy <= y + 1
      /\ hz \in Int /\ z - 1 <= 2 * hz
  BY <1>1, Half
<1> HIDE DEF hy, hz
<1>3. d = 0 => rd + hz >= 0
  BY <1>2 DEF Near
<1>4. 2 * (rd + hy) <= 4 * rd + (n4 - n1) + d + 1
  BY <1>2 DEF Near
<1> QED
  BY <1>3, <1>4 DEF hy, hz, Dispersion

(* A field that is cut short is no more than the whole.                    *)
LEMMA CutProperties ==
  ASSUME NEW k \in Cuts, NEW field \in Nat
  PROVE  Cut(field, k) \in Nat /\ Cut(field, k) <= field
<1> DEFINE q == field \div k
<1>1. k \in Nat \ {0}
  BY CutAssumption
<1>2. q \in Nat /\ k * q <= field
  BY <1>1, Quotient
<1> HIDE DEF q
<1>3. k * q \in Nat
  BY <1>1, <1>2, ProductOfNaturals
<1> QED
  BY <1>2, <1>3 DEF Cut, q

(* So is the time that it decodes to.                                      *)
LEMMA DecodedInOrder ==
  ASSUME NEW x \in Nat, NEW y \in Nat, x <= y
  PROVE  /\ ntpTimeFromBytes(x) \in Int /\ ntpTimeFromBytes(y) \in Int
         /\ ntpTimeFromBytes(x) <= ntpTimeFromBytes(y)
<1>1. Fine \in Nat \ {0} /\ EpochOffset \in Nat
  BY ServerAssumption, EraAssumption
<1>2. /\ x \div Fine \in Int /\ y \div Fine \in Int
      /\ Fine * (x \div Fine) <= y
  BY <1>1, Quotient
<1>3. x \div Fine <= y \div Fine
  BY <1>1, <1>2, Quotient
<1> QED
  BY <1>1, <1>2, <1>3 DEF ntpTimeFromBytes

-----------------------------------------------------------------------------
(* The estimate.                                                           *)

Labels == {"idle", "sent", "received", "answered"}

Estimates ==
  [offset : Int, disp : Int, last : Int, slack : Nat, took : Nat,
   trust : {"ok", "stepped", "short", "era"}]

Queries ==
  {Idle}
  \cup [at : {"sent"}, t1 : Int, t1mono : Int, trust : {"ok", "stepped"}, slack : Nat,
      sent : Nat]
  \cup [at : {"received"}, t1 : Int, t1mono : Int, t2 : Raw,
        trust : {"ok", "stepped", "era"}, slack : Nat, sent : Nat]
  \cup [at : {"answered"}, t1 : Int, t1mono : Int, t2 : Raw, t3 : Raw,
        trust : {"ok", "stepped", "era"}, slack : Nat, sent : Nat]

SourceTypes ==
  /\ now \in 0..MaxTime /\ dev \in -now..now /\ quiet \in 0..Period /\ skew \in Skews
  /\ est \in Estimates \cup {None}
  /\ reader \in Estimates \cup {None}
  /\ query \in Queries
  /\ count \in [queries : 0..MaxQueries, steps : 0..MaxSteps]

\* the true times at which the query was received and answered so far
Sighted(n2, n3) ==
  /\ query.sent <= n2 /\ n2 <= n3
  /\ Near(query.t1mono, query.sent + dev, query.slack)
  /\ query.at \in {"received", "answered"} =>
       Near(ntpTimeFromBytes(query.t2), n2, RootDisp)
  /\ query.at = "answered" => Near(ntpTimeFromBytes(query.t3), n3, RootDisp)

QueryInv ==
  query.at # "idle" =>
    /\ query.t1mono <= mono /\ query.sent <= now
    /\ query.trust = "ok" => query.t1 = query.t1mono + skew
    /\ query.trust # "era" => \E n2, n3 \in 0..now : Sighted(n2, n3)

\* since the estimate e was made the host has drifted by k units, which takes
\* k - 1 Periods at least
Drifted(e, k) ==
  /\ Near(now, wall + e.offset, e.disp + e.slack + 1 + k)
  /\ (k - 1) * Period + quiet <= mono - e.last

EstimateInv(e) ==
  e # None =>
    /\ e.last <= mono
    /\ e.trust = "ok" => \E k \in Nat : Drifted(e, k)
    /\ e.trust # "era" /\ e.slack = 0 => e.disp >= 0
    /\ e.trust \in {"ok", "stepped"} =>
         2 * e.disp <= 4 * RootDisp + e.took + e.slack + 1

SourceInv ==
  /\ SourceTypes
  /\ QueryInv
  /\ EstimateInv(est)
  /\ EstimateInv(reader)

(* Initially there is neither an estimate nor a query. *)
LEMMA SourceInitially == Init => SourceInv
BY BoundsAssumption, RateAssumption, SkewAssumption
DEF Init, SourceInv, SourceTypes, Queries, QueryInv, EstimateInv, Idle, None

(* The fields of a query. *)
LEMMA QueryFields ==
  ASSUME SourceTypes
  PROVE  /\ query.at \in Labels
         /\ query.at = "idle" => query = Idle
         /\ query.at # "idle" => /\ query.t1 \in Int /\ query.t1mono \in Int
                                 /\ query.slack \in Nat /\ query.sent \in Nat
                                 /\ query.trust \in {"ok", "stepped", "era"}
         /\ query.at \in {"received", "answered"} => query.t2 \in Raw
         /\ query.at = "answered" => query.t3 \in Raw
         /\ now \in Nat /\ dev \in Int /\ skew \in Int /\ mono \in Int /\ wall \in Int
BY BoundsAssumption, SkewAssumption DEF SourceTypes, Queries, Labels, Idle, mono, wall

(* The fields of an estimate. *)
LEMMA EstimateFields ==
  ASSUME NEW e \in Estimates \cup {None}, e # None
  PROVE  /\ e \in Estimates
         /\ e.offset \in Int /\ e.disp \in Int /\ e.last \in Int
         /\ e.slack \in Nat /\ e.took \in Nat
         /\ e.trust \in {"ok", "stepped", "short", "era"}
BY DEF Estimates

(* Send: what the query will know is that the request left now. *)
LEMMA SendPreserves ==
  ASSUME SourceInv, Send
  PROVE  SourceInv'
<1> USE DEF SourceInv, Send
<1>0. now \in Nat /\ dev \in Int /\ skew \in Int /\ mono \in Int /\ wall \in Int
  BY QueryFields
<1>1. SourceTypes'
  BY <1>0, BoundsAssumption DEF SourceTypes, Queries
<1>2. QueryInv'
  <2>1. Sighted(now, now)'
    BY <1>0 DEF Sighted, Near, mono
  <2> QED
    BY <1>0, <2>1 DEF QueryInv, mono, wall
<1>3. EstimateInv(est)' /\ EstimateInv(reader)'
  BY DEF EstimateInv, Drifted, mono, wall
<1> QED
  BY <1>1, <1>2, <1>3

(* The server receives the request: its timestamp is the true time, up to  *)
(* its dispersion.                                                         *)
LEMMA ServerReceivePreserves ==
  ASSUME SourceInv, NEW e \in ServerErrors, ServerReceive(e)
  PROVE  SourceInv'
<1> USE DEF SourceInv
<1>0. /\ now \in Nat /\ dev \in Int /\ query.t1 \in Int /\ query.t1mono \in Int
      /\ query.slack \in Nat /\ query.sent \in Nat
      /\ query.trust \in {"ok", "stepped", "era"}
  BY QueryFields DEF ServerReceive
<1>1. /\ ServerTime(e) \in Raw
      /\ ~EraOver => Near(ntpTimeFromBytes(ServerTime(e)), now, RootDisp)
  BY <1>0, ServerTimeProperties
<1>2. SourceTypes'
  BY <1>0, <1>1 DEF SourceTypes, Queries, ServerReceive
<1>3. QueryInv'
  <2>1. ASSUME query'.trust # "era"
        PROVE  \E n2, n3 \in 0..now' : Sighted(n2, n3)'
    <3>1. query.trust # "era" /\ ~EraOver
      BY <2>1 DEF ServerReceive
    <3>2. query.sent <= now /\ Near(query.t1mono, query.sent + dev, query.slack)
      BY <3>1 DEF QueryInv, Sighted, ServerReceive
    <3>3. Sighted(now, now)'
      BY <1>0, <1>1, <3>1, <3>2 DEF Sighted, ServerReceive, ntpTimeFromBytes
    <3> QED
      BY <1>0, <3>3 DEF ServerReceive
  <2> QED
    BY <1>0, <2>1 DEF QueryInv, ServerReceive, mono
<1>4. EstimateInv(est)' /\ EstimateInv(reader)'
  BY DEF EstimateInv, Drifted, mono, wall, ServerReceive
<1> QED
  BY <1>2, <1>3, <1>4

(* The server answers. *)
LEMMA ServerTransmitPreserves ==
  ASSUME SourceInv, NEW e \in ServerErrors, ServerTransmit(e)
  PROVE  SourceInv'
<1> USE DEF SourceInv
<1>0. /\ now \in Nat /\ dev \in Int /\ query.t1 \in Int /\ query.t1mono \in Int
      /\ query.slack \in Nat /\ query.sent \in Nat
      /\ query.trust \in {"ok", "stepped", "era"}
      /\ query.t2 \in Raw
  BY QueryFields DEF ServerTransmit
<1>1. /\ ServerTime(e) \in Raw
      /\ ~EraOver => Near(ntpTimeFromBytes(ServerTime(e)), now, RootDisp)
  BY <1>0, ServerTimeProperties
<1>2. SourceTypes'
  BY <1>0, <1>1 DEF SourceTypes, Queries, ServerTransmit
<1>3. QueryInv'
  <2>1. ASSUME query'.trust # "era"
        PROVE  \E n2, n3 \in 0..now' : Sighted(n2, n3)'
    <3>1. query.trust # "era" /\ ~EraOver
      BY <2>1 DEF ServerTransmit
    <3>2. PICK n2 \in 0..now :
            /\ query.sent <= n2
            /\ Near(query.t1mono, query.sent + dev, query.slack)
            /\ Near(ntpTimeFromBytes(query.t2), n2, RootDisp)
      BY <3>1 DEF QueryInv, Sighted, ServerTransmit
    <3>3. Sighted(n2, now)'
      BY <1>0, <1>1, <3>1, <3>2 DEF Sighted, ServerTransmit, ntpTimeFromBytes
    <3> QED
      BY <1>0, <3>3 DEF ServerTransmit
  <2> QED
    BY <1>0, <2>1 DEF QueryInv, ServerTransmit, mono
<1>4. EstimateInv(est)' /\ EstimateInv(reader)'
  BY DEF EstimateInv, Drifted, mono, wall, ServerTransmit
<1> QED
  BY <1>2, <1>3, <1>4

(* Storing an estimate made now, which is good if the query was. *)
LEMMA StorePreserves ==
  ASSUME SourceInv, NEW e \in Estimates, Store(e),
         e.last = mono,
         e.trust = "ok" => Near(now, wall + e.offset, e.disp + e.slack + 1),
         e.trust # "era" /\ e.slack = 0 => e.disp >= 0,
         e.trust \in {"ok", "stepped"} =>
           2 * e.disp <= 4 * RootDisp + e.took + e.slack + 1
  PROVE  SourceInv'
<1> USE DEF SourceInv, Store
<1>0. /\ now \in Nat /\ mono \in Int /\ wall \in Int /\ quiet \in 0..Period
      /\ Period \in Nat
      /\ e.offset \in Int /\ e.disp \in Int /\ e.last \in Int /\ e.slack \in Nat
  BY QueryFields, RateAssumption DEF SourceTypes, Estimates
<1>1. SourceTypes'
  BY DEF SourceTypes, Queries
<1>2. QueryInv'
  BY DEF QueryInv, Idle
<1>3. EstimateInv(est)'
  <2>1. ASSUME e.trust = "ok"
        PROVE  Drifted(est, 0)'
    BY <1>0, <2>1 DEF Drifted, Near, mono, wall
  <2> QED
    BY <1>0, <2>1 DEF EstimateInv, mono
<1>4. EstimateInv(reader)'
  BY DEF EstimateInv, Drifted, mono, wall
<1> QED
  BY <1>1, <1>2, <1>3, <1>4

(* An estimate has its type, whatever the response holds. *)
LEMMA EstimateType ==
  ASSUME SourceTypes, query.at = "answered", query.sent <= now,
         NEW t2 \in Int, NEW t3 \in Int, NEW rd \in Nat,
         NEW trust \in {"ok", "stepped", "short", "era"}
  PROVE  Estimate(t2, t3, rd, trust) \in Estimates
<1>1. /\ query.t1 \in Int /\ query.t1mono \in Int /\ query.slack \in Nat
      /\ mono \in Int /\ wall \in Int /\ now - query.sent \in Nat
  BY QueryFields
<1> DEFINE x == (t2 - query.t1) + (t3 - wall)
           y == (mono - query.t1mono) - (t3 - t2)
<1>2. x \in Int /\ y \in Int
  BY <1>1
<1>3. Estimate(t2, t3, rd, trust) =
        [offset |-> Quot(x, 2), disp |-> rd + Quot(y, 2), last |-> mono,
         trust |-> trust, slack |-> query.slack, took |-> now - query.sent]
  BY DEF Estimate, Dispersion
<1> HIDE DEF x, y
<1>4. Quot(x, 2) \in Int /\ Quot(y, 2) \in Int
  BY <1>2, Half
<1> QED
  BY <1>1, <1>3, <1>4 DEF Estimates

(* Receive: the four timestamps bound the error of the estimate. *)
LEMMA ReceivePreserves ==
  ASSUME SourceInv, Receive
  PROVE  SourceInv'
<1> DEFINE t2 == ntpTimeFromBytes(query.t2)
           t3 == ntpTimeFromBytes(query.t3)
           e  == Estimate(t2, t3, RootDisp, query.trust)
<1>0. /\ now \in Nat /\ dev \in Int /\ skew \in Int /\ query.t1 \in Int
      /\ query.t1mono \in Int /\ query.slack \in Nat /\ query.sent \in Nat
      /\ query.trust \in {"ok", "stepped", "era"} /\ query.sent <= now
      /\ query.t2 \in Raw /\ query.t3 \in Raw
      /\ query.at = "answered" /\ RootDisp \in Nat
  BY QueryFields, ServerAssumption DEF SourceInv, QueryInv, Receive, Store
<1>1. t2 \in Int /\ t3 \in Int
  BY <1>0, ServerAssumption, EraAssumption DEF Raw, ntpTimeFromBytes
<1>2. e \in Estimates
  BY <1>0, <1>1, EstimateType DEF SourceInv
<1>3. /\ e.last = mono /\ e.trust = query.trust /\ e.slack = query.slack
      /\ e.took = now - query.sent
      /\ e.offset = Quot((t2 - query.t1) + (t3 - wall), 2)
      /\ e.disp = Dispersion(RootDisp, mono - query.t1mono, t3 - t2)
  BY DEF Estimate
<1>4. Store(e)
  BY DEF Receive
<1>5. ASSUME query.trust # "era"
      PROVE  /\ e.trust = "ok" => Near(now, wall + e.offset, e.disp + e.slack + 1)
             /\ e.slack = 0 => e.disp >= 0
             /\ 2 * e.disp <= 4 * RootDisp + e.took + e.slack + 1
  <2>1. PICK n2, n3 \in 0..now : Sighted(n2, n3)
    BY <1>0, <1>5 DEF SourceInv, QueryInv
  <2>2. /\ n2 \in Nat /\ n3 \in Nat
        /\ query.sent <= n2 /\ n2 <= n3 /\ n3 <= now
        /\ Near(query.t1mono, query.sent + dev, query.slack)
        /\ Near(t2, n2, RootDisp) /\ Near(t3, n3, RootDisp)
    BY <1>0, <2>1 DEF Sighted
  <2> HIDE DEF t2, t3, e
  <2> DEFINE off == Quot((t2 - (query.t1mono + skew)) + (t3 - (now + dev + skew)), 2)
             dis == Dispersion(RootDisp, now + dev - query.t1mono, t3 - t2)
  <2>3. /\ Near(now, now + dev + skew + off, dis + query.slack + 1)
        /\ query.slack = 0 => dis >= 0
        /\ 2 * dis <= 4 * RootDisp + (now - query.sent) + query.slack + 1
    <3>1. Near(now, now + dev + skew + off, dis + query.slack + 1)
      BY <1>0, <1>1, <2>2, FourTimestamps
    <3>2. t3 <= t3
      BY <1>1
    <3>3. /\ query.slack = 0 => dis >= 0
          /\ 2 * dis <= 4 * RootDisp + (now - query.sent) + query.slack + 1
      BY <1>0, <1>1, <2>2, <3>2, DispersionBounds
    <3> QED
      BY <3>1, <3>3
  <2>4. query.trust = "ok" => query.t1 = query.t1mono + skew
    BY <1>0 DEF SourceInv, QueryInv
  <2>5. e.disp = dis
    BY <1>0, <1>1, <1>3 DEF mono, Dispersion
  <2>6. query.trust = "ok" => wall + e.offset = now + dev + skew + off
    BY <1>3, <2>4 DEF mono, wall
  <2> HIDE DEF off, dis
  <2> QED
    BY <1>3, <2>3, <2>5, <2>6
<1> HIDE DEF e
<1> QED
  BY <1>2, <1>3, <1>4, <1>5, StorePreserves

(* A short response: what is missing of the times makes the service time  *)
(* that query subtracts from the delay no more than it was.                *)
LEMMA ReceiveShortPreserves ==
  ASSUME SourceInv, ReceiveShort
  PROVE  SourceInv'
<1> DEFINE trust == IF query.trust = "era" THEN "era" ELSE "short"
           Time(raw) == ntpTimeFromBytes(raw)
<1>0. /\ now \in Nat /\ dev \in Int /\ query.sent \in Nat /\ query.sent <= now
      /\ query.t1mono \in Int /\ mono \in Int /\ mono = now + dev
      /\ query.slack \in Nat /\ query.t2 \in Nat /\ query.t3 \in Nat
      /\ query.at = "answered" /\ query.t1mono <= mono /\ RootDisp \in Nat
  BY QueryFields, ServerAssumption
  DEF SourceInv, QueryInv, ReceiveShort, Store, Raw, mono
<1>1. ASSUME NEW t2 \in Int, NEW t3 \in Int, NEW rd \in Nat,
             query.trust # "era" /\ query.slack = 0 =>
               Dispersion(rd, mono - query.t1mono, t3 - t2) >= 0,
             Store(Estimate(t2, t3, rd, trust))
      PROVE  SourceInv'
  <2> DEFINE e == Estimate(t2, t3, rd, trust)
  <2>1. e \in Estimates
    BY <1>0, EstimateType DEF SourceInv
  <2>2. /\ e.last = mono /\ e.trust = trust /\ e.slack = query.slack
        /\ e.disp = Dispersion(rd, mono - query.t1mono, t3 - t2)
    BY DEF Estimate
  <2>3. Store(e)
    BY <1>1
  <2> HIDE DEF e
  <2> QED
    BY <1>1, <2>1, <2>2, <2>3, StorePreserves
<1>2. ASSUME NEW t2 \in Int, NEW t3 \in Int, NEW rd \in Nat, t3 <= t2
      PROVE  Dispersion(rd, mono - query.t1mono, t3 - t2) >= 0
  <2> DEFINE y == (mono - query.t1mono) - (t3 - t2)
  <2>1. y \in Int /\ y >= 0
    BY <1>0, <1>2
  <2> HIDE DEF y
  <2>2. Quot(y, 2) \in Int /\ Quot(y, 2) >= 0
    BY <2>1, Half
  <2> QED
    BY <2>2 DEF Dispersion, y
<1> HIDE DEF trust
<1>3. CASE \E k \in Cuts :
             Store(Estimate(Time(query.t2), Time(Cut(query.t3, k)), RootDisp, trust))
  <2>1. PICK k \in Cuts :
          Store(Estimate(Time(query.t2), Time(Cut(query.t3, k)), RootDisp, trust))
    BY <1>3
  <2> DEFINE t2 == Time(query.t2)
             t3 == Time(query.t3)
             cut == Time(Cut(query.t3, k))
  <2>2. t2 \in Int /\ t3 \in Int /\ cut \in Int /\ cut <= t3
    BY <1>0, CutProperties, DecodedInOrder
  <2>3. ASSUME query.trust # "era", query.slack = 0
        PROVE  Dispersion(RootDisp, mono - query.t1mono, cut - t2) >= 0
    <3>1. PICK n2, n3 \in 0..now : Sighted(n2, n3)
      BY <1>0, <2>3 DEF SourceInv, QueryInv
    <3>2. /\ n2 \in Nat /\ n3 \in Nat
          /\ query.sent <= n2 /\ n2 <= n3 /\ n3 <= now
          /\ Near(query.t1mono, query.sent + dev, 0)
          /\ Near(t2, n2, RootDisp) /\ Near(t3, n3, RootDisp)
      BY <1>0, <2>3, <3>1 DEF Sighted
    <3> HIDE DEF t2, t3, cut
    <3>3. Dispersion(RootDisp, now + dev - query.t1mono, cut - t2) >= 0
      BY <1>0, <2>2, <3>2, DispersionBounds
    <3> QED
      BY <1>0, <3>3
  <2>4. Store(Estimate(t2, cut, RootDisp, trust))
    BY <2>1
  <2> HIDE DEF t2, t3, cut
  <2> QED
    BY <1>0, <1>1, <2>2, <2>3, <2>4
<1>4. CASE \E k \in Cuts :
             Store(Estimate(Time(Cut(query.t2, k)), Time(0), RootDisp, trust))
  <2>1. PICK k \in Cuts :
          Store(Estimate(Time(Cut(query.t2, k)), Time(0), RootDisp, trust))
    BY <1>4
  <2>2. Time(Cut(query.t2, k)) \in Int /\ Time(0) \in Int
        /\ Time(0) <= Time(Cut(query.t2, k))
    BY <1>0, CutProperties, DecodedInOrder
  <2> HIDE DEF Time
  <2> QED
    BY <1>0, <1>1, <1>2, <2>1, <2>2
<1>5. CASE \E k \in Cuts :
             Store(Estimate(Time(0), Time(0), Cut(RootDisp, k), trust))
  <2>1. PICK k \in Cuts :
          Store(Estimate(Time(0), Time(0), Cut(RootDisp, k), trust))
    BY <1>5
  <2>2. Time(0) \in Int /\ Time(0) <= Time(0) /\ Cut(RootDisp, k) \in Nat
    BY <1>0, CutProperties, DecodedInOrder
  <2> HIDE DEF Time
  <2> QED
    BY <1>1, <1>2, <2>1, <2>2
<1> QED
  BY <1>3, <1>4, <1>5 DEF ReceiveShort, trust

(* A failed query, and both halves of Now. *)
LEMMA CopiesPreserve ==
  ASSUME SourceInv, QueryError \/ CopyEstimate \/ ReturnInterval
  PROVE  SourceInv'
<1> USE DEF SourceInv, QueryError, CopyEstimate, ReturnInterval
<1>1. SourceTypes'
  BY DEF SourceTypes, Queries
<1>2. QueryInv'
  BY DEF QueryInv, Sighted, Idle, mono
<1>3. EstimateInv(est)' /\ EstimateInv(reader)'
  BY DEF EstimateInv, Drifted, mono, wall
<1> QED
  BY <1>1, <1>2, <1>3

(* Time passes: an estimate made before is off by one unit more after each *)
(* unit of drift, and a whole Period lies between two of them.             *)
LEMMA AdvanceDrifts ==
  ASSUME SourceTypes, NEW d \in {-1, 0, 1}, Advance(d),
         NEW e \in Estimates \cup {None}, EstimateInv(e)
  PROVE  EstimateInv(e)'
<1> SUFFICES ASSUME e # None
             PROVE  EstimateInv(e)'
  BY DEF EstimateInv
<1>1. /\ now \in Nat /\ dev \in Int /\ skew \in Int /\ quiet \in 0..Period
      /\ Period \in Nat /\ d \in Int
      /\ now' = now + 1 /\ dev' = dev + d /\ skew' = skew
  BY QueryFields, RateAssumption DEF SourceTypes, Advance
<1>2. e.offset \in Int /\ e.disp \in Int /\ e.last \in Int /\ e.slack \in Nat
  BY EstimateFields
<1>3. ASSUME e.trust = "ok"
      PROVE  \E k \in Nat : Drifted(e, k)'
  <2>1. PICK k \in Nat : Drifted(e, k)
    BY <1>3 DEF EstimateInv
  <2> DEFINE x == (k - 1) * Period
  <2>2. /\ x \in Int /\ x + quiet <= mono - e.last
        /\ Near(now, wall + e.offset, e.disp + e.slack + 1 + k)
    BY <1>1, <2>1 DEF Drifted
  <2>3. CASE d = 0
    <3>1. quiet' \in Int /\ quiet' <= quiet + 1
      BY <1>1, <2>3 DEF Advance
    <3> HIDE DEF x
    <3>2. x + quiet' <= mono' - e.last
      BY <1>1, <1>2, <2>2, <2>3, <3>1 DEF mono
    <3>3. Near(now, wall + e.offset, e.disp + e.slack + 1 + k)'
      BY <1>1, <1>2, <2>2, <2>3 DEF Near, mono, wall
    <3>4. Drifted(e, k)'
      BY <3>2, <3>3 DEF Drifted, x
    <3> QED
      BY <3>4
  <2>4. CASE d # 0
    <3>1. quiet = Period /\ quiet' = 0
      BY <2>4 DEF Advance
    <3>2. ((k + 1) - 1) * Period = x + Period
      BY <1>1
    <3> HIDE DEF x
    <3>3. x + Period + quiet' <= mono' - e.last
      BY <1>1, <1>2, <2>2, <3>1 DEF mono
    <3>4. Near(now, wall + e.offset, e.disp + e.slack + 1 + (k + 1))'
      BY <1>1, <1>2, <2>2 DEF Near, mono, wall
    <3>5. Drifted(e, k + 1)'
      BY <3>2, <3>3, <3>4 DEF Drifted
    <3> QED
      BY <3>5
  <2> QED
    BY <2>3, <2>4
<1>4. e.last <= mono'
  BY <1>1, <1>2 DEF EstimateInv, mono
<1> QED
  BY <1>3, <1>4 DEF EstimateInv

(* Time passes, also for the query in flight. *)
LEMMA AdvancePreserves ==
  ASSUME SourceInv, NEW d \in {-1, 0, 1}, Advance(d)
  PROVE  SourceInv'
<1> USE DEF SourceInv
<1>0. /\ now \in Nat /\ now' = now + 1 /\ dev \in Int /\ dev' = dev + d /\ d \in Int
      /\ skew' = skew
  BY QueryFields DEF Advance
<1>1. /\ query'.at = query.at
      /\ query.at # "idle" =>
           /\ query'.t1 = query.t1 /\ query'.t1mono = query.t1mono
           /\ query'.trust = query.trust /\ query'.sent = query.sent
           /\ query'.slack = IF d # 0 THEN query.slack + 1 ELSE query.slack
      /\ query.at \in {"received", "answered"} => query'.t2 = query.t2
      /\ query.at = "answered" => query'.t3 = query.t3
  BY DEF Advance, SourceTypes, Queries, Idle
<1>2. SourceTypes'
  <2>1. query' \in Queries
    BY DEF Advance, SourceTypes, Queries, Idle
  <2>2. now' \in 0..MaxTime /\ dev' \in -now'..now' /\ quiet' \in 0..Period
    BY <1>0, BoundsAssumption, RateAssumption DEF Advance, SourceTypes
  <2> QED
    BY <2>1, <2>2 DEF Advance, SourceTypes
<1>3. QueryInv'
  <2> SUFFICES ASSUME query.at # "idle"
               PROVE  QueryInv'
    BY <1>1 DEF QueryInv
  <2>0. query.t1mono \in Int /\ query.slack \in Nat /\ query.sent \in Nat
    BY QueryFields
  <2>1. ASSUME query.trust # "era"
        PROVE  \E n2, n3 \in 0..now' : Sighted(n2, n3)'
    <3>1. PICK n2, n3 \in 0..now : Sighted(n2, n3)
      BY <2>1 DEF QueryInv
    <3>2. Near(query.t1mono, query.sent + dev, query.slack)'
      BY <1>0, <1>1, <2>0, <3>1 DEF Sighted, Near
    <3>3. Sighted(n2, n3)'
      BY <1>1, <3>1, <3>2 DEF Sighted, ntpTimeFromBytes
    <3> QED
      BY <1>0, <3>3
  <2> QED
    BY <1>0, <1>1, <2>0, <2>1 DEF QueryInv, mono
<1>4. EstimateInv(est)'
  BY AdvanceDrifts DEF SourceTypes, Advance, EstimateInv, Drifted
<1>5. EstimateInv(reader)'
  BY AdvanceDrifts DEF SourceTypes, Advance, EstimateInv, Drifted
<1> QED
  BY <1>2, <1>3, <1>4, <1>5

(* A step of the wall clock takes the trust from everything that rests on  *)
(* an earlier reading, and leaves the dispersion.                          *)
LEMMA StepPreserves ==
  ASSUME SourceInv, NEW s \in Skews, Step(s)
  PROVE  SourceInv'
<1> USE DEF SourceInv
<1>1. ASSUME NEW e \in Estimates \cup {None}
      PROVE  /\ Stepped(e) \in Estimates \cup {None}
             /\ Stepped(e) # None => /\ e # None /\ Stepped(e).trust # "ok"
                                     /\ Stepped(e).last = e.last
                                     /\ Stepped(e).disp = e.disp
                                     /\ Stepped(e).slack = e.slack
                                     /\ Stepped(e).took = e.took
                                     /\ Stepped(e).trust = "stepped" =>
                                          e.trust \in {"ok", "stepped"}
                                     /\ Stepped(e).trust # "era" => e.trust # "era"
  BY DEF Stepped, Estimates, None
<1>2. /\ query'.at = query.at
      /\ query.at # "idle" =>
           /\ query'.t1mono = query.t1mono /\ query'.slack = query.slack
           /\ query'.sent = query.sent
           /\ query'.trust # "ok"
           /\ query'.trust # "era" => query.trust # "era"
      /\ query.at \in {"received", "answered"} => query'.t2 = query.t2
      /\ query.at = "answered" => query'.t3 = query.t3
  BY DEF Step, Stepped, SourceTypes, Queries, Idle
<1>3. SourceTypes'
  <2>1. query' \in Queries
    BY DEF Step, Stepped, SourceTypes, Queries, Idle
  <2>2. count' \in [queries : 0..MaxQueries, steps : 0..MaxSteps]
    BY BoundsAssumption DEF Step, SourceTypes
  <2> QED
    BY <1>1, <2>1, <2>2 DEF Step, SourceTypes
<1>4. QueryInv'
  <2>1. now' = now /\ dev' = dev
    BY DEF Step
  <2>2. ASSUME query.at # "idle", query'.trust # "era"
        PROVE  \E n2, n3 \in 0..now' : Sighted(n2, n3)'
    <3>1. PICK n2, n3 \in 0..now : Sighted(n2, n3)
      BY <1>2, <2>2 DEF QueryInv
    <3>2. Sighted(n2, n3)'
      BY <1>2, <2>1, <2>2, <3>1 DEF Sighted, ntpTimeFromBytes
    <3> QED
      BY <2>1, <3>2
  <2> QED
    BY <1>2, <2>1, <2>2 DEF QueryInv, mono
<1>5. EstimateInv(est)'
  BY <1>1 DEF EstimateInv, SourceTypes, Step, mono
<1>6. EstimateInv(reader)'
  BY <1>1 DEF EstimateInv, SourceTypes, Step, mono
<1> QED
  BY <1>3, <1>4, <1>5, <1>6

(* The invariant holds in every reachable state. *)
THEOREM SourceInvariance == Spec => []SourceInv
<1>1. SourceInv /\ [Next]_vars => SourceInv'
  <2> SUFFICES ASSUME SourceInv, [Next]_vars
               PROVE  SourceInv'
    OBVIOUS
  <2>1. CASE UNCHANGED vars
    BY <2>1 DEF vars, SourceInv, SourceTypes, QueryInv, Sighted, EstimateInv, Drifted,
                mono, wall
  <2>2. CASE Next
    BY <2>2, SendPreserves, ServerReceivePreserves, ServerTransmitPreserves,
       ReceivePreserves, ReceiveShortPreserves, CopiesPreserve, AdvancePreserves,
       StepPreserves
    DEF Next
  <2> QED
    BY <2>1, <2>2
<1> QED
  BY <1>1, SourceInitially, PTL DEF Spec

(* The uncertainty that Now adds to the dispersion. *)
LEMMA Uncertainty ==
  ASSUME SourceTypes, NEW e \in Estimates, e.last <= mono, ~Overflows(e)
  PROVE  /\ (mono - e.last) \div Period \in Nat
         /\ IntervalOf(e).Earliest =
              wall + e.offset - (e.disp + (mono - e.last) \div Period)
         /\ IntervalOf(e).Latest =
              wall + e.offset + (e.disp + (mono - e.last) \div Period)
<1> DEFINE x == mono - e.last
<1>1. mono \in Int /\ e.last \in Int /\ Rate \in Nat /\ Period \in Nat \ {0}
      /\ MaxInt64 \in Nat
  BY QueryFields, RateAssumption, BoundsAssumption DEF Estimates
<1>2. x \in Nat /\ x * Rate <= MaxInt64
  BY <1>1 DEF Overflows
<1>3. IntervalOf(e) = [Earliest |-> wall + e.offset - (e.disp + Extra(x)),
                       Latest   |-> wall + e.offset + (e.disp + Extra(x))]
  BY <1>1 DEF IntervalOf
<1> HIDE DEF x
<1>4. Extra(x) = x \div Period
  BY <1>2, ExtraProperties
<1>5. x \div Period \in Nat
  BY <1>1, <1>2
<1> QED
  BY <1>3, <1>4, <1>5 DEF x

(* The interval that Now returns contains the true time. *)
THEOREM NowContainsTrueTime == Spec => []IntervalContainsTrueTime
<1>1. ASSUME SourceInv, reader.trust = "ok", ~Overflows(reader)
      PROVE  Contains(IntervalOf(reader), reader.slack)
  <2>1. reader \in Estimates /\ reader # None
    BY <1>1 DEF SourceInv, SourceTypes, None
  <2> DEFINE q == (mono - reader.last) \div Period
             un == reader.disp + q
  <2>2. /\ reader.offset \in Int /\ reader.disp \in Int /\ reader.last \in Int
        /\ reader.slack \in Nat /\ reader.last <= mono
        /\ mono \in Int /\ wall \in Int /\ now \in Nat
        /\ Period \in Nat \ {0} /\ quiet \in 0..Period
    BY <1>1, <2>1, QueryFields, RateAssumption
    DEF Estimates, SourceInv, EstimateInv, SourceTypes
  <2>3. PICK k \in Nat : Drifted(reader, k)
    BY <1>1, <2>1 DEF SourceInv, EstimateInv
  <2>4. k - 1 <= q
    <3> DEFINE x == mono - reader.last
    <3>1. x \in Int /\ Period * (k - 1) <= x /\ k - 1 \in Int /\ q = x \div Period
      BY <2>2, <2>3 DEF Drifted
    <3> HIDE DEF x, q
    <3> QED
      BY <2>2, <3>1, Quotient
  <2>5. /\ q \in Nat
        /\ IntervalOf(reader).Earliest = wall + reader.offset - un
        /\ IntervalOf(reader).Latest = wall + reader.offset + un
    BY <1>1, <2>1, <2>2, Uncertainty DEF SourceInv
  <2> HIDE DEF q
  <2>6. Near(now, wall + reader.offset, reader.disp + reader.slack + 1 + k)
    BY <2>3 DEF Drifted
  <2> QED
    BY <2>2, <2>4, <2>5, <2>6 DEF Contains, Near, Rounding
<1>2. SourceInv => IntervalContainsTrueTime
  BY <1>1 DEF IntervalContainsTrueTime
<1> QED
  BY <1>2, SourceInvariance, PTL

(* The interval that Now returns is one. *)
THEOREM NowReturnsAnInterval == Spec => []IntervalNotInverted
<1>1. ASSUME SourceInv, reader.trust \notin {"none", "era"}, ~Overflows(reader),
             reader.slack = 0
      PROVE  IntervalOf(reader).Earliest <= IntervalOf(reader).Latest
  <2>1. reader \in Estimates /\ reader # None
    BY <1>1 DEF SourceInv, SourceTypes, None
  <2> DEFINE q == (mono - reader.last) \div Period
  <2>2. /\ reader.offset \in Int /\ reader.disp \in Int /\ reader.disp >= 0
        /\ reader.last <= mono /\ wall \in Int
    BY <1>1, <2>1, QueryFields DEF Estimates, SourceInv, EstimateInv
  <2>3. /\ q \in Nat
        /\ IntervalOf(reader).Earliest = wall + reader.offset - (reader.disp + q)
        /\ IntervalOf(reader).Latest = wall + reader.offset + (reader.disp + q)
    BY <1>1, <2>1, <2>2, Uncertainty DEF SourceInv
  <2> HIDE DEF q
  <2> QED
    BY <2>2, <2>3
<1>2. SourceInv => IntervalNotInverted
  BY <1>1 DEF IntervalNotInverted
<1> QED
  BY <1>2, SourceInvariance, PTL

(* The interval that Now returns is no wider than the server's dispersion, *)
(* the time that the query took and the time since explain.                *)
THEOREM NowIsNoWiderThanExplained == Spec => []WidthIsExplained
<1>1. ASSUME SourceInv, reader.trust \in {"ok", "stepped"}, ~Overflows(reader)
      PROVE  Width(reader) <= 4 * RootDisp + reader.took + reader.slack + 1
                              + 2 * ((mono - reader.last) \div Period)
  <2>1. reader \in Estimates /\ reader # None
    BY <1>1 DEF SourceInv, SourceTypes, None
  <2> DEFINE q == (mono - reader.last) \div Period
  <2>2. /\ reader.offset \in Int /\ reader.disp \in Int /\ reader.took \in Nat
        /\ reader.slack \in Nat /\ reader.last <= mono /\ wall \in Int
        /\ RootDisp \in Nat
        /\ 2 * reader.disp <= 4 * RootDisp + reader.took + reader.slack + 1
    BY <1>1, <2>1, QueryFields, ServerAssumption DEF Estimates, SourceInv, EstimateInv
  <2>3. /\ q \in Nat
        /\ IntervalOf(reader).Earliest = wall + reader.offset - (reader.disp + q)
        /\ IntervalOf(reader).Latest = wall + reader.offset + (reader.disp + q)
    BY <1>1, <2>1, <2>2, Uncertainty DEF SourceInv
  <2> HIDE DEF q
  <2>4. Width(reader) = 2 * (reader.disp + q)
    BY <2>2, <2>3 DEF Width
  <2>5. Width(reader) <= 4 * RootDisp + reader.took + reader.slack + 1 + 2 * q
    BY <2>2, <2>3, <2>4
  <2> QED
    BY <2>5 DEF q
<1>2. SourceInv => WidthIsExplained
  BY <1>1 DEF WidthIsExplained
<1> QED
  BY <1>2, SourceInvariance, PTL

(* The monotonic clock never goes back, whoever steps the wall clock. *)
LEMMA MonotonicClock ==
  ASSUME SourceInv, [Next]_vars
  PROVE  mono' \in Int /\ mono <= mono'
<1>1. now \in Nat /\ dev \in Int
  BY QueryFields DEF SourceInv
<1>2. CASE UNCHANGED <<now, dev>>
  BY <1>1, <1>2 DEF mono
<1>3. CASE \E d \in {-1, 0, 1} : Advance(d)
  BY <1>1, <1>3 DEF mono, Advance
<1> QED
  BY <1>2, <1>3 DEF Next, vars, Send, ServerReceive, ServerTransmit, Receive, ReceiveShort,
     Store, QueryError, CopyEstimate, ReturnInterval, Step

(* As long as no query succeeds the interval does not get narrower. *)
THEOREM WidthNeverShrinks == Spec => WidensBetweenQueries
<1>1. ASSUME SourceInv, SourceInv', [Next]_vars,
             est # None, est' \in {est, Stepped(est)}, ~Overflows(est)'
      PROVE  Width(est)' >= Width(est)
  <2>1. /\ est \in Estimates /\ est' \in Estimates
        /\ est'.last = est.last /\ est'.disp = est.disp
        /\ est.disp \in Int /\ est.last \in Int
        /\ est.offset \in Int /\ est'.offset \in Int
    BY <1>1 DEF SourceInv, SourceTypes, Stepped, Estimates, None
  <2>2. /\ mono \in Int /\ wall \in Int /\ mono' \in Int /\ wall' \in Int /\ mono <= mono'
        /\ est.last <= mono
        /\ Rate \in Nat /\ Period \in Nat \ {0} /\ MaxInt64 \in Nat
    <3>1. wall' \in Int
      BY <1>1, QueryFields, SkewAssumption, BoundsAssumption
      DEF SourceInv, SourceTypes, mono, wall
    <3> QED
      BY <1>1, <3>1, QueryFields, MonotonicClock, RateAssumption, BoundsAssumption
      DEF SourceInv, EstimateInv
  <2> DEFINE x == mono - est.last
             y == mono' - est.last
  <2>3. x \in Nat /\ y \in Nat /\ x <= y
    BY <2>1, <2>2
  <2>4. y * Rate <= MaxInt64
    BY <1>1, <2>1, <2>2 DEF Overflows
  <2>5. x * Rate <= MaxInt64
    <3> HIDE DEF x, y
    <3>1. (y - x) * Rate \in Nat
      BY <2>2, <2>3, ProductOfNaturals
    <3> QED
      BY <2>2, <2>3, <2>4, <3>1
  <2>6. x \div Period <= y \div Period
    <3> HIDE DEF x, y
    <3>1. x \div Period \in Int /\ Period * (x \div Period) <= y
      BY <2>2, <2>3, Quotient
    <3> QED
      BY <2>2, <2>3, <3>1, Quotient
  <2>7. Width(est) = 2 * (est.disp + x \div Period)
    <3>1. /\ x \div Period \in Nat
          /\ IntervalOf(est).Earliest = wall + est.offset - (est.disp + x \div Period)
          /\ IntervalOf(est).Latest = wall + est.offset + (est.disp + x \div Period)
      BY <1>1, <2>1, <2>2, <2>5, Uncertainty DEF SourceInv, Overflows
    <3> HIDE DEF x
    <3> QED
      BY <2>1, <2>2, <3>1 DEF Width
  <2>8. Width(est)' = 2 * (est.disp + y \div Period)
    <3>1. /\ y \div Period \in Nat
          /\ IntervalOf(est)' =
               [Earliest |-> wall' + est'.offset - (est.disp + y \div Period),
                Latest   |-> wall' + est'.offset + (est.disp + y \div Period)]
      <4>1. Extra(y) = y \div Period /\ y \div Period \in Nat
        <5> HIDE DEF y
        <5> QED
          BY <2>2, <2>3, <2>4, ExtraProperties
      <4>2. IntervalOf(est)' =
              [Earliest |-> wall' + est'.offset - (est'.disp + Extra(y)),
               Latest   |-> wall' + est'.offset + (est'.disp + Extra(y))]
        BY <2>1, <2>2 DEF IntervalOf, Extra
      <4> QED
        BY <2>1, <4>1, <4>2
    <3> HIDE DEF y
    <3> QED
      BY <2>1, <2>2, <3>1 DEF Width
  <2>9. x \div Period \in Int /\ y \div Period \in Int
    BY <2>2, <2>3
  <2> HIDE DEF x, y
  <2> QED
    BY <2>1, <2>6, <2>7, <2>8, <2>9
<1>2. SourceInv /\ SourceInv' /\ [Next]_vars =>
        [est # None /\ est' \in {est, Stepped(est)} /\ ~Overflows(est)' =>
           Width(est)' >= Width(est)]_vars
  BY <1>1
<1> QED
  BY <1>2, SourceInvariance, PTL DEF Spec, WidensBetweenQueries
=============================================================================
