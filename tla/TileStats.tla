----------------------------- MODULE TileStats -----------------------------
(***************************************************************************)
(* The per-tile interarrival statistics of the KPI#13 web UI: the part of  *)
(* updateTileImage (webui/src/App.tsx) that runs when a message for a tile *)
(* arrives, and the tile's initial state from the mount effect.  Every     *)
(* tile behaves alike and independently, so one tile is modelled.  Time is *)
(* the browser clock in milliseconds, advanced by Tick.                    *)
(***************************************************************************)
EXTENDS Integers, Sequences, SequencesExt, FiniteSets

CONSTANTS
    MaxTime,        \* bound on the clock
    MaxUpdates,     \* bound on the images applied to the tile
    StatsWindow,    \* `newTimes.slice(-50)`: interarrival times kept
    BinCount,       \* `const binCount = 10`: bars of the histogram
    None            \* `tile.previousUpdate` is undefined

ASSUME MaxTime \in Nat /\ MaxUpdates \in Nat /\ StatsWindow \in Nat \ {0}
ASSUME BinCount \in Nat \ {0}

Time == 0..MaxTime

VARIABLES
    now,                \* `new Date()` at the current step
    lastUpdate,         \* tile.lastUpdate
    previousUpdate,     \* tile.previousUpdate
    interarrivalTimes,  \* stat.interarrivalTimes
    avgInterarrival,    \* stat.avgInterarrival, as the fraction [num, den]
    minInterarrival,    \* stat.minInterarrival
    maxInterarrival,    \* stat.maxInterarrival
    totalUpdates,       \* stat.totalUpdates
    updates             \* history: times at which an image was applied

vars == <<now, lastUpdate, previousUpdate, interarrivalTimes, avgInterarrival,
          minInterarrival, maxInterarrival, totalUpdates, updates>>

TypeOK ==
    /\ now \in Time /\ lastUpdate \in Time
    /\ previousUpdate \in Time \cup {None}
    /\ interarrivalTimes \in Seq(Time)
    /\ avgInterarrival \in [num : Nat, den : Nat \ {0}]
    /\ minInterarrival \in Time /\ maxInterarrival \in Time
    /\ totalUpdates \in Nat
    /\ updates \in Seq(Time)

(* The mount effect: lastUpdate = new Date(), no previousUpdate, empty     *)
(* statistics.                                                             *)
Init ==
    /\ now = 0
    /\ lastUpdate = 0
    /\ previousUpdate = None
    /\ interarrivalTimes = <<>>
    /\ avgInterarrival = [num |-> 0, den |-> 1]
    /\ minInterarrival = 0 /\ maxInterarrival = 0
    /\ totalUpdates = 0
    /\ updates = <<>>

SeqMin(s) == CHOOSE x \in ToSet(s) : \A y \in ToSet(s) : x <= y
\* `times.reduce((sum, time) => sum + time, 0) / times.length`
Mean(times) == [num |-> FoldSeq(LAMBDA x, y : x + y, 0, times), den |-> Len(times)]

SeqMax(s) == CHOOSE x \in ToSet(s) : \A y \in ToSet(s) : x >= y

\* `[...stat.interarrivalTimes, t].slice(-50)`
Trimmed(times, t) ==
    LET s == Append(times, t) IN
    IF Len(s) > StatsWindow THEN SubSeq(s, Len(s) - StatsWindow + 1, Len(s)) ELSE s

(* updateTileImage(tileId, imageUrl): when the tile has a previousUpdate,   *)
(* the interarrival time now - previousUpdate is appended to the window and *)
(* the average, min, max and count are recomputed; then previousUpdate     *)
(* takes the old lastUpdate and lastUpdate becomes now.                     *)
UpdateTileImage ==
    /\ Len(updates) < MaxUpdates
    /\ IF previousUpdate # None
       THEN LET t == Trimmed(interarrivalTimes, now - previousUpdate) IN
            /\ interarrivalTimes' = t
            /\ avgInterarrival' = Mean(t)
            /\ minInterarrival' = SeqMin(t)
            /\ maxInterarrival' = SeqMax(t)
            /\ totalUpdates' = totalUpdates + 1
       ELSE UNCHANGED <<interarrivalTimes, avgInterarrival, minInterarrival,
                        maxInterarrival, totalUpdates>>
    /\ previousUpdate' = lastUpdate
    /\ lastUpdate' = now
    /\ updates' = Append(updates, now)
    /\ UNCHANGED now

Tick ==
    /\ now < MaxTime
    /\ now' = now + 1
    /\ UNCHANGED <<lastUpdate, previousUpdate, interarrivalTimes, avgInterarrival,
                   minInterarrival, maxInterarrival, totalUpdates, updates>>

Next == UpdateTileImage \/ Tick

Spec == Init /\ [][Next]_vars

-----------------------------------------------------------------------------
(* The histogram the stats panel draws from a tile's statistics.           *)

\* Math.ceil(a / b) for a >= 0, b > 0.
CeilDiv(a, b) == (a + b - 1) \div b

\* `Math.max(1, Math.ceil(range / binCount))`
BinSize == LET range == maxInterarrival - minInterarrival IN
           IF CeilDiv(range, BinCount) > 1 THEN CeilDiv(range, BinCount) ELSE 1

\* Faulty variant: the bar index without the clamp to the last bar.
BinIndexNoClamp(time) == (time - minInterarrival) \div BinSize

\* `Math.min(binCount - 1, Math.floor((time - min) / binSize))`
BinIndex(time) ==
    LET i == (time - minInterarrival) \div BinSize IN
    IF i < BinCount - 1 THEN i ELSE BinCount - 1

\* `bins[binIndex]++` for every recorded time: the height of each bar
\* (an index past the array lands in no bar).
Bins == [i \in 0..(BinCount - 1) |->
            Cardinality({j \in DOMAIN interarrivalTimes : BinIndex(interarrivalTimes[j]) = i})]

(* The bars count every recorded time once, in the bar whose title          *)
(* `${min + index * binSize}-${min + (index + 1) * binSize}ms` covers it   *)
(* (lower bound included, upper excluded except for the last bar, which    *)
(* holds the maximum): the floor division and the clamp to the last bar    *)
(* must agree with the titles for every range of interarrival times.       *)
RefBins == [i \in 0..(BinCount - 1) |->
              LET lo == minInterarrival + i * BinSize
                  hi == minInterarrival + (i + 1) * BinSize
              IN  Cardinality({j \in DOMAIN interarrivalTimes :
                                 /\ lo <= interarrivalTimes[j]
                                 /\ \/ interarrivalTimes[j] < hi
                                    \/ i = BinCount - 1 /\ interarrivalTimes[j] <= hi})]
HistogramBinsHoldSamples == Bins = RefBins

-----------------------------------------------------------------------------
(* The statistics measure what the panel says they measure: the times      *)
(* recorded are the gaps between consecutive image updates of the tile,    *)
(* the most recent last (the comment "Calculate interarrival time if this  *)
(* isn't the first update").                                                *)
Gaps == [j \in 1..(Len(updates) - 1) |-> updates[j + 1] - updates[j]]
InterarrivalIsGap == IsSuffix(interarrivalTimes, Gaps)

=============================================================================
