--------------------------- MODULE RollingAverage ---------------------------
(***************************************************************************)
(* getNodeHealthRollingAvg (es_middleware/controller/apiController.js):    *)
(* one search of node_health_test for a node, bucketed by a date_histogram *)
(* (fixed_interval '1m', min_doc_count 0), with an `avg` of the metric per *)
(* bucket and a `moving_fn` (window 5, MovingFunctions.unweightedAvg, the  *)
(* default shift 0 and gap_policy skip) over those averages.  The handler  *)
(* returns `aggregations.by_time.buckets` unchanged.                       *)
(*                                                                         *)
(* The pipeline is written as operators following Elasticsearch's         *)
(* semantics; the spec's reference rolling average (spec.md, section 5)    *)
(* is written beside it.  Telemetry ingestion, outside the repository,     *)
(* indexes documents with any timestamp (late arrivals included).  One     *)
(* metric, proc_cpu_usage, stands for the four the query treats alike.     *)
(* Averages are exact fractions [num, den].                                *)
(***************************************************************************)
EXTENDS Integers, Sequences, SequencesExt

CONSTANTS
    NNodes,         \* node ids 1..NNodes
    MaxTime,        \* timestamps 0..MaxTime, in ticks
    Interval,       \* fixed_interval '1m', in ticks
    Window,         \* moving_fn `window: 5`
    CpuValues,      \* values a document may carry
    MaxDocs,        \* bound on documents indexed
    SearchMayFail   \* whether `req.client.search` may reject

ASSUME NNodes \in Nat \ {0} /\ MaxTime \in Nat /\ Interval \in Nat \ {0}
ASSUME Window \in Nat \ {0} /\ CpuValues \subseteq Nat /\ MaxDocs \in Nat

Nodes   == 1..NNodes
Missing == -1                       \* the document has no proc_cpu_usage
Doc     == [id : 1..MaxDocs, node : Nodes, ts : 0..MaxTime,
            cpu : CpuValues \cup {Missing}]

\* Exact fractions; Null is the JSON null of an average over no value.
Frac(n, d)      == [num |-> n, den |-> d]
Null            == Frac(0, 0)
FracAdd(a, b)   == Frac(a.num * b.den + b.num * a.den, a.den * b.den)
FracLeq(a, b)   == a.num * b.den <= b.num * a.den
FracEq(a, b)    == IF a = Null \/ b = Null THEN a = b ELSE a.num * b.den = b.num * a.den

VARIABLES
    docs,       \* the documents of node_health_test
    nextId,     \* ids of indexed documents
    resp        \* the last response: code, node, the node's documents the
                \* search saw, and `by_time.buckets`

vars == <<docs, nextId, resp>>

Bucket == [key : Int, count : Nat, avg : [num : Int, den : Nat],
           mov : [num : Int, den : Nat]]
NoResp == [code |-> 0, node |-> 1, seen |-> {}, buckets |-> <<>>]

TypeOK ==
    /\ docs \subseteq Doc
    /\ nextId \in 1..(MaxDocs + 1)
    /\ resp \in [code : {0, 200, 500}, node : Nodes, seen : SUBSET Doc,
                 buckets : Seq(Bucket)]

Init ==
    /\ docs = {}
    /\ nextId = 1
    /\ resp = NoResp

-----------------------------------------------------------------------------
(* The aggregation pipeline.                                               *)

\* Key of the fixed_interval bucket holding time t: aligned to the epoch.
BucketKey(t) == t - (t % Interval)

InBucket(D, k) == {d \in D : BucketKey(d.ts) = k}

\* date_histogram keys with min_doc_count 0 and no extended_bounds: every
\* interval from the first to the last one holding a document.
DateHistogram(D) ==
    IF D = {} THEN <<>>
    ELSE LET lo == Min({BucketKey(d.ts) : d \in D})
             hi == Max({BucketKey(d.ts) : d \in D})
         IN  [i \in 1..((hi - lo) \div Interval + 1) |-> lo + (i - 1) * Interval]

\* `avg: { field: 'proc_cpu_usage' }`: null when no document has the field.
AvgAgg(D) ==
    LET S == {d \in D : d.cpu # Missing} IN
    IF S = {} THEN Null
    ELSE Frac(MapThenSumSet(LAMBDA d : d.cpu, S), Cardinality(S))

\* MovingFunctions.unweightedAvg(values): NaN (null) for no values.
UnweightedAvg(vals) ==
    IF vals = <<>> THEN Null
    ELSE LET s == FoldLeft(FracAdd, Frac(0, 1), vals) IN Frac(s.num, s.den * Len(vals))

\* moving_fn, gap_policy skip, shift 0: `values` are the averages of the
\* buckets that have one; the n-th such bucket gets unweightedAvg of
\* values[n-window .. n-1] (clamped), i.e. the previous `window` averages,
\* its own excluded; a bucket without an average gets no moving value.
MovingFn(avgs) ==
    LET values  == SelectSeq(avgs, LAMBDA a : a # Null)
        rank(i) == Len(SelectSeq(SubSeq(avgs, 1, i - 1), LAMBDA a : a # Null))
        from(i) == IF rank(i) > Window THEN rank(i) - Window ELSE 0
    IN  [i \in DOMAIN avgs |->
           IF avgs[i] = Null THEN Null
           ELSE UnweightedAvg(SubSeq(values, from(i) + 1, rank(i)))]

\* `aggregations.by_time.buckets` of the node's documents D.
ByTimeBuckets(D) ==
    LET keys == DateHistogram(D)
        avgs == [i \in DOMAIN keys |-> AvgAgg(InBucket(D, keys[i]))]
        movs == MovingFn(avgs)
    IN  [i \in DOMAIN keys |-> [key |-> keys[i], count |-> Cardinality(InBucket(D, keys[i])),
                                avg |-> avgs[i], mov |-> movs[i]]]

-----------------------------------------------------------------------------
(* Environment: ingestion indexes a sample, possibly a late one.           *)
IndexDoc(n, t, v) ==
    /\ nextId <= MaxDocs
    /\ docs' = docs \cup {[id |-> nextId, node |-> n, ts |-> t, cpu |-> v]}
    /\ nextId' = nextId + 1
    /\ UNCHANGED resp

(* GET /getNodeHealthRollingAvg/:nodeId: the search runs on the documents   *)
(* present and the handler answers 200 with the buckets, or 500 when the    *)
(* search rejects.                                                          *)
RollingAvgSearch(n) ==
    LET D == {d \in docs : d.node = n} IN
    /\ \/ /\ SearchMayFail
          /\ resp' = [NoResp EXCEPT !.code = 500, !.node = n]
       \/ resp' = [code |-> 200, node |-> n, seen |-> D, buckets |-> ByTimeBuckets(D)]
    /\ UNCHANGED <<docs, nextId>>

Next ==
    \/ \E n \in Nodes, t \in 0..MaxTime, v \in CpuValues \cup {Missing} : IndexDoc(n, t, v)
    \/ \E n \in Nodes : RollingAvgSearch(n)

Spec == Init /\ [][Next]_vars

-----------------------------------------------------------------------------
(* Properties, over the buckets of a 200 response and the documents the    *)
(* search saw.                                                             *)

B == resp.buckets
Answered == resp.code = 200

\* Spec 5: the moving average of bucket i over the last Window buckets,
\* bucket i included, skipping the buckets without samples.
Avgs == [j \in DOMAIN B |-> B[j].avg]
SpecMovingAvg(i) ==
    UnweightedAvg(SelectSeq(SubSeq(Avgs, IF i > Window THEN i - Window + 1 ELSE 1, i),
                            LAMBDA a : a # Null))

(* Spec 5 and the scenario of spec 8 (10 and 20 one bucket apart give 15   *)
(* for the second bucket): each bucket with samples reports the moving     *)
(* average of the last Window buckets, itself included.                    *)
MovingAvgMatchesSpec ==
    Answered => \A i \in DOMAIN B : B[i].avg # Null => FracEq(B[i].mov, SpecMovingAvg(i))

=============================================================================
