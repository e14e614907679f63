------------------------- MODULE NodeHealthQueries -------------------------
(***************************************************************************)
(* The aggregation handlers of es_middleware/controller/apiController.js   *)
(* over the Elasticsearch index `node_health_test`:                        *)
(*   getNodeHealthAvg       an existence search, then an avg aggregation   *)
(*                          (two awaits, the index may change in between); *)
(*   getMaxConsumptionNode  one search with a `max` aggregation and a      *)
(*   getMinConsumptionNode  `top_hits` (size 1) sorted on the same field   *)
(*                          naming the owning node.                        *)
(* Requests run concurrently with each other and with the writers of the   *)
(* index (node telemetry ingestion, retention), which are outside the      *)
(* repository and modelled as the environment.  Each search is evaluated   *)
(* atomically on the documents present when Elasticsearch executes it.    *)
(* One metric field, proc_cpu_usage, stands for the four the handlers      *)
(* aggregate alike (mem_used, tot_rx_bytes, ... ).                         *)
(***************************************************************************)
EXTENDS Integers, FiniteSets

CONSTANTS
    NNodes,         \* node ids 1..NNodes; a lower id is a lower entityId
    CpuValues,      \* proc_cpu_usage values a document may carry
    MaxDocs,        \* bound on documents indexed
    NReqs,          \* concurrent HTTP requests 1..NReqs
    SearchMayFail   \* whether `req.client.search` may reject

ASSUME NNodes \in Nat \ {0} /\ MaxDocs \in Nat /\ NReqs \in Nat \ {0}
ASSUME CpuValues \subseteq Nat /\ SearchMayFail \in BOOLEAN

Nodes   == 1..NNodes
Reqs    == 1..NReqs
Missing == -1                   \* the document has no proc_cpu_usage
NoVal   == -2                   \* a response field that is null / absent
Doc     == [id : 1..MaxDocs, node : Nodes, cpu : CpuValues \cup {Missing}]
Ops     == {"avg", "max", "min"}

VARIABLES
    docs,       \* the documents of node_health_test
    nextId,     \* ids of indexed documents
    req,        \* req[r]: [pc, op, node] of request r
    resp        \* resp[r]: the response request r sent

vars == <<docs, nextId, req, resp>>

Resp == [code : {0, 200, 404, 500}, sum : Int, cnt : Int,
         samples : SUBSET Doc, value : Int, owner : Nodes \cup {NoVal}]
NoResp == [code |-> 0, sum |-> 0, cnt |-> 0, samples |-> {}, value |-> NoVal,
           owner |-> NoVal]

TypeOK ==
    /\ docs \subseteq Doc
    /\ nextId \in 1..(MaxDocs + 1)
    /\ req \in [Reqs -> [pc : {"idle", "exist", "agg", "ext", "done"},
                         op : Ops, node : Nodes]]
    /\ resp \in [Reqs -> Resp]

Init ==
    /\ docs = {}
    /\ nextId = 1
    /\ req = [r \in Reqs |-> [pc |-> "idle", op |-> "avg", node |-> 1]]
    /\ resp = [r \in Reqs |-> NoResp]

\* The documents of node n, and those of them that carry the field.
NodeDocs(n)  == {d \in docs : d.node = n}
Samples(D)   == {d \in D : d.cpu # Missing}

RECURSIVE SumCpu(_)
SumCpu(D) == IF D = {} THEN 0
             ELSE LET d == CHOOSE x \in D : TRUE IN d.cpu + SumCpu(D \ {d})

\* `max` / `min` aggregation value: null when no document has the field.
AggExtremum(dir) ==
    LET V == {d.cpu : d \in Samples(docs)} IN
    IF V = {} THEN NoVal
    ELSE CHOOSE v \in V : \A w \in V : IF dir = "max" THEN v >= w ELSE v <= w

\* Sort key of top_hits: `order: 'desc'` for max, 'asc' for min; documents
\* without the field sort last either way.
Before(dir, a, b) ==
    \/ a.cpu # Missing /\ b.cpu = Missing
    \/ /\ a.cpu # Missing /\ b.cpu # Missing
       /\ IF dir = "max" THEN a.cpu > b.cpu ELSE a.cpu < b.cpu

\* Faulty variant: the top_hits sort of the min query pasted into the max
\* query, or the reverse: the owner comes from the opposite end.
TopHitsOppositeSort(dir) ==
    {d \in docs : \A e \in docs : ~Before(IF dir = "max" THEN "min" ELSE "max", e, d)}

\* `top_hits` size 1: a first document of the sort; among equal sort keys
\* Elasticsearch returns whichever it meets first (no tie-breaker is given).
TopHits(dir) == {d \in docs : \A e \in docs : ~Before(dir, e, d)}

Respond(r, rsp) ==
    /\ resp' = [resp EXCEPT ![r] = rsp]
    /\ req' = [req EXCEPT ![r].pc = "done"]

-----------------------------------------------------------------------------
(* Environment: telemetry ingestion indexes a document; retention deletes  *)
(* one.                                                                    *)
IndexDoc(n, v) ==
    /\ nextId <= MaxDocs
    /\ docs' = docs \cup {[id |-> nextId, node |-> n, cpu |-> v]}
    /\ nextId' = nextId + 1
    /\ UNCHANGED <<req, resp>>

DeleteDoc(d) ==
    /\ d \in docs
    /\ docs' = docs \ {d}
    /\ UNCHANGED <<nextId, req, resp>>

(* GET /getAvgNodeHealth/:nodeId: the handler sends the existence search.   *)
AvgRequest(r, n) ==
    /\ req[r].pc = "idle"
    /\ req' = [req EXCEPT ![r] = [pc |-> "exist", op |-> "avg", node |-> n]]
    /\ UNCHANGED <<docs, nextId, resp>>

(* The existence search `match: {node_id}` runs and the handler resumes:    *)
(* 500 on a rejected search, 404 "Node not found." when hits.total.value is *)
(* 0, otherwise it sends the aggregation search.  (`!hits.hits ||           *)
(* !hits.total` cannot hold: Elasticsearch always returns both.)            *)
AvgExistSearch(r) ==
    /\ req[r].pc = "exist"
    /\ \/ /\ SearchMayFail
          /\ Respond(r, [NoResp EXCEPT !.code = 500])
       \/ /\ NodeDocs(req[r].node) = {}
          /\ Respond(r, [NoResp EXCEPT !.code = 404])
       \/ /\ NodeDocs(req[r].node) # {}
          /\ req' = [req EXCEPT ![r].pc = "agg"]
          /\ UNCHANGED resp
    /\ UNCHANGED <<docs, nextId>>

(* The `avg` aggregation over the node's documents runs and the handler     *)
(* answers 200 with `avg_cpu_usage?.value || 0`: a null average (no         *)
(* document carries the field, or the node's documents are gone) becomes 0. *)
AvgAggSearch(r) ==
    LET S == Samples(NodeDocs(req[r].node)) IN
    /\ req[r].pc = "agg"
    /\ \/ /\ SearchMayFail
          /\ Respond(r, [NoResp EXCEPT !.code = 500])
       \/ Respond(r, [code |-> 200, samples |-> S, value |-> NoVal, owner |-> NoVal,
                      sum |-> IF S = {} THEN 0 ELSE SumCpu(S),
                      cnt |-> IF S = {} THEN 1 ELSE Cardinality(S)])
    /\ UNCHANGED <<docs, nextId>>

(* GET /getMaxConsumptionNode or /getMinConsumptionNode: the search is sent.*)
ExtremumRequest(r, dir) ==
    /\ req[r].pc = "idle"
    /\ req' = [req EXCEPT ![r] = [pc |-> "ext", op |-> dir, node |-> 1]]
    /\ UNCHANGED <<docs, nextId, resp>>

(* The search runs: the response carries the aggregation's value and the    *)
(* node_id of `top_hits.hits.hits[0]?._source` (absent when no documents).  *)
ExtremumSearch(r) ==
    LET dir == req[r].op IN
    /\ req[r].pc = "ext"
    /\ \/ /\ SearchMayFail
          /\ Respond(r, [NoResp EXCEPT !.code = 500])
       \/ /\ docs = {}
          /\ Respond(r, [NoResp EXCEPT !.code = 200])
       \/ \E d \in TopHits(dir) :
            Respond(r, [NoResp EXCEPT !.code = 200, !.value = AggExtremum(dir),
                                      !.owner = d.node, !.samples = docs])
    /\ UNCHANGED <<docs, nextId>>

Next ==
    \/ \E n \in Nodes, v \in CpuValues \cup {Missing} : IndexDoc(n, v)
    \/ \E d \in docs : DeleteDoc(d)
    \/ \E r \in Reqs :
         \/ \E n \in Nodes : AvgRequest(r, n)
         \/ AvgExistSearch(r) \/ AvgAggSearch(r)
         \/ \E dir \in {"max", "min"} : ExtremumRequest(r, dir)
         \/ ExtremumSearch(r)

Spec == Init /\ [][Next]_vars

-----------------------------------------------------------------------------
(* Properties                                                              *)

ExtremumResp(r) == req[r].op \in {"max", "min"} /\ resp[r].code = 200
                   /\ resp[r].owner # NoVal /\ resp[r].value # NoVal

(* A min/max response is coherent: the node it names owns a document that  *)
(* carried the reported value when the search ran, although the value and  *)
(* the owner come from two different aggregations of that search.          *)
ExtremumOwnerHoldsValue ==
    \A r \in Reqs : ExtremumResp(r) =>
        \E d \in resp[r].samples : d.node = resp[r].owner /\ d.cpu = resp[r].value

(* Spec 4.3 and 7: a 200 average is the mean of samples of the node that    *)
(* existed; "no data" is never reported as an average of 0.                 *)
AvgNeverDefaultsToZero ==
    \A r \in Reqs : (req[r].op = "avg" /\ resp[r].code = 200) =>
        /\ resp[r].samples # {}
        /\ resp[r].sum = SumCpu(resp[r].samples)
        /\ resp[r].cnt = Cardinality(resp[r].samples)

=============================================================================
