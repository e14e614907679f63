----------------------------- MODULE EsMiddleware -----------------------------
(***************************************************************************)
(* The HTTP side of es_middleware: the Express app of app.js, the route    *)
(* table of routes/apiRoutes.js, the shape of every handler of             *)
(* controller/apiController.js, and the startup connection check           *)
(* testElasticsearchConnection, which runs while the server already        *)
(* accepts requests.  What a search computes is abstracted here (see       *)
(* NodeHealthQueries and RollingAverage); this module is about whether and *)
(* how each request is answered while Elasticsearch comes and goes.        *)
(***************************************************************************)
EXTENDS Naturals

CONSTANTS
    Reqs,           \* HTTP requests (each served once)
    MaxRetries,     \* `const maxRetries = 10`
    MaxOutages      \* bound on Elasticsearch going down

ASSUME MaxRetries \in Nat \ {0} /\ MaxOutages \in Nat

\* routes/apiRoutes.js: path -> the shape of its controller function:
\*   "search" one awaited client.search / client.index, then res.json, or
\*            500 in the catch;
\*   "avg"    getNodeHealthAvg: an existence search (404 when no hits),
\*            then an aggregation search;
\*   "todo"   the three handlers whose body is `console.log(...)` and a
\*            TODO comment.
RouteKind ==
    [ getDomainHealth |-> "search", getDomainProviders |-> "search",
      getDomainDependency |-> "search", getDomainInstance |-> "search",
      getNodeCapabilities |-> "search", getNodeHealth |-> "search",
      getAvgNodeHealth |-> "avg", getRollingAvgNodeHealth |-> "search",
      getMaxConsumptionNode |-> "search", getMinConsumptionNode |-> "search",
      getNodeFunctionSamples |-> "todo", getAvgFunctionExecutionTime |-> "todo",
      getRollingAvgFunctionExecutionTime |-> "todo",
      postGpuMetrics |-> "search", getGpuMetrics |-> "search" ]

Routes == DOMAIN RouteKind
Pc     == {"idle", "search", "exist", "agg", "returned", "answered"}

VARIABLES
    esUp,       \* the Elasticsearch cluster is reachable
    outages,    \* times it went down
    check,      \* testElasticsearchConnection: "calling", "waiting", "done"
    attempt,    \* its `attempt` counter
    route,      \* route[r]: the path request r was sent to
    pc,         \* pc[r]: where the handler of r is
    code        \* code[r]: HTTP status sent for r (0: none)

vars == <<esUp, outages, check, attempt, route, pc, code>>

TypeOK ==
    /\ esUp \in BOOLEAN /\ outages \in 0..MaxOutages
    /\ check \in {"calling", "waiting", "done"}
    /\ attempt \in 0..MaxRetries
    /\ route \in [Reqs -> Routes] /\ pc \in [Reqs -> Pc]
    /\ code \in [Reqs -> {0, 200, 404, 500}]

(* app.js: the client is created, the server listens, and the connection    *)
(* check starts with `attempt = 0`; Elasticsearch may or may not be up.     *)
Init ==
    /\ esUp \in BOOLEAN /\ outages = 0
    /\ check = "calling" /\ attempt = 0
    /\ route \in [Reqs -> Routes]
    /\ pc = [r \in Reqs |-> "idle"]
    /\ code = [r \in Reqs |-> 0]

\* The handler sends status s and is finished.
Answer(r, s) == pc' = [pc EXCEPT ![r] = "answered"] /\ code' = [code EXCEPT ![r] = s]

-----------------------------------------------------------------------------
(* Environment: the cluster goes down or comes back.                        *)
EsDown ==
    /\ esUp /\ outages < MaxOutages
    /\ esUp' = FALSE /\ outages' = outages + 1
    /\ UNCHANGED <<check, attempt, route, pc, code>>

EsBack ==
    /\ ~esUp
    /\ esUp' = TRUE
    /\ UNCHANGED <<outages, check, attempt, route, pc, code>>

(* One iteration of the while loop: `await client.cluster.health()`; on     *)
(* success return; on failure `attempt++`, return when attempt >=           *)
(* maxRetries, otherwise wait 5 seconds.                                    *)
HealthCall ==
    /\ check = "calling"
    /\ IF esUp THEN check' = "done" /\ UNCHANGED attempt
       ELSE /\ attempt' = attempt + 1
            /\ check' = IF attempt + 1 >= MaxRetries THEN "done" ELSE "waiting"
    /\ UNCHANGED <<esUp, outages, route, pc, code>>

(* The 5 s setTimeout fires and the loop condition `attempt < maxRetries`  *)
(* is tested again: another iteration, or the loop ends and the function    *)
(* returns.                                                                 *)
RetryTimer ==
    /\ check = "waiting"
    /\ check' = IF attempt < MaxRetries THEN "calling" ELSE "done"
    /\ UNCHANGED <<esUp, outages, attempt, route, pc, code>>

(* The request reaches its controller function through the middleware that *)
(* sets req.client and the router: a search handler sends its query, a TODO *)
(* handler logs and returns without a response.                             *)
Dispatch(r) ==
    /\ pc[r] = "idle"
    /\ pc' = [pc EXCEPT ![r] = CASE RouteKind[route[r]] = "search" -> "search"
                                 [] RouteKind[route[r]] = "avg"    -> "exist"
                                 [] RouteKind[route[r]] = "todo"   -> "returned"]
    /\ UNCHANGED <<esUp, outages, check, attempt, route, code>>

(* The awaited search or index call settles: res.json(result.body), or the *)
(* catch answers 500 when the cluster is unreachable.                       *)
SearchReply(r) ==
    /\ pc[r] = "search"
    /\ Answer(r, IF esUp THEN 200 ELSE 500)
    /\ UNCHANGED <<esUp, outages, check, attempt, route>>

(* getNodeHealthAvg: the existence search settles: 500, 404 when there are  *)
(* no hits for the node, or on to the aggregation search.                   *)
ExistReply(r) ==
    /\ pc[r] = "exist"
    /\ \/ ~esUp /\ Answer(r, 500)
       \/ esUp /\ Answer(r, 404)
       \/ esUp /\ pc' = [pc EXCEPT ![r] = "agg"] /\ UNCHANGED code
    /\ UNCHANGED <<esUp, outages, check, attempt, route>>

\* Faulty variant: a catch that only logs the error, as the TODO handlers
\* only log.
AggReplyCatchOnlyLogs(r) ==
    /\ pc[r] = "agg"
    /\ IF esUp THEN Answer(r, 200) ELSE pc' = [pc EXCEPT ![r] = "returned"] /\ UNCHANGED code
    /\ UNCHANGED <<esUp, outages, check, attempt, route>>

(* getNodeHealthAvg: the aggregation search settles: 200 or 500.            *)
AggReply(r) ==
    /\ pc[r] = "agg"
    /\ Answer(r, IF esUp THEN 200 ELSE 500)
    /\ UNCHANGED <<esUp, outages, check, attempt, route>>

Next ==
    \/ EsDown \/ EsBack \/ HealthCall \/ RetryTimer
    \/ \E r \in Reqs : Dispatch(r) \/ SearchReply(r) \/ ExistReply(r) \/ AggReply(r)

(* Node runs every callback and timer, the Elasticsearch client settles     *)
(* every call (its requestTimeout bounds a silent cluster), and a sent      *)
(* request is dispatched.  The cluster owes nothing: it may stay down.      *)
Fairness ==
    /\ WF_vars(HealthCall) /\ WF_vars(RetryTimer)
    /\ \A r \in Reqs : WF_vars(Dispatch(r)) /\ WF_vars(SearchReply(r))
                       /\ WF_vars(ExistReply(r)) /\ WF_vars(AggReply(r))

Spec == Init /\ [][Next]_vars /\ Fairness

-----------------------------------------------------------------------------
(* Properties                                                              *)

(* Every request to an implemented route is answered, with the data, 404   *)
(* or 500, whether the cluster is up, down, or goes down midway.           *)
ImplementedRoutesAnswered ==
    \A r \in Reqs : RouteKind[route[r]] # "todo" => <>(code[r] # 0)

=============================================================================
