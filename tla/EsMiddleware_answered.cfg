\* Two concurrent requests on any routes, the code's 10 retries, the cluster
\* going down up to twice.
CONSTANTS
    q1 = q1
    q2 = q2
    Reqs <- MCReqs
    MaxRetries = 10
    MaxOutages = 2
SPECIFICATION Spec
PROPERTY ImplementedRoutesAnswered
CHECK_DEADLOCK FALSE
