\* Convergence of the live path: one key written three times, two clients
\* that may reconnect, one of which may stop reading; no GET failures.
CONSTANTS
    c1 = c1
    c2 = c2
    Clients = {c1, c2}
    NKeys = 1
    MaxFrames = 3
    MaxSessions = 2
    ExternalDeletes = TRUE
    GetMayFail = FALSE
    SlowClients = {c2}
    MaxSubDrops = 0
SPECIFICATION Spec
PROPERTY EventuallyConverged
CHECK_DEADLOCK FALSE
