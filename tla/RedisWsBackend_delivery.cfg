\* Spec section 8: every SET made while a client is open reaches it.
CONSTANTS
    c1 = c1
    c2 = c2
    Clients = {c1, c2}
    NKeys = 2
    MaxFrames = 2
    MaxSessions = 1
    ExternalDeletes = FALSE
    GetMayFail = FALSE
    SlowClients = {c2}
    MaxSubDrops = 0
SPECIFICATION Spec
INVARIANT EveryWriteDelivered
CHECK_DEADLOCK FALSE
