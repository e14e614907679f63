\* Safety of the live path with failing GETs and external deletes.
CONSTANTS
    c1 = c1
    c2 = c2
    Clients <- MCClients
    NKeys = 2
    MaxFrames = 2
    MaxSessions = 1
    ExternalDeletes = TRUE
    GetMayFail = TRUE
    SlowClients = {}
    MaxSubDrops = 1
SPECIFICATION Spec
SYMMETRY ClientSymmetry
INVARIANT TypeOK
PROPERTY HubSpec
CHECK_DEADLOCK FALSE
