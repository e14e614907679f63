\* One browser, two publishes, payloads that may be invalid JSON.
CONSTANTS
    b1 = b1
    b2 = b2
    Clients <- MCClients
    MaxMsgs = 2
    MaxDrops = 0
    MaxSessions = 1
    MaxTicks = 0
    MayBeMalformed = TRUE
SPECIFICATION Spec
INVARIANT MalformedPayloadDropped
CHECK_DEADLOCK FALSE
