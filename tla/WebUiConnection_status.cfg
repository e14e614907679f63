\* The shown status against the state of the current socket.
CONSTANTS
    MaxSockets = 3
    None = None
SPECIFICATION Spec
INVARIANT CurrentOpenShownConnected
CHECK_DEADLOCK FALSE
