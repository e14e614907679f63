\* Interarrival statistics against the gaps between a tile's updates.
CONSTANTS
    MaxTime = 4
    MaxUpdates = 4
    StatsWindow = 3
    BinCount = 3
    None = None
SPECIFICATION Spec
INVARIANT InterarrivalIsGap
CHECK_DEADLOCK FALSE
