\* Up to four sockets from repeated Connect / Disconnect clicks, images
\* arriving on open sockets, a clock of 0..4 and a three-bar histogram (the
\* code draws ten; three bars let the clamp to the last bar happen within
\* the clock's range), and a window of two interarrival times (50 in the
\* code) so that the trim happens.
CONSTANTS
    MaxSockets = 4
    None = None
    MaxTime = 4
    MaxUpdates = 4
    StatsWindow = 2
    BinCount = 3
SPECIFICATION Spec
INVARIANT AtMostOneLiveSocket
INVARIANT HistogramBinsHoldSamples
CHECK_DEADLOCK FALSE
