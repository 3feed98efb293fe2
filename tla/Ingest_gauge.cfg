SPECIFICATION ISpec
CONSTANTS
    QueueMax = 2
    BatchMax = 2
    Arrivals = 6
INVARIANT GaugeShowsBacklog
