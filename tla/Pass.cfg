SPECIFICATION PSpec
CONSTANTS
    Pod = {1, 2, 3, 4}
    Storage = {1, 2, 3}
    Activities <- Writers
    Level <- Levels
    Lag = {0, 5, 15}
    Time = {0, 40}
    Strength = {3, 6}
    Unit = 10000
    None = None
INVARIANT LonersDoNotCentre
INVARIANT ImpactIsBestWalk
INVARIANT EdgesAccountedFor
PROPERTY SourcesKept
