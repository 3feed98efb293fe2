SPECIFICATION FairSpec
CONSTANTS
    cool1 = cool1
    cool2 = cool2
    tsdb1 = tsdb1
    None = None
    Pod = {cool1, tsdb1}
    Workload = {1, 2}
    WorkloadOf <- OneEach
    One = 10
    Alpha = 4
    Decay = 1
    ShowAt = 6
    HideAt = 3
    Prior = 2
    FloorFrac = 4
    HitCap = 2
INVARIANT TypeOK
INVARIANT Hysteresis
INVARIANT NoFlicker
INVARIANT ServedIsDurable
INVARIANT BackboneServed
INVARIANT SourceMatchesState
PROPERTY AbsentIsHeld
PROPERTY FloorNeverErodes
PROPERTY QuietSettles
PROPERTY StormLocksIn
PROPERTY KeepsPromise
