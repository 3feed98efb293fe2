SPECIFICATION Spec
CONSTANTS
    cool1 = cool1
    cool2 = cool2
    tsdb1 = tsdb1
    None = None
    Pod = {cool1, tsdb1}
    Workload = {1, 2}
    WorkloadOf <- OneEach
    One = 20
    Alpha = 8
    Decay = 2
    ShowAt = 12
    HideAt = 5
    Prior = 4
    FloorFrac = 8
    HitCap = 2
INVARIANT RenderedStates
