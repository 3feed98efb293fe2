SPECIFICATION Spec
CONSTANTS
    cool1 = cool1
    cool2 = cool2
    tsdb1 = tsdb1
    None = None
    Pod = {cool1, cool2, tsdb1}
    Workload = {1, 2}
    WorkloadOf <- Rollout
    One = 5
    Alpha = 2
    Decay = 1
    ShowAt = 3
    HideAt = 2
    Prior = 1
    FloorFrac = 2
    HitCap = 2
INVARIANT PairServedOnce
INVARIANT IInv
