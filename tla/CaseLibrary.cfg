SPECIFICATION CSpec
CONSTANTS
    cool = cool
    tsdb = tsdb
    dcim = dcim
    None = None
    Workload = {cool, tsdb, dcim}
    Verdict <- Storms
    Unit = 60
    TauMerge = 85
    TauFamily = 60
    CountCap = 2
INVARIANT CTypeOK
INVARIANT Separated
INVARIANT Families
INVARIANT Counts
INVARIANT AnswerIsCommitted
PROPERTY CasesAreKept
