SPECIFICATION Spec
CONSTANTS
    QueueMax = 2
    BatchMax = 2
    Arrivals = 6
    BeatMax = 2
    AgeMax = 5
    Trigger = {t1, t2, t3}
INVARIANT ITypeOK
INVARIANT AtMostOnceInOrder
INVARIANT InsertedIsCommitted
INVARIANT TripsInTime
PROPERTY Drains
PROPERTY ModeFollowsRelay
PROPERTY TriggerStormsOnce
