SPECIFICATION ProxiesSpec
CONSTANTS
    Child = {"c1", "c2"}
    Url = {"p1", "gif"}
    MainUrl = {"p1"}
    Pieces = 2
    MaxStarts = 2
CHECK_DEADLOCK FALSE
INVARIANTS
    WholeWhenQuiet
    HitAfterMiss
    MutualExclusion
    SemaphoreReturned
PROPERTIES
    WaitersProceed
    ZombiesReaped
    ImplementsSynchronized
