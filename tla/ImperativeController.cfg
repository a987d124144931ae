\* The node with the watchdog as written and as documented.
SPECIFICATION FairSpec
CONSTANTS
    InputTimeout = 1
    CallbackDelay = 1
    MaxPlan = 1
    BurstLength = 1
    WatchdogTimeout = 1
    Period = 1
    Jitter = 0
    QueueDepth = 2
    WarnOutcomes = {"raises", "returns"}
INVARIANTS
    RecentWhileWatched
PROPERTIES
    SensorLossStops
    DisablingStops
