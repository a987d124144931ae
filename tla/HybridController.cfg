\* The whole plugin: both modes, every fallback and restricted switch, a clock
\* that may be set back, and both threads scheduled fairly.
SPECIFICATION FairSpec
CONSTANTS
    Modes <- BothModes
    StaleTimeout = 0
    ForceFallback <- Either
    Restricted <- Either
    VersionCompatible = TRUE
    ClockRollback = TRUE
    MaxGen = 2
    MaxGuides = 3
    MaxTime = 1
INVARIANTS
    PlanCoherence
    CommandReady
    OneForeignGuide
    NoWorkerOutlives
    ShadowTransparent
PROPERTIES
    NeverBackwards
    ImplementsHandoff
    DeactivateReturns
    PlanReachesWorker
