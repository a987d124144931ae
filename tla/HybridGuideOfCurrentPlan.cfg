\* Expected to fail: see README.md, "Where code and comments disagree".
SPECIFICATION Spec
CONSTANTS
    Modes <- ActiveOnly
    StaleTimeout = 1
    ForceFallback <- Never
    Restricted <- Never
    VersionCompatible = TRUE
    ClockRollback = FALSE
    MaxGen = 2
    MaxGuides = 3
    MaxTime = 2
INVARIANT
    GuideOfCurrentPlan
