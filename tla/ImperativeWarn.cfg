\* Expected to fail: once the watchdog has ended nothing stops the base.
SPECIFICATION Spec
CONSTANTS
    InputTimeout = 1
    CallbackDelay = 1
    MaxPlan = 1
    BurstLength = 1
    WatchdogTimeout = 1
    Period = 1
    Jitter = 0
    QueueDepth = 2
    WarnOutcomes = {"raises"}
INVARIANT
    DrivenOnRecentInputs
