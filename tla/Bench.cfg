SPECIFICATION FairSpec
CONSTANTS
    Invocations = 2
    Indexes = {1}
    Retries = 2
    Domains = 2
    MaxFaults = 1
    Mortal = {"amcl", "m1_scan_relay", "m1_cmd_watchdog"}
INVARIANTS
    MeasuresItsOwn
    NothingLeftBehind
    MotionGuarded
    SourcesUnique
PROPERTIES
    ReportsThisCall
    CallsEnd
CHECK_DEADLOCK FALSE
