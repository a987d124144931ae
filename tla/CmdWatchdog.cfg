\* The node as written and as documented: its warning raises or returns.
SPECIFICATION FairSpec
CONSTANTS
    m1 = m1
    m2 = m2
    Moves <- TwoMoves
    Timeout = 8
    Period = 1
    Jitter = 1
    QueueDepth = 2
    WarnOutcomes = {"raises", "returns"}
INVARIANTS
    BoundWhileWatching
    EndsOnLast
PROPERTIES
    SilenceStops
    CommandsReachDriver
