\* Pairing, drawing and withdrawal under swaps, resets and clock rollback.
SPECIFICATION FairSpec
CONSTANTS
    None = None
    Grids <- SmallGrids
    Maps <- SmallMaps
    Timeout = 0
    Depth = 2
    MaxTime = 1
    MaxGen = 2
INVARIANTS
    NoGhosts
    NoPairMissed
    OneSource
PROPERTIES
    ForgottenNotDrawn
    NewestWins
    EventuallyWithdrawn
