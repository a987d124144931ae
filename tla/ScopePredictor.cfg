\* A history of two scans, 100 ms apart, in ticks of 50 ms.
SPECIFICATION FairSpec
CONSTANTS
    None = None
    SeqLen = 2
    Period = 2
    Tolerance = 1
    Buffer = 4
    PoseStreams <- OdometryOnly
    MaxTime = 5
    MaxGen = 1
INVARIANT
    PipelineInOrder
PROPERTIES
    NeverAhead
    NoBacklog
    ErrorDrains
    StopEndsWorker
