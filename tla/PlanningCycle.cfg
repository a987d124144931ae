\* Two objects at a time, three over the run.
SPECIFICATION Spec
CONSTANTS
    MaxMissed = 1
    ConfirmationAge = 3
    MovingConfirmation = 2
    MaxDetections = 2
    MaxId = 3
INVARIANTS
    RepeatedlySeen
    NoTrail
PROPERTIES
    CommittedBypass
