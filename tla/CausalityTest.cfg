\* All three modes of the mover; with the test's trigger, the test.
SPECIFICATION MCSpec
CONSTANTS
    DynamicTimeout = 1
    PreEvent = 1
    PostEvent = 1
    MaxInterval = 1
    Ring = 3
INVARIANTS
    QuietBaseline
    NoOdomJump
PROPERTIES
    LeavesScan
    CrossingHappens
