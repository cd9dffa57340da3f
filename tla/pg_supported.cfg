\* Every supported setup. Where the log ends, or a start is refused for good, the system stops.
SPECIFICATION FairSpec
CONSTANTS
    Setups <- Supported
    Capacity = 2
INVARIANTS
    CaughtUpComplete
    SlotCoversDelivered
    NoGap
    ReplayExact
    NeverBackwards
PROPERTY
    EventuallyDelivered
CHECK_DEADLOCK FALSE
