SPECIFICATION FairSpec
CONSTANTS
    Setups <- SqlServerSetups
    Capacity = 3
    MaxCompleted = 1
INVARIANTS
    NoGap
    EventsWhole
    Converges
PROPERTIES
    SnapshotsComplete
CHECK_DEADLOCK FALSE
