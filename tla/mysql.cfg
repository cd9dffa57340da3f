SPECIFICATION FairSpec
CONSTANTS
    Setups <- MySqlSetups
    Capacity = 3
    MaxCompleted = 1
INVARIANTS
    NoGap
    LayoutMatches
    Converges
PROPERTIES
    SnapshotsComplete
CHECK_DEADLOCK FALSE
