SPECIFICATION FairSpec
CONSTANTS
    Setups <- Signalled
    Capacity = 3
    MaxCompleted = 1
INVARIANTS
    Converges
    ProgressCovered
    ChunkOpenedOnce
PROPERTIES
    NoSnapshotForgotten
    PauseHolds
    SnapshotsComplete
CHECK_DEADLOCK FALSE
