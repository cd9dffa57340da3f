\* A snapshot and one transaction: faults, a cancellation and a crash anywhere.
SPECIFICATION Spec
CONSTANTS
    Log <- SnapshotLog
    ChannelCapacity = 2
    MaxBatchSize = 2
    MaxRetries = 1
    NSignals = 1
    MaxFaults = 3
    MaxCrashes = 1
INVARIANTS
    TypeOK
    NoAcknowledgedDataLoss
    RowsAccounted
    SignalsSurvive
    NoStaleRedelivery
PROPERTY
    PromiseKept
