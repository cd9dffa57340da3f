\* No snapshot, a size flush inside a transaction, a position that goes back, unlimited retries.
SPECIFICATION FairSpec
CONSTANTS
    Log <- StreamLog
    ChannelCapacity = 1
    MaxBatchSize = 1
    MaxRetries <- Unlimited
    NSignals = 1
    MaxFaults = 2
    MaxCrashes = 1
INVARIANT
    FailureVisible
PROPERTIES
    EveryRowCheckpointed
    CancelEnds
    SignalsCommitted
