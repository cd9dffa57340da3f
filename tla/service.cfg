\* Every setup of the sink and of a process; an exited process may stay down.
SPECIFICATION FairSpec
CONSTANTS
    Setups <- SinkSetups
    Deployments <- Processes
INVARIANTS
    TopicMirrorsTable
    OnlyUnsupportedRefused
PROPERTIES
    TermEnds
    TopicDrains
CHECK_DEADLOCK FALSE
