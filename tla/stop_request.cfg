\* A connector with mutations enabled, and a client that asks it to stop.
SPECIFICATION FairSpec
CONSTANTS
    Setups <- NoSetups
    Deployments <- Managed
PROPERTY
    StopStops
CHECK_DEADLOCK FALSE
