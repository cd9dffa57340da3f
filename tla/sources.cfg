SPECIFICATION FairSpec
CONSTANT Capacity = 3
CONSTANT Setups <- AllSetups
INVARIANT CaughtUp
INVARIANT AnsweredDelivered
PROPERTY ReachesEnd
CHECK_DEADLOCK FALSE
