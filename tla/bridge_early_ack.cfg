SPECIFICATION Spec
CONSTANT Capacity = 3
CONSTANT Setups <- EarlyAckSetups
INVARIANT AnsweredDelivered
CHECK_DEADLOCK FALSE
