\* A restart between the commits of interleaved transactions. The log ends, so the system stops.
SPECIFICATION Spec
CONSTANTS
    Setups <- InterleavedRestart
    Capacity = 1
INVARIANTS
    CaughtUpComplete
CHECK_DEADLOCK FALSE
