\* A worker process.
SPECIFICATION LifecycleSpec
CONSTANTS
    Roles = {"worker"}
    Capacity = 5
INVARIANTS DrainsInFlight
CHECK_DEADLOCK FALSE
