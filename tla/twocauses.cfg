SPECIFICATION Spec
CONSTANTS
    NumContainers = 1
    Threshold = 2
    WatchEvictions = TRUE
    Exits = {"error"}
    MaxRestarts = 2
    MaxUnhealthy = 0
    None = None
CHECK_DEADLOCK FALSE
INVARIANT
    OneObituary
