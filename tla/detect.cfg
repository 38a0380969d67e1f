SPECIFICATION Spec
CONSTANTS
    NumContainers = 2
    Threshold = 2
    WatchEvictions = TRUE
    Exits = {"ok", "error", "kill", "oom"}
    MaxRestarts = 2
    MaxUnhealthy = 1
    None = None
CHECK_DEADLOCK FALSE
INVARIANTS
    TypeOK
    OomVerdicts
PROPERTIES
    EpisodesAscend
    EpisodePerCrash
