SPECIFICATION Spec
CONSTANTS
    Specs <- TwoReleases
    MiB = 4
    Factors <- SomeFactors
    Caps <- SomeCaps
    StableNames = TRUE
    MaxPods = 2
    RetrySteps = 2
    MaxVersions = 1
    MaxPatches = 1
    MaxFaults = 0
    None = None
CHECK_DEADLOCK FALSE
PROPERTY
    DeletesRecorded
