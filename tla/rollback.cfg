SPECIFICATION Spec
CONSTANTS
    Specs <- ThreeReleases
    MiB = 4
    Factors <- SomeFactors
    Caps <- SomeCaps
    StableNames = FALSE
    MaxPods = 1
    RetrySteps = 2
    MaxVersions = 4
    MaxPatches = 2
    MaxFaults = 0
    None = None
CHECK_DEADLOCK FALSE
PROPERTY
    RollbackUndoes
