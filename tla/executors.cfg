SPECIFICATION Spec
CONSTANTS
    Specs <- TwoReleases
    MiB = 4
    Factors <- SomeFactors
    Caps <- SomeCaps
    StableNames = FALSE
    MaxPods = 3
    RetrySteps = 2
    MaxVersions = 4
    MaxPatches = 3
    MaxFaults = 1
    None = None
CHECK_DEADLOCK FALSE
INVARIANTS
    TypeOK
    SpecsValid
PROPERTIES
    HealKeepsEdits
    BumpGrows
