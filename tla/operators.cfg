SPECIFICATION Spec
CONSTANTS
    Workers = {w1, w2}
    Pods = {p1}
    Jobs = {}
    Issues = {i1}
    JobIssues = {}
    Grades = {"High"}
    None = None
    Enabled = TRUE
    MinOccurrences = 1
    RequireHigh = TRUE
    DryRun = TRUE
    MaxHeals = 1
    Decisions = {"Act"}
    RetrySteps = 2
    MaxAttempts = 2
    MaxDeaths = 2
    MaxVersions = 1
    MaxRevisions = 0
    MaxForgets = 1
    MaxFaults = 0
    MaxRestarts = 0
SYMMETRY Symmetry
CHECK_DEADLOCK FALSE
INVARIANTS
    NoOrphanDeath
PROPERTY
    ImplementsLedger
