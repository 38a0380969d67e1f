SPECIFICATION Spec
CONSTANTS
    Workers = {w1}
    Pods = {p1}
    Issues = {i1, i2}
    Grades = {"High", "Medium"}
    Jobs = {}
    JobIssues = {}
    None = None
    Enabled = TRUE
    MinOccurrences = 2
    RequireHigh = TRUE
    DryRun = FALSE
    MaxHeals = 1
    Decisions = {"Act"}
    RetrySteps = 2
    MaxAttempts = 2
    MaxDeaths = 2
    MaxVersions = 20
    MaxRevisions = 1
    MaxForgets = 0
    MaxFaults = 1
    MaxRestarts = 1
SYMMETRY Symmetry
INVARIANTS
    NoOrphanDeath
    CountExact
    HealsEarned
