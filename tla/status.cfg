SPECIFICATION Spec
CONSTANTS
    Workers = {w1}
    Pods = {p1, p2}
    Issues = {i1}
    Grades = {"High"}
    Jobs = {}
    JobIssues = {}
    None = None
    Enabled = TRUE
    MinOccurrences = 1
    RequireHigh = TRUE
    DryRun = TRUE
    MaxHeals = 1
    Decisions = {"Act"}
    RetrySteps = 5
    MaxAttempts = 20
    MaxDeaths = 1
    MaxVersions = 6
    MaxRevisions = 0
    MaxForgets = 0
    MaxFaults = 0
    MaxRestarts = 0
CHECK_DEADLOCK FALSE
INVARIANT
    CountOrTrailKept
