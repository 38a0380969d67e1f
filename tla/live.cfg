SPECIFICATION FairSpec
CONSTANTS
    Workers = {w1}
    Pods = {p1, j1}
    Jobs = {j1}
    Issues = {i1, k1}
    JobIssues = {k1}
    Grades = {"High"}
    None = None
    Enabled = TRUE
    MinOccurrences = 1
    RequireHigh = TRUE
    DryRun = TRUE
    MaxHeals = 0
    Decisions = {"Act"}
    RetrySteps = 2
    MaxAttempts = 1
    MaxDeaths = 2
    MaxVersions = 20
    MaxRevisions = 0
    MaxForgets = 0
    MaxFaults = 1
    MaxRestarts = 0
INVARIANT
    TypeOK
PROPERTY
    DeathsGetRecorded
