SPECIFICATION Spec
CONSTANTS
    Namespaces = {n1, n2}
    Window = 2
    Limits = {1, 2}
    MaxTime = 3
    MaxRestarts = 1
INVARIANTS
    WindowCap
    RefusalsJustified
