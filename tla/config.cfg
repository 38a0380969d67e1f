SPECIFICATION FairSpec
CONSTANTS
    Namespaces = {"system", "shop"}
    Operator = "system"
    Names = {"default", "team"}
    Specs <- SomeSpecs
    MaxEdits = 2
    MaxFaults = 1
    MaxRestarts = 1
    None = None
INVARIANTS
    TypeOK
    HealsOptedIn
    OwnConfigWins
PROPERTIES
    SeedKeepsPolicy
    DefaultSeeded
    EditsTakeEffect
