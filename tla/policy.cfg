SPECIFICATION Spec
CONSTANTS
    Kinds <- AllKinds
    Policies <- AllPolicies
    None = None
INVARIANTS
    TypeOK
    HealsAuthorised
    RulesAsDocumented
PROPERTY
    BudgetForChosen
