CONSTANTS
    None = None
    Policies = {p1, p2}
    Count = 2
    Values = {0, 1}
SPECIFICATION FairSpec
INVARIANTS
    PredictionUsesOwnParams
PROPERTIES
    EveryPolicyPredicts
CHECK_DEADLOCK TRUE
