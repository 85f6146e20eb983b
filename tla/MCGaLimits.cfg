CONSTANTS
    None = None
    Params <- MCParams
    Results <- MCTwoResults
    Pretrained = 0
    LowerBound = 0
    UpperBound = 4
    CfgOffspringCount = 2
    CfgEliteCount = 1
    MaxGenerations = 0
    MaxEvaluations = 7
    Patience = 2
    MinImprovement = 1
    One <- MCOne
    Scale = 4
    SameEps = 0
    SigmaInit = 2
    SigmaMin = 1
    CfgSigmaMax = 3
    SigmaDecay = 3
    SigmaGrow = 6
    LambdaPretrained = 1
    LambdaStart = 1
    LambdaStep = 1
    LambdaRadius = 1
    TrustRadius = 4
SPECIFICATION FairSpec
INVARIANTS
    KeptPairsWereMeasured
    LimitsRespected
    StaleGenerationsAreStale
    SigmaInBounds
PROPERTIES
    ArgumentSetEnds
CHECK_DEADLOCK TRUE
