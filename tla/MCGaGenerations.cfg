CONSTANTS
    None = None
    Params <- MCTwoParams
    Results <- MCResults
    Pretrained = 0
    LowerBound = 0
    UpperBound = 4
    CfgOffspringCount = 2
    CfgEliteCount = 3
    MaxGenerations = 3
    MaxEvaluations = 0
    Patience = 0
    MinImprovement = 3
    One <- MCOne
    Scale = 4
    SameEps = 0
    SigmaInit = 2
    SigmaMin = 1
    CfgSigmaMax = 3
    SigmaDecay = 3
    SigmaGrow = 6
    LambdaPretrained = 1
    LambdaStart = 1
    LambdaStep = 1
    LambdaRadius = 1
    TrustRadius = 4
SPECIFICATION FairSpec
INVARIANTS
    BestObservedIsBest
PROPERTIES
    ImplementsSearch
CHECK_DEADLOCK TRUE
