CONSTANTS
    None = None
    Params = {p0, p1}
    Pretrained = p0
    Results <- MCResults
    NegInf <- MCNegInf
    MinImprovement = 0
    MaxAnswers = 2
    BenchmarkCount = 2
    EvalSamples = 1
    MaxCycles = 1
    MaxStarts = 1
SPECIFICATION SamplingSpec
INVARIANTS
    SampleIsOfOffered
    NoBetterResultDropped
PROPERTIES
    BestParamsWereMeasured
    GovernorGoesOn
CHECK_DEADLOCK TRUE
