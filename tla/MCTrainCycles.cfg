CONSTANTS
    None = None
    Params = {p0, p1}
    Pretrained = p0
    Results = {0}
    NegInf <- MCNegInf
    MinImprovement = 0
    MaxAnswers = 1
    BenchmarkCount = 2
    EvalSamples = 2
    MaxCycles = 1
    MaxStarts = 2
SPECIFICATION Spec
INVARIANTS
    NoForgottenBenchmark
    NothingLeftBehind
    WorkerKeepsItsResources
    RowsAreComplete
    CycleTrainsEveryBenchmark
PROPERTIES
    EvaluationFreezesParams
CHECK_DEADLOCK TRUE
