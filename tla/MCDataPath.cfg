CONSTANTS
    None = None
    Junk = Junk
    One = 4
    Half = 16
    Layers <- MCLayers
    MaxLayers = 4
    Inputs <- MCInputs
    Shapes <- MCShapes
    Patterns <- MCPatterns
    H = 3
    F = 2
    DecScale = 10
    EnergyScale = 100
    MissCost = 2
    MissUnit = 2
    BenchmarkCount = 2
    SamplesPerRow = 2
    Cycles = {1, 4}
    Misses = {0, 1}
    Energies = {1, 3}
    Freqs = {1, 2, 4}
    Sizes = {1, 2, 3}
    MaxSaves = 2
SPECIFICATION Spec
INVARIANTS
    WorkBufferIsSafe
    ForwardIsFunction
    MatMulAgrees
    ArithmeticIsExact
    ObjectiveIsFair
    ParamsAreComplete
CHECK_DEADLOCK FALSE
