CONSTANTS
    Nothing = Nothing
    Takers = {t1}
    MaxPendingTicks = 1
    MaxTicks = 2
    MaxStarts = 2
SPECIFICATION SamplerSpec
INVARIANT
    SamplesMatchEnergy
CHECK_DEADLOCK TRUE
