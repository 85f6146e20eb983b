CONSTANTS
    Nothing = Nothing
    Takers = {t1, t2}
    MaxPendingTicks = 1
    MaxTicks = 4
    MaxStarts = 2
SPECIFICATION FairSamplerSpec
INVARIANTS
    FirmwareOutlivesThread
    EnergyWithinElapsedTime
PROPERTIES
    StopReturns
    TickIsAnswered
CHECK_DEADLOCK TRUE
