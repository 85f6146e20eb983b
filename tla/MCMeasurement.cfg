CONSTANTS
    None = None
    Events = {e1, e2}
    PmuWrap = 4
    EnergyWrap = 4
    EnergyScale = 2
    EnergyUnit = 3
    MaxBurst = 2
SPECIFICATION Spec
INVARIANTS
    AllEventsOrNone
    SampleIsConsumption
    BaselineIsFresh
    SampleCoversOnePeriod
CHECK_DEADLOCK TRUE
