CONSTANTS
    None = None
    Freqs = {1, 2, 3}
    MaxChanges = 3
    MaxStarts = 2
SPECIFICATION FairSpec
INVARIANTS
    WorkerKeepsItsResources
    LimitsHoldAfterOnePeriod
PROPERTIES
    GovernorGoesOn
CHECK_DEADLOCK FALSE
