CONSTANTS
    None = None
    Sizes = {1, 2, 3}
    MaxSaves = 2
SPECIFICATION Spec
INVARIANTS
    TunedCountMatches
CHECK_DEADLOCK TRUE
