CONSTANTS
    None = None
    Callers = {c1, c2}
    Machines <- MCMachines
    MaxBurst = 2
    MaxOverflows = 3
SPECIFICATION FairSpec
INVARIANTS
    EveryReplyIsConsumption
PROPERTIES
    ImplementsAccount
    SeenBackendWorks
    LockIsReturned
CHECK_DEADLOCK TRUE
