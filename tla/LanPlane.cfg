CONSTANTS
    Pairs = {1, 2}
    Timeout = 2
    Capacity = 2
    MaxFaults = 2
    MaxLate = 1
    BreakPending = FALSE
    Peers = {p, q}
    MaxEpoch = 2
    QueueCapacity = 1
SPECIFICATION PlaneSpec
INVARIANTS NominatedIsProven ResolvedOnce IncidentsEnd FairShare
PROPERTY PathSettles
CHECK_DEADLOCK FALSE
