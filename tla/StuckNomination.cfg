CONSTANTS
    Pairs = {1, 2}
    Timeout = 2
    Capacity = 2
    MaxFaults = 1
    MaxLate = 0
    BreakPending = TRUE
SPECIFICATION PathSpec
PROPERTY PathSettles
CHECK_DEADLOCK FALSE
