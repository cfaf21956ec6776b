\* A start that is refused its room by a command of an ended runtime.
CONSTANTS
    Modes = {"Official", "Fallback"}
    Ids = {"a", "b"}
    MaxCommands = 2
    MaxEvents = 3
    MaxConns = 2
    MaxCalls = 2
    MaxPings = 1
    MaxGame = 1
    Slots = 3
    MaxTrouble = 2
    QueueLimit = 2
    MaxPackets = 5
SPECIFICATION PlaySpec
CHECK_DEADLOCK FALSE
INVARIANTS LaunchFilesRemoved
