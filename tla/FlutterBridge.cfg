SPECIFICATION Spec
CONSTANTS
  RelayCodes = {"r1"}
  LanCodes = {"l1"}
  Capacity = 1
  MaxEvents = 1
  MaxHistory = 1
  MaxCalls = 2
  Moves = {"join", "create", "start", "cancel", "leave", "shutdown", "restart", "rejoin", "catalog", "clear", "retry", "openLog"}
INVARIANTS LeaveIsFinal RestoreIsListed
PROPERTIES ShutdownCompletes
