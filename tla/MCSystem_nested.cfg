SPECIFICATION Spec
CONSTANTS
  TaskIds = {1, 2, 3}
  Locks = {"m", "l", "u"}
  MutexIds = {"m"}
  RwlockIds = {"l"}
  BarrierIds = {"b", "bs"}
  WatchIds = {"w"}
  TaskGroups = {"g", "ga", "gb", "gs"}
  Slots = {0, 1, 2}
  None = None
  Programs <- NestedTests
  ControlledTests <- NestedTests
INVARIANTS
  NoStall
CHECK_DEADLOCK FALSE
