SPECIFICATION Spec
CONSTANTS
  TaskIds = {1, 2}
  Locks = {"m", "l", "u"}
  MutexIds = {"m"}
  RwlockIds = {"l"}
  BarrierIds = {"b", "bs"}
  WatchIds = {"w"}
  TaskGroups = {"g", "ga", "gb", "gs"}
  Slots = {0, 1, 2}
  None = None
  Programs <- FailingReaderTests
  ControlledTests <- FailingReaderTests
INVARIANTS
  SelectedTasksAreReady
CHECK_DEADLOCK FALSE
