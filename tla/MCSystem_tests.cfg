SPECIFICATION RandomSpec
CONSTANTS
  TaskIds = {1, 2, 3, 4, 5}
  Locks = {"m", "l", "u"}
  MutexIds = {"m"}
  RwlockIds = {"l"}
  BarrierIds = {"b", "bs"}
  WatchIds = {"w"}
  TaskGroups = {"g", "ga", "gb", "gs"}
  Slots = {0, 1, 2}
  None = None
  Programs <- AllTests
  ControlledTests <- ModelledTests
INVARIANTS
  NoBadSync
  ModelExactAtPoints
  SelectedTasksAreReady
PROPERTIES
  ChoiceWaitsForTasks
  Terminates
CHECK_DEADLOCK FALSE
