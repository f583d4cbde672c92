SPECIFICATION DriverSpec
CONSTANTS
  TaskIds = {1, 2}
  Locks = {"m", "l", "u"}
  MutexIds = {"m"}
  RwlockIds = {"l"}
  BarrierIds = {"b", "bs"}
  WatchIds = {"w"}
  TaskGroups = {"g", "ga", "gb", "gs"}
  Slots = {0, 1, 2}
  None = None
  StringOrder <- Names
  MaxNumber = 20
  Programs <- UnfinishedTests
  ControlledTests <- UnfinishedTests
INVARIANTS
  ReplayReproduces

CHECK_DEADLOCK FALSE
