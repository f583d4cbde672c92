SPECIFICATION DriverFairSpec
CONSTANTS
  TaskIds = {1, 2, 3, 4, 5}
  Locks = {"m", "l", "u"}
  MutexIds = {"m"}
  RwlockIds = {"l"}
  BarrierIds = {"b", "bs"}
  WatchIds = {"w"}
  TaskGroups = {"g", "ga", "gb", "gs"}
  Slots = {0, 1, 2}
  None = None
  StringOrder <- Names
  MaxNumber = 20
  Programs <- AllReplayedTests
  ControlledTests <- ReplayedTests
INVARIANTS
  ReplayReproduces
  ReplayTextFaithful
  ReplayNeverStrays
PROPERTIES
  DivergenceEndsTest
CHECK_DEADLOCK FALSE
