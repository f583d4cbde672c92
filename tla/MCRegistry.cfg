SPECIFICATION MCSpec
CONSTANTS
  TaskIds = {"x", "y", "z"}
  MutexIds = {"m", "n"}
  RwlockIds = {"l"}
  BarrierIds = {"b", "c"}
  WatchIds = {"v", "w"}
  TaskGroups = {"g"}
  Slots = {0, 1}
  None = None
INVARIANTS
  RegistryTypeOK
  HolderNeverWaits
  WatchUpdateUnblocks
PROPERTIES
  BarrierStaysOpen
  GroupWaitStaysMet
CHECK_DEADLOCK FALSE
