SPECIFICATION Spec
CONSTANTS
  MaxRequests = 3
  SchedulerIds = {"foo"}
  Counts = {0, 2}
  LoopKinds = {"replaying"}
  None = None
INVARIANTS
  TypeOK
  FailuresExplained
  NoLeakedLoop
  LoopDiesOfLeaver
PROPERTIES
  RequestsAreServed
CHECK_DEADLOCK FALSE
