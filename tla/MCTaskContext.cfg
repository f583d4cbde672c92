SPECIFICATION Spec
CONSTANTS
  Threads = {th1, th2}
  Futures = {f1, f2}
  Schedulers = {s1, s2}
  None = None
  MaxDepth = 3
  MaxTasks = 2
SYMMETRY Symmetric
INVARIANTS
  TypeOK
  InnermostTaskIsCurrent
  ReceiverIsLive
  UnfinishedTaskHasOwner
CHECK_DEADLOCK FALSE
