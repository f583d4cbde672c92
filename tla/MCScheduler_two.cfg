SPECIFICATION Spec
CONSTANTS
  TaskIds = {1, 2}
  Names = {1}
  Points = {"p"}
  Answers <- AnyAnswers
  Replays <- NoReplays
  MaxReached <- OnePoint
INVARIANTS
  TypeOK
  NoLostControlWakeup
  NoLostTaskWakeup
  StableIdsName
  TraceReplayable
CHECK_DEADLOCK FALSE
