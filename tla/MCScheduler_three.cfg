SPECIFICATION Spec
CONSTANTS
  TaskIds = {1, 2, 3}
  Names = {1}
  Points = {"p"}
  Answers <- TripleAnswers
  Replays <- NoReplays
  MaxReached <- OnePoint
INVARIANTS
  NoLostControlWakeup
CHECK_DEADLOCK FALSE
