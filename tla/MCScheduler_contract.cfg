SPECIFICATION FairSpec
CONSTANTS
  TaskIds = {1, 2}
  Names = {1}
  Points = {"p"}
  Answers <- PairAnswers
  Replays <- PairReplays
  MaxReached <- TwoPointsAndOne
INVARIANTS
  ReplayFollowed
PROPERTIES
  ResumedTaskRuns
  ErrorReleasesTasks
  ImplementsContract
CHECK_DEADLOCK FALSE
