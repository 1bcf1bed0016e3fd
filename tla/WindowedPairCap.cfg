\* A video interrupted after its first pair is processed again on resume.
CONSTANTS
  f1 = f1
  f2 = f2
  f3 = f3
  Fact <- MCThreeFacts
  NumVideos = 1
  WindowSize = 1
  Workers = 1
  PairCap = 2
  Target = 3
  MaxAttempts = 2
  ProcessAll = FALSE
  HasBudget = FALSE
  AuthMayFail = FALSE
  MaxStarts = 2
  MaxCrashes = 1
SPECIFICATION Spec
CHECK_DEADLOCK FALSE
INVARIANT PairCapPerVideo
