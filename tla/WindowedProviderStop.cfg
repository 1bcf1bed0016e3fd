\* The credentials are refused while videos are in flight.
CONSTANTS
  f1 = f1
  f2 = f2
  f3 = f3
  Fact <- MCFact
  NumVideos = 2
  WindowSize = 2
  Workers = 2
  PairCap = 1
  Target = 2
  MaxAttempts = 2
  ProcessAll = FALSE
  HasBudget = FALSE
  AuthMayFail = TRUE
  MaxStarts = 1
  MaxCrashes = 0
SPECIFICATION Spec
CHECK_DEADLOCK FALSE
INVARIANT ProviderStopPreserves
