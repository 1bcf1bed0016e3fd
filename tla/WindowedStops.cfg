\* process_all_videos with a budget, a provider that may refuse the credentials, crashes and repairs.
CONSTANTS
  f1 = f1
  f2 = f2
  f3 = f3
  Fact <- MCOneFact
  NumVideos = 3
  WindowSize = 2
  Workers = 2
  PairCap = 1
  Target = 2
  MaxAttempts = 2
  ProcessAll = TRUE
  HasBudget = TRUE
  AuthMayFail = TRUE
  MaxStarts = 2
  MaxCrashes = 1
SPECIFICATION FairSpec
CHECK_DEADLOCK FALSE
INVARIANTS
  SourcesAccounted
PROPERTIES
  CompletedIsFinal
  ProcessEnds
