\* Two workers near a target of four pairs, retries, one crash and a resume.
CONSTANTS
  f1 = f1
  f2 = f2
  f3 = f3
  Fact <- MCFact
  NumVideos = 3
  WindowSize = 2
  Workers = 2
  PairCap = 2
  Target = 4
  MaxAttempts = 2
  ProcessAll = FALSE
  HasBudget = FALSE
  AuthMayFail = FALSE
  MaxStarts = 2
  MaxCrashes = 1
SPECIFICATION Spec
CHECK_DEADLOCK FALSE
SYMMETRY MCSymmetry
INVARIANTS
  TypeOK
  NoOvershoot
  NothingAbandoned
