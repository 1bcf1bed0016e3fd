\* Two workers, in one process or in two, and the guard.
CONSTANTS
  w1 = w1
  w2 = w2
  p1 = p1
  p2 = p2
  Homes <- MCHomes
  Directories <- MCDirectories
  Worker = {w1, w2}
  Process = {p1, p2}
  Artifact = {a1}
  Usage <- MCUsage
  Attempts = 2
  Replaces = 2
  MaxCalls = 2
  MaxStarts = 2
  StopLine = 210
  TargetPairs = 2
  MaxPairs = 1
SPECIFICATION FairSpec
CHECK_DEADLOCK FALSE
INVARIANTS
  AuditedCalls
  StopJustified
PROPERTIES
  CrossingStops
