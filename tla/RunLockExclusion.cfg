\* Two builds started at the same time, none killed.
CONSTANTS
  p1 = p1
  p2 = p2
  p3 = p3
  Process <- MCProcess
  MaxDeaths = 0
SPECIFICATION Spec
CHECK_DEADLOCK FALSE
INVARIANT MutualExclusion
