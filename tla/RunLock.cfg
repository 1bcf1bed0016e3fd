\* Three builds, started one after the other or at once, two of them killed.
CONSTANTS
  p1 = p1
  p2 = p2
  p3 = p3
  Process <- MCProcess
  MaxDeaths = 2
SPECIFICATION FairSpec
CHECK_DEADLOCK FALSE
INVARIANTS
  SerialRecovery
  NothingLeftBehind
PROPERTIES
  SerialProgress
  AcquisitionEnds
