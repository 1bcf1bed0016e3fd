\* Three threads, both retry loops, slots two ticks apart.
CONSTANTS
  t1 = t1
  t2 = t2
  t3 = t3
  Caller <- MCThreeCallers
  Attempts = 2
  FlexTier = TRUE
  FlexAttempts = 2
  Interval = 2
SPECIFICATION FairSpec
INVARIANTS
  TypeOK
  EvenSlots
  BoundedWait
  OneLateCall
PROPERTIES
  CallsEnd
