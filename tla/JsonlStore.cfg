\* Two processes, three threads: safety and refinement of the public output.
CONSTANTS
  t1 = t1
  t2 = t2
  t3 = t3
  p1 = p1
  p2 = p2
  a = a
  b = b
  c = c
  Thread <- MCThread
  Process <- MCProcess
  ProcessOf <- MCProcessOf
  Identity <- MCIdentity
  MaxRecords = 2
  Fault = {"partial", "unterminated"}
  MaxCrashes = 1
SPECIFICATION FairSpec
INVARIANTS
  TypeOK
  LockExclusive
  LossIsLoud
PROPERTIES
  CallsReturn
  OutputSpec
