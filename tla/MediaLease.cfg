\* Three processes that share the registry and the bucket of one source.
CONSTANTS
  c1 = c1
  c2 = c2
  c3 = c3
  Client <- MCThreeClients
SPECIFICATION FairSpec
INVARIANTS
  TypeOK
  ActiveIsReal
  ReturnedUsable
  SoloSucceeds
PROPERTIES
  SoloKeepsActive
  AcquireEnds
