\* One video, two leaves, two visits; answers of every kind.
CONSTANTS
  existence = existence
  camera = camera
  x = x
  y = y
  Number = {1, 2}
  Leaf = {existence, camera}
  PolarLeaf = {existence}
  Value = {x, y}
  Present = x
  SourceValue <- MCSourceValue
  Interval <- MCInterval
  ReflectionCheck = {"leaf_correct"}
  MonitorCheck = {"natural_answer_matches_source_fact"}
  PairCap = 1
  MaxVisits = 2
SPECIFICATION FairSpec
CHECK_DEADLOCK FALSE
INVARIANTS
  TypeOK
  RefusalsKnown
  VisitYield
PROPERTIES
  ReviewedSpec
  VisitEnds
