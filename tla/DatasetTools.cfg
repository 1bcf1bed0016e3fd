CONSTANTS
  Task = {"captioning", "qa"}
  Group = {"perception", "origin"}
  Final <- MCFinal
  External <- MCExternal
  TaskOf <- MCTaskOf
  GroupOf <- MCGroupOf
  Weights <- MCWeights
  GroupOrder <- MCGroupOrder
  Perception = "perception"
  SourceOf <- MCSourceOf
  Halves <- MCHalves
  PerTask = 3
  Replaced = 2
  Cuts = 1
  Manifests <- MCManifests
  Missing = Missing
  Refused = Refused
  Stratum = {"a", "b", "c"}
  Rank <- MCRank
  Available <- MCAvailable
  ReleaseTask = {"captioning", "qa"}
  Leaf <- MCLeaf
  Video = {"v1", "v2", "v3", "v4", "v5"}
  TaskOfVideo <- MCTaskOfVideo
  MaxRestarts = 2
  LinkOrder <- MCLinkOrder
  Builds <- MCBuilds
  TornCopies = {torn1, torn2}
  Unset = Unset
  Records = 2
SPECIFICATION ToolSpec
CHECK_DEADLOCK FALSE
INVARIANTS
  SelectionClean
  Representative
  SplitKept
  ReleaseHonest
  IdsBacked
