CONSTANTS
  Absent = Absent
  Nodes = {"n1", "n2", "n3"}
  Specs <- SomeSpecs
  Served = {"base", "topology"}
  Shapes <- MixedCluster
  ServiceAccounts <- Accounts
  Pullable = {"Always", "IfNotPresent"}
  Blanks = {"", " "}
  MaxNodeChanges = 1
SPECIFICATION FairSpec
INVARIANTS AvailableMeansAllUp SkipMeansSame WorkerReadsConfig PrunedMeansClean
PROPERTIES StatusTellsTruth AvailableWhenServable PruneRuns
CHECK_DEADLOCK FALSE
