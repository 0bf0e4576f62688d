CONSTANTS
  Absent = Absent
  Nodes = {"n1", "n2", "n3"}
  Specs <- SomeSpecs
  Served = {"base"}
  Shapes <- MixedCluster
  ServiceAccounts <- Accounts
  Pullable = {"Always", "IfNotPresent"}
  Blanks = {"", " "}
  MaxNodeChanges = 0
SPECIFICATION Spec
INVARIANT ReleasedMeansClean
CHECK_DEADLOCK FALSE
