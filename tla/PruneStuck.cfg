CONSTANTS
  Absent = Absent
  Nodes = {"n1", "n2"}
  Specs <- SomeSpecs
  Served = {"gpu"}
  Shapes <- TaintedCluster
  ServiceAccounts <- Accounts
  Pullable = {"Always", "IfNotPresent"}
  Blanks = {"", " "}
  MaxNodeChanges = 0
SPECIFICATION FairSpec
PROPERTY PruneRuns
CHECK_DEADLOCK FALSE
