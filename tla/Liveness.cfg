CONSTANTS
  Absent = Absent
  Drifted = Drifted
  p1 = p1
  p2 = p2
  Names = {"a"}
  Payloads = {p1, p2}
  Specs <- PlainSpec
  HeldChoices = {FALSE}
  Edits = {}
  DaemonSetStatuses <- DSUp
  DeploymentStatuses <- DepUp
  SyncGroups = {{"NodeFeatureDiscovery"}, {"DaemonSet", "Deployment", "ConfigMap", "Job"}}
  MaxUid = 1
  MaxFaults = 1
  MaxEdits = 0
  MaxPodFailures = 0
SPECIFICATION FairSpec
INVARIANTS QuietMeansApplied QuietMeansPruning PruningRemembered
PROPERTIES DeletedGoes Settles
CHECK_DEADLOCK FALSE
