CONSTANTS
  Absent = Absent
  Drifted = Drifted
  p1 = p1
  p2 = p2
  Names = {"a"}
  Payloads = {p1, p2}
  Specs <- OneSpec
  HeldChoices = {FALSE}
  Edits = {}
  DaemonSetStatuses <- DSUp
  DeploymentStatuses <- DepUp
  SyncGroups = {{"NodeFeatureDiscovery", "DaemonSet", "Deployment", "ConfigMap", "Job"}}
  MaxUid = 2
  MaxFaults = 1
  MaxEdits = 0
  MaxPodFailures = 0
SPECIFICATION Spec
INVARIANTS TypeOK FinalizerGuard TeardownBeforePrune QuietMeansApplied QuietMeansPruning
PROPERTY TornDownBeforeRelease
CHECK_DEADLOCK FALSE
