CONSTANTS
  Absent = Absent
  Drifted = Drifted
  p1 = p1
  p2 = p2
  Names = {"a"}
  Payloads = {p1, p2}
  Specs <- OperandSpecs
  HeldChoices = {FALSE}
  Edits = {"spec", "content", "delete", "status"}
  DaemonSetStatuses <- DSMixed
  DeploymentStatuses <- DepMixed
  SyncGroups = {{"NodeFeatureDiscovery", "DaemonSet", "Deployment", "ConfigMap", "Job"}}
  MaxUid = 1
  MaxFaults = 0
  MaxEdits = 1
  MaxPodFailures = 0
SYMMETRY PayloadSymmetry
SPECIFICATION Spec
INVARIANTS QuietMeansApplied NothingForgotten
CHECK_DEADLOCK FALSE
