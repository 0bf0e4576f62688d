CONSTANTS
  Absent = Absent
  Drifted = Drifted
  p1 = p1
  p2 = p2
  Names = {"a"}
  Payloads = {p1, p2}
  Specs <- PrunedOperandSpecs
  HeldChoices = {FALSE}
  Edits = {"spec", "content", "delete"}
  DaemonSetStatuses <- DSUp
  DeploymentStatuses <- DepUp
  SyncGroups = {{"NodeFeatureDiscovery", "DaemonSet", "Deployment", "ConfigMap", "Job"}}
  MaxUid = 1
  MaxFaults = 2
  MaxEdits = 1
  MaxPodFailures = 0
SPECIFICATION SpecHandover
INVARIANT HandoverHeals
CHECK_DEADLOCK FALSE
