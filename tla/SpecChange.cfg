CONSTANTS
  Absent = Absent
  Drifted = Drifted
  p1 = p1
  p2 = p2
  Names = {"a"}
  Payloads = {p1, p2}
  Specs <- PruneSpecs
  HeldChoices = {FALSE}
  Edits = {"spec", "hold", "owner"}
  DaemonSetStatuses = {}
  DeploymentStatuses = {}
  SyncGroups = {{"NodeFeatureDiscovery"}, {"DaemonSet", "Deployment", "ConfigMap", "Job"}}
  MaxUid = 1
  MaxFaults = 0
  MaxEdits = 2
  MaxPodFailures = 1
SPECIFICATION Spec
INVARIANT Inv
PROPERTIES EditsSurvive TornDownBeforeRelease PrunedBeforeRelease ImplementsLifecycle
CHECK_DEADLOCK FALSE
