CONSTANTS
  a = a
  b = b
  Absent = Absent
  Drifted = Drifted
  p1 = p1
  p2 = p2
  Names = {a, b}
  Payloads = {p1, p2}
  Specs <- PlainSpec
  HeldChoices = {FALSE}
  Edits = {}
  DaemonSetStatuses = {}
  DeploymentStatuses = {}
  SyncGroups = {{"NodeFeatureDiscovery", "DaemonSet", "Deployment", "ConfigMap", "Job"}}
  MaxUid = 2
  MaxFaults = 0
  MaxEdits = 0
  MaxPodFailures = 0
SPECIFICATION SpecTwo
INVARIANT QuietMeansPruning
CHECK_DEADLOCK FALSE
