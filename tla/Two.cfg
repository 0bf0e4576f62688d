CONSTANTS
  a = a
  b = b
  Absent = Absent
  Drifted = Drifted
  p1 = p1
  p2 = p2
  Names = {a, b}
  Payloads = {p1, p2}
  Specs <- BareSpec
  HeldChoices = {FALSE}
  Edits = {}
  DaemonSetStatuses = {}
  DeploymentStatuses = {}
  SyncGroups = {{"NodeFeatureDiscovery", "DaemonSet", "Deployment", "ConfigMap", "Job"}}
  MaxUid = 2
  MaxFaults = 1
  MaxEdits = 0
  MaxPodFailures = 0
SPECIFICATION FairSpecTwo
INVARIANTS Inv QuietMeansHandled NothingForgotten
PROPERTIES SurvivorIsServed LifecycleSteps
CHECK_DEADLOCK FALSE
