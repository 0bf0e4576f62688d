------------------------------- MODULE Status -------------------------------
(***************************************************************************)
(* The status computation of internal/status/status.go: from what the      *)
(* informer cache holds of the four workloads to the list of conditions    *)
(* written to the NodeFeatureDiscovery object.                             *)
(*                                                                         *)
(* A condition list has one entry per type, so it is modelled as a set of  *)
(* records; the nil list is {}.  LastTransitionTime is left out: the code  *)
(* sets it to the time of the call and AreConditionsEqual ignores it.      *)
(***************************************************************************)
EXTENDS Naturals

CONSTANT Absent      \* what a Get returns for an object that does not exist

\* The numbers the code reads of a DaemonSet's and of a Deployment's status.
DaemonSetStatus == [desired : Nat, current : Nat, ready : Nat]
DeploymentStatus == [available : Nat]

conditionTypes == {"Available", "Upgradeable", "Progressing", "Degraded"}

conditionReasons ==
  {"ConditionNotBeingMetCurrently", "AllInstanceComponentsAreDeployedSuccessfuly", "CanBeUpgraded",
   "FailedGettingNFDWorkerDaemonSet", "NFDWorkerDaemonSetDegraded", "NFDWorkerDaemonSetProgressing",
   "FailedGettingNFDTopologyDaemonSet", "NFDTopologyDaemonSetDegraded",
   "NFDTopologyDaemonSetProgressing",
   "FailedGettingNFDMasterDeployment", "NFDMasterDeploymentDegraded",
   "NFDMasterDeploymentProgressing",
   "FailedGettingNFDGCDeployment", "NFDGCDegraded", "NFDGCDeploymentProgressing"}

conditionMessages ==
  {"", "number of desired nodes for scheduling is 0", "0 nodes have pods scheduled",
   "ds is progressing", "number of available pods is 0", "not found"}

Condition ==
  [type : conditionTypes, status : BOOLEAN, reason : conditionReasons, message : conditionMessages]

notMet(t) ==
  [type |-> t, status |-> FALSE, reason |-> "ConditionNotBeingMetCurrently", message |-> ""]

\* All four conditions false except the one of type t.
onlyTrue(t, reason, message) ==
  {notMet(u) : u \in conditionTypes \ {t}}
    \cup {[type |-> t, status |-> TRUE, reason |-> reason, message |-> message]}

-----------------------------------------------------------------------------
getAvailableConditions ==
  {notMet(u) : u \in {"Progressing", "Degraded"}}
    \cup {[type |-> "Available", status |-> TRUE,
           reason |-> "AllInstanceComponentsAreDeployedSuccessfuly", message |-> ""],
          [type |-> "Upgradeable", status |-> TRUE,
           reason |-> "CanBeUpgraded", message |-> ""]}

getDegradedConditions(reason, message) == onlyTrue("Degraded", reason, message)

getProgressingConditions(reason, message) == onlyTrue("Progressing", reason, message)

getDaemonSetConditions(ds) ==
  IF ds.desired = 0 THEN <<"degrading", "number of desired nodes for scheduling is 0">>
  ELSE IF ds.current = 0 THEN <<"degrading", "0 nodes have pods scheduled">>
  ELSE IF ds.ready = ds.desired THEN <<"available", "">>
  ELSE <<"progressing", "ds is progressing">>

getDeploymentConditions(dep) ==
  IF dep.available = 0 THEN <<"degrading", "number of available pods is 0">>
  ELSE <<"available", "">>

\* The conditions for a verdict of one of the two operators above; nil when
\* the workload is available.
notAvailable(verdict, degradedReason, progressingReason) ==
  CASE verdict[1] = "degrading"   -> getDegradedConditions(degradedReason, verdict[2])
    [] verdict[1] = "progressing" -> getProgressingConditions(progressingReason, verdict[2])
    [] OTHER                      -> {}

getDaemonSetNotAvailableConditions(ds, failedToGetReason, degradedReason, progressingReason) ==
  IF ds = Absent THEN getDegradedConditions(failedToGetReason, "not found")
  ELSE notAvailable(getDaemonSetConditions(ds), degradedReason, progressingReason)

getDeploymentNotAvailableConditions(dep, failedToGetReason, degradedReason, progressingReason) ==
  IF dep = Absent THEN getDegradedConditions(failedToGetReason, "not found")
  ELSE notAvailable(getDeploymentConditions(dep), degradedReason, progressingReason)

getWorkerNotAvailableConditions(ds) ==
  getDaemonSetNotAvailableConditions(ds, "FailedGettingNFDWorkerDaemonSet",
    "NFDWorkerDaemonSetDegraded", "NFDWorkerDaemonSetProgressing")

getTopologyNotAvailableConditions(ds) ==
  getDaemonSetNotAvailableConditions(ds, "FailedGettingNFDTopologyDaemonSet",
    "NFDTopologyDaemonSetDegraded", "NFDTopologyDaemonSetProgressing")

getMasterNotAvailableConditions(dep) ==
  getDeploymentNotAvailableConditions(dep, "FailedGettingNFDMasterDeployment",
    "NFDMasterDeploymentDegraded", "NFDMasterDeploymentProgressing")

getGCNotAvailableConditions(dep) ==
  getDeploymentNotAvailableConditions(dep, "FailedGettingNFDGCDeployment",
    "NFDGCDegraded", "NFDGCDeploymentProgressing")

-----------------------------------------------------------------------------
\* A mutant of GetConditions: the garbage collector is not looked at.
conditionsWithoutGC(worker, master, gc, topology, topologyUpdater) ==
  LET w == getWorkerNotAvailableConditions(worker)
      m == getMasterNotAvailableConditions(master)
      t == getTopologyNotAvailableConditions(topology)
  IN  CASE w # {} -> w
        [] w = {} /\ m # {} -> m
        [] w = {} /\ m = {} /\ topologyUpdater /\ t # {} -> t
        [] OTHER -> getAvailableConditions

\* The first workload that is not available, in the order worker, master,
\* garbage collector, topology updater (if the CR asks for it), decides.
GetConditions(worker, master, gc, topology, topologyUpdater) ==
  LET w == getWorkerNotAvailableConditions(worker)
      m == getMasterNotAvailableConditions(master)
      g == getGCNotAvailableConditions(gc)
      t == getTopologyNotAvailableConditions(topology)
  IN  IF w # {} THEN w
      ELSE IF m # {} THEN m
      ELSE IF g # {} THEN g
      ELSE IF topologyUpdater /\ t # {} THEN t
      ELSE getAvailableConditions

\* A mutant of AreConditionsEqual: only type and status are compared.
sameStatuses(prevConditions, newConditions) ==
  \A c \in newConditions : \E p \in prevConditions : p.type = c.type /\ p.status = c.status

\* Another one: LastTransitionTime is compared too; it is new on every call.
neverEqual(prevConditions, newConditions) == newConditions = {}

\* Every new condition is found, by its type, in the previous list with the
\* same status, reason and message.
AreConditionsEqual(prevConditions, newConditions) ==
  \A c \in newConditions :
    \E p \in prevConditions :
      /\ p.type = c.type
      /\ p.status = c.status
      /\ p.reason = c.reason
      /\ p.message = c.message
=============================================================================
