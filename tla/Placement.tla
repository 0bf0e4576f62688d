----------------------------- MODULE Placement -----------------------------
(***************************************************************************)
(* What becomes of the templates of Manifests on the nodes of a cluster:   *)
(* where the scheduler and the DaemonSet controller may put the pods,      *)
(* whether the pods can start there, what the controllers report (late)    *)
(* and what handleStatus publishes of it; and at the end of the CR's life, *)
(* whether the prune job gets to run and leaves the nodes clean.           *)
(*                                                                         *)
(* Reconcile is coarse here: one step applies all components, one tears    *)
(* them down.  Reconciler has its steps, failures and outdated copies.     *)
(***************************************************************************)
EXTENDS Manifests, Status, FiniteSets

CONSTANTS
  Nodes,
  Specs,               \* Specs[i]: the CR specs considered, by some name
  Served,              \* the names of those CRs are created with
  Shapes,              \* Shapes[n]: the labels and taints the node n can have
  ServiceAccounts,     \* the service accounts installed with the operator
  Pullable,            \* the pull policies with which the nodes get the operand's image
  MaxNodeChanges       \* bound: changes of the nodes' taints

ASSUME NodesAssumption == IsFiniteSet(Nodes)

ASSUME SpecsAssumption ==
  /\ \A i \in DOMAIN Specs : Specs[i] \in NodeFeatureDiscoverySpec
  /\ Served \subseteq DOMAIN Specs

VARIABLES
  chosen,      \* the name of the CR's spec (it does not change here)
  phase,       \* the CR: "serving", "deleting", "released"
  objects,     \* the workloads, the ConfigMap and the prune job that exist
  node,        \* the labels and taints of each node
  pod,         \* pod[k][n]: the pod of the workload or job k on the node n
  report,      \* the status its controller has given each workload
  published,   \* the conditions of the CR
  finished,    \* has the prune job succeeded?
  labelled,    \* does a node carry NFD labels?
  overlapped,  \* history: did a pod of the master outlive the prune job's run?
  changes

crVars == <<chosen, phase, published>>
vars == <<crVars, objects, node, pod, report, finished, labelled, overlapped, changes>>

PodKinds == Workloads \cup {"pruneJob"}

spec == Specs[chosen]

\* The templates the operator writes, for each spec.
templates == [i \in DOMAIN Specs |-> [k \in PodKinds |-> template(k, Specs[i])]]
theTemplate(k) == templates[chosen][k]

-----------------------------------------------------------------------------
(* The cluster's side: Kubernetes' matching rules *)

tolerates(t, taint) ==
  /\ t.key \in {"", taint.key}
  /\ t.effect \in {"", taint.effect}
  /\ t.operator = "Exists" \/ t.value = taint.value

tolerated(tolerations, taint) == \E t \in tolerations : tolerates(t, taint)

meets(labels, r) ==
  CASE r.operator = "In"           -> r.key \in DOMAIN labels /\ labels[r.key] \in r.values
    [] r.operator = "Exists"       -> r.key \in DOMAIN labels
    [] r.operator = "DoesNotExist" -> r.key \notin DOMAIN labels

\* Several terms are alternatives, none is no requirement.
affine(k, n) ==
  LET terms == theTemplate(k).affinity
  IN  terms = {} \/ \E term \in terms : \A r \in term : meets(node[n].labels, r)

\* May a pod of k be put on the node, and may a running one stay?
admits(k, n) ==
  affine(k, n) /\ \A taint \in node[n].taints : tolerated(theTemplate(k).tolerations, taint)

stays(k, n) ==
  /\ k \in DaemonSets => affine(k, n)
  /\ \A taint \in node[n].taints :
       taint.effect = "NoExecute" => tolerated(theTemplate(k).tolerations, taint)

linux(n) == node[n].labels["kubernetes.io/os"] = "linux"

configMapThere(v) ==
  /\ "workerCM" \in objects
  /\ workerConfigMap(spec).name = v.name
  /\ workerConfigMap(spec).data[1] = v.key

\* Can the containers of k start and pass their probes?
startable(k) ==
  LET t == theTemplate(k) IN
  /\ t.selector = t.label
  /\ t.account \in ServiceAccounts
  /\ t.pull \in Pullable
  /\ \A m \in t.mounts : \E v \in t.volumes : v[1] = m[1]
  /\ \A v \in t.volumes : v[2].kind = "configMap" => configMapThere(v[2])
  /\ t.probes \subseteq t.ports

running(k) == {n \in Nodes : pod[k][n] # "none"}
ready(k) == {n \in Nodes : pod[k][n] = "ready"}

\* What the controller of a workload sees of its pods.
actual(k) ==
  IF k \in DaemonSets
    THEN LET wanted == {n \in Nodes : admits(k, n)}
         IN  [desired |-> Cardinality(wanted), current |-> Cardinality(wanted \cap running(k)),
              ready |-> Cardinality(wanted \cap ready(k))]
    ELSE [available |-> Cardinality(ready(k))]

freshStatus(k) ==
  IF k \in DaemonSets THEN [desired |-> 0, current |-> 0, ready |-> 0] ELSE [available |-> 0]

-----------------------------------------------------------------------------
(* The operator *)

\* The components handleMaster, handleWorker, handleTopology, handleGC write.
components == Workloads \cup {"workerCM"}
wantedComponents == IF spec.topologyUpdater THEN components ELSE components \ {"topologyDS"}

Apply ==
  /\ phase = "serving"
  /\ objects # wantedComponents
  /\ objects' = wantedComponents
  /\ report' = [k \in Workloads |-> IF k \in wantedComponents THEN freshStatus(k) ELSE Absent]
  /\ UNCHANGED <<crVars, node, pod, finished, labelled, overlapped, changes>>

conditionsOf(st) ==
  GetConditions(st["workerDS"], st["masterDep"], st["gcDep"], st["topologyDS"], spec.topologyUpdater)

computed == conditionsOf(report)

\* A mutant of handleStatus: the conditions are written only once.
publishOnce ==
  /\ phase = "serving"
  /\ published = {}
  /\ published' = computed
  /\ UNCHANGED <<chosen, phase, objects, node, pod, report, finished, labelled, overlapped, changes>>

handleStatus ==
  /\ phase = "serving"
  /\ ~AreConditionsEqual(published, computed)
  /\ published' = computed
  /\ UNCHANGED <<chosen, phase, objects, node, pod, report, finished, labelled, overlapped, changes>>

\* A mutant of handlePrune: the job is not waited for.
pruneDone == spec.pruneOnDelete => "pruneJob" \in objects

\* May the finalizer go?
handlePrune == spec.pruneOnDelete => "pruneJob" \in objects /\ finished

\* finalizeComponents, then the prune job or the end.
Finalize ==
  /\ phase = "deleting"
  /\ objects' = IF spec.pruneOnDelete THEN {"pruneJob"} ELSE {}
  /\ report' = [k \in Workloads |-> Absent]
  /\ phase' = IF handlePrune THEN "released" ELSE "deleting"
  /\ UNCHANGED <<chosen, published, node, pod, finished, labelled, overlapped, changes>>

-----------------------------------------------------------------------------
(* Users, scheduler, controllers, kubelet and the pods themselves *)

\* The conditions of a deleted CR are not looked at any more: dropped here.
DeleteCR ==
  /\ phase = "serving"
  /\ phase' = "deleting"
  /\ published' = {}
  /\ UNCHANGED <<chosen, objects, node, pod, report, finished, labelled, overlapped, changes>>

ChangeNode(n, shape) ==
  /\ changes < MaxNodeChanges
  /\ node[n] # shape
  /\ node' = [node EXCEPT ![n] = shape]
  /\ changes' = changes + 1
  /\ UNCHANGED <<crVars, objects, pod, report, finished, labelled, overlapped>>

setPod(k, n, state) ==
  /\ pod' = [pod EXCEPT ![k][n] = state]
  /\ UNCHANGED <<crVars, objects, node, report, changes>>

\* One pod on every node that admits it, or one pod in all.
CreatePod(k, n) ==
  /\ k \in objects
  /\ admits(k, n)
  /\ IF k \in DaemonSets THEN pod[k][n] = "none" ELSE running(k) = {}
  /\ k = "pruneJob" => ~finished
  /\ setPod(k, n, "starting")
  /\ UNCHANGED <<finished, labelled, overlapped>>

StartPod(k, n) ==
  /\ pod[k][n] = "starting"
  /\ linux(n)
  /\ startable(k)
  /\ setPod(k, n, "ready")
  /\ UNCHANGED <<finished, labelled, overlapped>>

\* Pods outlive their workload's deletion until the garbage collector and the
\* kubelet get to them.
RemovePod(k, n) ==
  /\ pod[k][n] # "none"
  /\ k \notin objects \/ ~stays(k, n)
  /\ setPod(k, n, "none")
  /\ UNCHANGED <<finished, labelled, overlapped>>

\* The features of a worker reach the master, which labels the worker's node.
LabelNode ==
  /\ ready("workerDS") # {} /\ ready("masterDep") # {}
  /\ labelled' = TRUE
  /\ UNCHANGED <<crVars, objects, node, pod, report, finished, overlapped, changes>>

\* nfd-master -prune cleans all nodes and exits.
Prune(n) ==
  /\ pod["pruneJob"][n] = "ready"
  /\ setPod("pruneJob", n, "none")
  /\ finished' = TRUE
  /\ labelled' = FALSE
  /\ overlapped' = (running("masterDep") # {})

Report(k) ==
  /\ k \in objects
  /\ report[k] # actual(k)
  /\ report' = [report EXCEPT ![k] = actual(k)]
  /\ UNCHANGED <<crVars, objects, node, pod, finished, labelled, overlapped, changes>>

Init ==
  /\ chosen \in Served
  /\ phase = "serving"
  /\ objects = {}
  /\ node \in {f \in [Nodes -> UNION {Shapes[n] : n \in Nodes}] : \A n \in Nodes : f[n] \in Shapes[n]}
  /\ pod = [k \in PodKinds |-> [n \in Nodes |-> "none"]]
  /\ report = [k \in Workloads |-> Absent]
  /\ published = {}
  /\ finished = FALSE
  /\ labelled = FALSE
  /\ overlapped = FALSE
  /\ changes = 0

Operator == Apply \/ handleStatus \/ Finalize

Cluster ==
  \/ \E k \in Workloads : Report(k)
  \/ \E k \in PodKinds, n \in Nodes : CreatePod(k, n) \/ StartPod(k, n) \/ RemovePod(k, n)
  \/ \E n \in Nodes : Prune(n)

Next ==
  \/ Operator
  \/ Cluster
  \/ DeleteCR
  \/ \E n \in Nodes : \E shape \in Shapes[n] : ChangeNode(n, shape)
  \/ LabelNode

Spec == Init /\ [][Next]_vars

\* Events of the workloads and of the prune job lead to a Reconcile (see
\* Reconciler), and the cluster's controllers and kubelets do not all stop.
\* Users and the master owe nothing.
Fairness == WF_vars(Operator) /\ WF_vars(Cluster)

FairSpec == Spec /\ Fairness

-----------------------------------------------------------------------------
(* Properties *)

holds(t, conditions) == \E c \in conditions : c.type = t /\ c.status

daemonSetUp(ds) == ds # Absent /\ ds.desired > 0 /\ ds.ready = ds.desired
deploymentUp(dep) == dep # Absent /\ dep.available > 0

allUp ==
  /\ daemonSetUp(report["workerDS"])
  /\ deploymentUp(report["masterDep"]) /\ deploymentUp(report["gcDep"])
  /\ spec.topologyUpdater => daemonSetUp(report["topologyDS"])

\* GetConditions, which returns at the first workload that is not available,
\* says Available (and Upgradeable) exactly when every workload the CR asks
\* for is up, and otherwise exactly one of Progressing and Degraded.
AvailableMeansAllUp ==
  /\ holds("Available", computed) <=> allUp
  /\ holds("Upgradeable", computed) <=> allUp
  /\ ~allUp => (holds("Progressing", computed) <=> ~holds("Degraded", computed))
  /\ allUp => ~holds("Progressing", computed) /\ ~holds("Degraded", computed)

\* When handleStatus finds the conditions equal and skips the write, what was
\* published before, perhaps about another workload, says the same in every
\* field: a reader never sees the reason of an earlier problem.
SkipMeansSame ==
  AreConditionsEqual(published, computed) => published = computed

\* The CR's conditions end up being those of the pods as they are, although
\* the controllers report late and handleStatus skips writes.
StatusTellsTruth ==
  <>[](phase = "serving") =>
    <>[](published = conditionsOf([k \in Workloads |-> IF k \in objects THEN actual(k) ELSE Absent]))

admittedBy(tolerations, n) == \A taint \in node[n].taints : tolerated(tolerations, taint)
hasLabel(n, key) == key \in DOMAIN node[n].labels

\* The nodes a user expects the worker, the master and the other pods on.
workerNode(n) ==
  /\ linux(n)
  /\ ~hasLabel(n, masterRole) \/ hasLabel(n, nodeRole)
  /\ \A taint \in node[n].taints : taint.effect = "NoExecute" => tolerated(spec.workerTolerations, taint)
masterNode(n) ==
  \A taint \in node[n].taints :
    \/ taint.key \in {masterRole, controlPlaneRole} /\ taint.effect = "NoSchedule" /\ taint.value = ""
    \/ tolerated(spec.masterTolerations, taint)
plainNode(n) == node[n].taints = {}

servable ==
  /\ \E n \in Nodes : workerNode(n)
  /\ \E n \in Nodes : plainNode(n)
  /\ \A n \in Nodes : masterNode(n) \/ plainNode(n) => linux(n)

\* A CR in a cluster that has Linux nodes for its pods is Available in the
\* end: tolerations and affinity let the pods onto the nodes they are meant
\* for and no others, and volumes, keys, accounts and probes fit together.
AvailableWhenServable ==
  <>[](phase = "serving" /\ servable) => <>[]holds("Available", published)

\* The file nfd-worker reads, nfd-worker.conf in its configuration directory,
\* holds the configuration of the CR in every worker that is ready.
WorkerReadsConfig ==
  ready("workerDS") # {} =>
    \E m \in theTemplate("workerDS").mounts, v \in theTemplate("workerDS").volumes :
      /\ m = <<v[1], configDir>>
      /\ v[2].kind = "configMap" /\ v[2].path = "nfd-worker.conf"
      /\ workerConfigMap(spec).data = <<v[2].key, spec.configData>>

\* When a CR that asks for pruning is deleted and has left labels on the
\* nodes, its prune job runs to the end.  (The labels are there because a
\* master found a node to run on and got its image, so a prune job should, too.)
PruneRuns ==
  (phase = "deleting" /\ spec.pruneOnDelete /\ labelled /\ ~finished) ~> finished

\* When the operator lets go of a CR that asks for pruning, no node has a
\* label left, provided the pods of the deleted master were gone when the
\* prune job finished; nothing in the code waits for that.
PrunedMeansClean ==
  phase = "released" /\ spec.pruneOnDelete /\ ~overlapped => ~labelled

\* The same without the proviso: what a user expects of pruning.
ReleasedMeansClean ==
  phase = "released" /\ spec.pruneOnDelete => ~labelled
=============================================================================
