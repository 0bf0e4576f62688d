-------------------------- MODULE PlacementProofs --------------------------
(***************************************************************************)
(* For every set of nodes, specs and shapes: the conditions say Available  *)
(* exactly when all is up, a skipped write leaves nothing outdated, a      *)
(* pruned CR leaves no labels if the master's pods are gone in time, and   *)
(* the worker reads its configuration.                                     *)
(***************************************************************************)
EXTENDS Placement, StatusProofs, FiniteSetTheorems

-----------------------------------------------------------------------------
(* What the controllers report *)

\* Reports count nodes, and no pod is ready where none is counted.
ReportSound ==
  /\ report = [k \in Workloads |-> report[k]]
  /\ \A k \in DaemonSets :
       report[k] # Absent =>
         /\ report[k].desired \in Nat
         /\ report[k].current = 0 => report[k].ready = 0
  /\ \A k \in Deployments : report[k] # Absent => report[k].available \in Nat

\* The controllers count that way.
LEMMA ActualSound ==
  ASSUME NEW k \in Workloads
  PROVE  IF k \in DaemonSets
           THEN actual(k).desired \in Nat /\ (actual(k).current = 0 => actual(k).ready = 0)
           ELSE actual(k).available \in Nat
<1> DEFINE wanted == {n \in Nodes : admits(k, n)}
<1>1. \A S \in SUBSET Nodes : IsFiniteSet(S) /\ Cardinality(S) \in Nat
  BY NodesAssumption, FS_Subset, FS_CardinalityType
<1>2. /\ wanted \in SUBSET Nodes /\ wanted \cap running(k) \in SUBSET Nodes
      /\ wanted \cap ready(k) \subseteq wanted \cap running(k)
      /\ wanted \cap ready(k) \in SUBSET Nodes /\ ready(k) \in SUBSET Nodes
  BY DEF running, ready
<1>3. CASE k \in DaemonSets
  <2>1. actual(k) = [desired |-> Cardinality(wanted), current |-> Cardinality(wanted \cap running(k)),
                     ready |-> Cardinality(wanted \cap ready(k))]
    BY <1>3 DEF actual
  <2> HIDE DEF wanted
  <2>2. Cardinality(wanted \cap running(k)) = 0 => wanted \cap running(k) = {}
    BY <1>1, <1>2, FS_EmptySet
  <2>3. Cardinality(wanted \cap running(k)) = 0 => Cardinality(wanted \cap ready(k)) = 0
    BY <1>2, <2>2, FS_EmptySet
  <2> QED
    BY <1>1, <1>2, <1>3, <2>1, <2>3
<1>4. CASE k \notin DaemonSets
  BY <1>1, <1>2, <1>4 DEF actual
<1> QED
  BY <1>3, <1>4

\* Every step keeps the reports sound.
LEMMA ReportStep ==
  ASSUME ReportSound, [Next]_vars
  PROVE  ReportSound'
<1>1. CASE UNCHANGED report
  BY <1>1 DEF ReportSound
<1>2. CASE Apply
  <2>1. report' = [k \in Workloads |-> IF k \in wantedComponents THEN freshStatus(k) ELSE Absent]
    BY <1>2 DEF Apply
  <2>2. \A k \in Workloads : report'[k] \in {freshStatus(k), Absent}
    BY <2>1
  <2> QED
    BY <2>1, <2>2 DEF ReportSound, freshStatus, Workloads, DaemonSets, Deployments
<1>3. CASE Finalize
  BY <1>3 DEF Finalize, ReportSound, Workloads
<1>4. ASSUME NEW k \in Workloads, Report(k) PROVE ReportSound'
  <2>1. report' = [report EXCEPT ![k] = actual(k)]
    BY <1>4 DEF Report
  <2>2. \A j \in Workloads : report'[j] = IF j = k THEN actual(k) ELSE report[j]
    BY <2>1 DEF ReportSound
  <2>3. report' = [j \in Workloads |-> report'[j]]
    BY <2>1 DEF ReportSound
  <2>4. \A j \in Deployments : j \in Workloads /\ j \notin DaemonSets
    BY DEF Workloads, Deployments, DaemonSets
  <2>5. \A j \in DaemonSets : j \in Workloads
    BY DEF Workloads
  <2>6. \A j \in DaemonSets :
          report'[j] # Absent => /\ report'[j].desired \in Nat
                                 /\ report'[j].current = 0 => report'[j].ready = 0
    BY <2>2, <2>5, ActualSound DEF ReportSound
  <2>7. \A j \in Deployments : report'[j] # Absent => report'[j].available \in Nat
    BY <2>2, <2>4, ActualSound DEF ReportSound
  <2> QED
    BY <2>3, <2>6, <2>7 DEF ReportSound
<1>5. CASE handleStatus \/ DeleteCR \/ LabelNode
  BY <1>1, <1>5 DEF handleStatus, DeleteCR, LabelNode
<1>6. ASSUME NEW n \in Nodes, Prune(n) \/ \E shape \in Shapes[n] : ChangeNode(n, shape)
      PROVE  UNCHANGED report
  BY <1>6 DEF Prune, setPod, ChangeNode
<1>7. ASSUME NEW k \in PodKinds, NEW n \in Nodes, CreatePod(k, n) \/ StartPod(k, n) \/ RemovePod(k, n)
      PROVE  UNCHANGED report
  BY <1>7 DEF CreatePod, StartPod, RemovePod, setPod
<1>8. CASE UNCHANGED vars
  BY <1>1, <1>8 DEF vars
<1> QED
  BY <1>1, <1>2, <1>3, <1>4, <1>5, <1>6, <1>7, <1>8 DEF Next, Operator, Cluster

\* The reports of the controllers are sound.
LEMMA ReportCorrect == Spec => []ReportSound
<1>1. Init => ReportSound
  BY DEF Init, ReportSound, Workloads
<1>2. ReportSound /\ [Next]_vars => ReportSound'
  BY ReportStep
<1> QED
  BY <1>1, <1>2, PTL DEF Spec

-----------------------------------------------------------------------------
(* The conditions *)

\* Which conditions a list reports.
LEMMA Holds ==
  /\ \A t \in conditionTypes : holds(t, getAvailableConditions) <=> t \in {"Available", "Upgradeable"}
  /\ \A t \in conditionTypes, u \in {"Degraded", "Progressing"} :
       \A r \in conditionReasons, s \in conditionMessages :
         holds(t, onlyTrue(u, r, s)) <=> t = u
<1>1. \A u \in conditionTypes : notMet(u).type = u /\ ~notMet(u).status
  BY DEF notMet
<1>2. \A t \in conditionTypes : holds(t, getAvailableConditions) <=> t \in {"Available", "Upgradeable"}
  <2> DEFINE a == [type |-> "Available", status |-> TRUE,
                   reason |-> "AllInstanceComponentsAreDeployedSuccessfuly", message |-> ""]
             b == [type |-> "Upgradeable", status |-> TRUE,
                   reason |-> "CanBeUpgraded", message |-> ""]
  <2>1. a.type = "Available" /\ a.status /\ b.type = "Upgradeable" /\ b.status
    OBVIOUS
  <2>2. getAvailableConditions = {notMet(u) : u \in {"Progressing", "Degraded"}} \cup {a, b}
    BY DEF getAvailableConditions
  <2> HIDE DEF a, b
  <2>3. \A c \in getAvailableConditions :
          c = a \/ c = b \/ \E u \in {"Progressing", "Degraded"} : c = notMet(u)
    BY <2>2
  <2>4. a \in getAvailableConditions /\ b \in getAvailableConditions
    BY <2>2
  <2>5. {"Progressing", "Degraded"} \subseteq conditionTypes
    BY DEF conditionTypes
  <2>6. \A c \in getAvailableConditions : c.status => c = a \/ c = b
    BY <1>1, <2>3, <2>5, Zenon
  <2>7. ASSUME NEW t \in conditionTypes, holds(t, getAvailableConditions)
        PROVE  t \in {"Available", "Upgradeable"}
    BY <2>1, <2>6, <2>7, Zenon DEF holds
  <2>8. holds("Available", getAvailableConditions) /\ holds("Upgradeable", getAvailableConditions)
    BY <2>1, <2>4, Zenon DEF holds
  <2> QED
    BY <2>7, <2>8
<1>3. ASSUME NEW t \in conditionTypes, NEW u \in {"Degraded", "Progressing"},
             NEW r \in conditionReasons, NEW s \in conditionMessages
      PROVE  holds(t, onlyTrue(u, r, s)) <=> t = u
  <2> DEFINE c == [type |-> u, status |-> TRUE, reason |-> r, message |-> s]
  <2>1. c.type = u /\ c.status
    OBVIOUS
  <2>2. onlyTrue(u, r, s) = {notMet(v) : v \in conditionTypes \ {u}} \cup {c}
    BY DEF onlyTrue
  <2> HIDE DEF c
  <2>3. c \in onlyTrue(u, r, s) /\ \A d \in onlyTrue(u, r, s) :
          d = c \/ \E v \in conditionTypes : d = notMet(v)
    BY <2>2
  <2>4. \A d \in onlyTrue(u, r, s) : d.status => d = c
    BY <1>1, <2>3, Zenon
  <2> QED
    BY <2>1, <2>3, <2>4, Zenon DEF holds
<1> QED
  BY <1>2, <1>3

\* GetConditions says Available exactly when every workload the CR asks for
\* is up, and otherwise exactly one of Progressing and Degraded.
THEOREM AvailableMeansAllUpCorrect == Spec => []AvailableMeansAllUp
<1>1. ReportSound => AvailableMeansAllUp
  <2> SUFFICES ASSUME ReportSound PROVE AvailableMeansAllUp
    OBVIOUS
  <2>1. /\ \A k \in DaemonSets : daemonSetUp(report[k]) <=> daemonSetAvailable(report[k])
        /\ \A k \in Deployments : deploymentUp(report[k]) <=> deploymentAvailable(report[k])
    BY DEF ReportSound, daemonSetUp, daemonSetAvailable, deploymentUp, deploymentAvailable
  <2>2. IF allUp THEN computed = getAvailableConditions ELSE problem(computed)
    BY <2>1, ConditionsVerdict DEF allUp, computed, conditionsOf, DaemonSets, Deployments
  <2>3. CASE allUp
    BY <2>2, <2>3, Holds DEF AvailableMeansAllUp, conditionTypes
  <2>4. CASE ~allUp
    <3>1. PICK t \in {"Degraded", "Progressing"}, r \in conditionReasons, s \in conditionMessages :
            computed = onlyTrue(t, r, s)
      BY <2>2, <2>4 DEF problem
    <3>2. \A u \in conditionTypes : holds(u, computed) <=> u = t
      BY <3>1, Holds
    <3> QED
      BY <2>4, <3>2 DEF AvailableMeansAllUp, conditionTypes
  <2> QED
    BY <2>3, <2>4
<1> QED
  BY <1>1, ReportCorrect, PTL

\* The CR has no conditions yet, or one of each type.
PublishedSound == published = {} \/ oneEach(published)

\* Whoever skips the write because the conditions compare equal leaves the
\* very same conditions in place.
THEOREM SkipMeansSameCorrect == Spec => []SkipMeansSame
<1>1. oneEach(computed)
  BY ConditionsOneEach DEF computed, conditionsOf
<1>2. Init => PublishedSound
  BY DEF Init, PublishedSound
<1>3. PublishedSound /\ [Next]_vars => PublishedSound'
  <2> SUFFICES ASSUME PublishedSound, [Next]_vars PROVE PublishedSound'
    OBVIOUS
  <2>1. CASE handleStatus
    BY <1>1, <2>1 DEF handleStatus, PublishedSound
  <2>2. CASE DeleteCR
    BY <2>2 DEF DeleteCR, PublishedSound
  <2>3. CASE UNCHANGED published
    BY <2>3 DEF PublishedSound
  <2>4. CASE Apply \/ Finalize \/ LabelNode \/ UNCHANGED vars
    BY <2>3, <2>4 DEF Apply, Finalize, LabelNode, vars, crVars
  <2>5. ASSUME NEW k \in Workloads, Report(k) PROVE UNCHANGED published
    BY <2>5 DEF Report, crVars
  <2>6. ASSUME NEW n \in Nodes, Prune(n) \/ \E shape \in Shapes[n] : ChangeNode(n, shape)
        PROVE  UNCHANGED published
    BY <2>6 DEF Prune, setPod, ChangeNode, crVars
  <2>7. ASSUME NEW k \in PodKinds, NEW n \in Nodes,
               CreatePod(k, n) \/ StartPod(k, n) \/ RemovePod(k, n)
        PROVE  UNCHANGED published
    BY <2>7 DEF CreatePod, StartPod, RemovePod, setPod, crVars
  <2> QED
    BY <2>1, <2>2, <2>3, <2>4, <2>5, <2>6, <2>7 DEF Next, Operator, Cluster
<1>4. PublishedSound => SkipMeansSame
  <2>1. ~AreConditionsEqual({}, computed)
    BY <1>1 DEF AreConditionsEqual, oneEach, conditionTypes
  <2> QED
    BY <1>1, <2>1, EqualMeansSame DEF PublishedSound, SkipMeansSame
<1> QED
  BY <1>2, <1>3, <1>4, PTL DEF Spec

-----------------------------------------------------------------------------
(* The prune job *)

PodsTyped == pod = [k \in PodKinds |-> [n \in Nodes |-> pod[k][n]]]

\* There is a prune job, a pod of it, or its result.
pruneBegun == "pruneJob" \in objects \/ running("pruneJob") # {} \/ finished

\* Once pruning has begun no master is deployed any more; and after a run
\* that no pod of the master outlived, none is left to label a node.
CleanInv ==
  /\ PodsTyped
  /\ pruneBegun => phase # "serving" /\ "masterDep" \notin objects
  /\ finished /\ ~overlapped => ~labelled /\ running("masterDep") = {}
  /\ phase = "released" /\ spec.pruneOnDelete => finished

\* What happens to one pod.
LEMMA PodChange ==
  ASSUME PodsTyped, NEW k \in PodKinds, NEW n \in Nodes, NEW state, setPod(k, n, state)
  PROVE  /\ PodsTyped'
         /\ UNCHANGED <<chosen, phase, objects>>
         /\ \A j \in PodKinds : running(j)' =
              IF j # k THEN running(j)
              ELSE IF state = "none" THEN running(j) \ {n} ELSE running(j) \cup {n}
<1>1. pod' = [pod EXCEPT ![k][n] = state] /\ UNCHANGED <<chosen, phase, objects>>
  BY DEF setPod, crVars
<1>2. \A j \in PodKinds, m \in Nodes : pod'[j][m] = IF j = k /\ m = n THEN state ELSE pod[j][m]
  BY <1>1 DEF PodsTyped
<1>3. PodsTyped'
  <2>1. \A j \in PodKinds : pod'[j] = [m \in Nodes |-> pod'[j][m]]
    BY <1>1 DEF PodsTyped
  <2>2. pod' = [j \in PodKinds |-> pod'[j]]
    BY <1>1 DEF PodsTyped
  <2> QED
    BY <2>1, <2>2 DEF PodsTyped
<1>4. ASSUME NEW j \in PodKinds
      PROVE  running(j)' = IF j # k THEN running(j)
                           ELSE IF state = "none" THEN running(j) \ {n} ELSE running(j) \cup {n}
  BY <1>2 DEF running
<1> QED
  BY <1>1, <1>3, <1>4

\* Every step keeps CleanInv.
LEMMA CleanStep ==
  ASSUME CleanInv, [Next]_vars
  PROVE  CleanInv'
<1>0. "masterDep" \in PodKinds /\ "pruneJob" \in PodKinds /\ "pruneJob" \notin Workloads
  BY DEF PodKinds, Workloads, DaemonSets, Deployments
<1>1. CASE UNCHANGED <<chosen, phase, objects, pod, finished, labelled, overlapped>>
  BY <1>1 DEF CleanInv, PodsTyped, pruneBegun, running, spec
<1>2. CASE Apply
  <2>1. UNCHANGED <<chosen, phase, pod, finished, labelled, overlapped>> /\ phase = "serving"
    BY <1>2 DEF Apply, crVars
  <2>2. "pruneJob" \notin objects'
    BY <1>0, <1>2 DEF Apply, wantedComponents, components
  <2> QED
    BY <2>1, <2>2 DEF CleanInv, PodsTyped, pruneBegun, running, spec
<1>3. CASE Finalize
  <2>1. /\ UNCHANGED <<chosen, pod, finished, labelled, overlapped>>
        /\ phase' \in {"deleting", "released"} /\ "masterDep" \notin objects'
        /\ phase' = "released" => handlePrune
    BY <1>3 DEF Finalize
  <2> QED
    BY <2>1 DEF CleanInv, PodsTyped, pruneBegun, running, spec, handlePrune
<1>4. CASE DeleteCR
  BY <1>4 DEF DeleteCR, CleanInv, PodsTyped, pruneBegun, running, spec
<1>5. CASE LabelNode
  <2>1. running("masterDep") # {}
    BY <1>5 DEF LabelNode, ready, running
  <2> QED
    BY <1>5, <2>1 DEF LabelNode, crVars, CleanInv, PodsTyped, pruneBegun, running, spec
<1>6. ASSUME NEW k \in PodKinds, NEW n \in Nodes, CreatePod(k, n) PROVE CleanInv'
  <2>1. k \in objects /\ setPod(k, n, "starting") /\ UNCHANGED <<finished, labelled, overlapped>>
        /\ (k = "pruneJob" => ~finished)
    BY <1>6 DEF CreatePod
  <2> QED
    BY <1>0, <2>1, PodChange DEF CleanInv, pruneBegun, spec
<1>7. ASSUME NEW k \in PodKinds, NEW n \in Nodes, StartPod(k, n) PROVE CleanInv'
  <2>1. /\ n \in running(k) /\ setPod(k, n, "ready")
        /\ UNCHANGED <<finished, labelled, overlapped>>
    BY <1>7 DEF StartPod, running
  <2>2. \A j \in PodKinds : running(j)' = running(j)
    BY <2>1, PodChange DEF CleanInv
  <2> QED
    BY <1>0, <2>1, <2>2, PodChange DEF CleanInv, pruneBegun, spec
<1>8. ASSUME NEW k \in PodKinds, NEW n \in Nodes, RemovePod(k, n) PROVE CleanInv'
  <2>1. setPod(k, n, "none") /\ UNCHANGED <<finished, labelled, overlapped>>
    BY <1>8 DEF RemovePod
  <2>2. \A j \in PodKinds : running(j)' \subseteq running(j)
    BY <2>1, PodChange DEF CleanInv
  <2> QED
    BY <1>0, <2>1, <2>2, PodChange DEF CleanInv, pruneBegun, spec
<1>9. ASSUME NEW n \in Nodes, Prune(n) PROVE CleanInv'
  <2>1. /\ n \in running("pruneJob") /\ setPod("pruneJob", n, "none")
        /\ finished' /\ ~labelled' /\ (overlapped' <=> running("masterDep") # {})
    BY <1>9 DEF Prune, running
  <2>2. running("masterDep")' = running("masterDep")
    BY <1>0, <2>1, PodChange DEF CleanInv
  <2> QED
    BY <1>0, <2>1, <2>2, PodChange DEF CleanInv, pruneBegun, spec
<1>10. CASE handleStatus \/ UNCHANGED vars
  BY <1>1, <1>10 DEF handleStatus, vars, crVars
<1>11. ASSUME NEW k \in Workloads, Report(k) PROVE CleanInv'
  BY <1>1, <1>11 DEF Report, crVars
<1>12. ASSUME NEW n \in Nodes, \E shape \in Shapes[n] : ChangeNode(n, shape) PROVE CleanInv'
  BY <1>1, <1>12 DEF ChangeNode, crVars
<1> QED
  BY <1>2, <1>3, <1>4, <1>5, <1>6, <1>7, <1>8, <1>9, <1>10, <1>11, <1>12
     DEF Next, Operator, Cluster

\* A CR that asks for pruning leaves no labels behind when it goes, provided
\* the pods of the deleted master were gone when its prune job finished.
THEOREM PrunedMeansCleanCorrect == Spec => []PrunedMeansClean
<1>1. Init => CleanInv
  BY DEF Init, CleanInv, PodsTyped, pruneBegun, running, PodKinds
<1>2. CleanInv /\ [Next]_vars => CleanInv'
  BY CleanStep
<1>3. CleanInv => PrunedMeansClean
  BY DEF CleanInv, PrunedMeansClean
<1> QED
  BY <1>1, <1>2, <1>3, PTL DEF Spec

-----------------------------------------------------------------------------
(* The settings of the CR *)

\* The CR is one of those considered, and its spec does not change.
ChosenServed == chosen \in DOMAIN Specs /\ spec \in NodeFeatureDiscoverySpec

\* No step touches the spec.
LEMMA ChosenCorrect == Spec => []ChosenServed
<1>1. Init => ChosenServed
  BY SpecsAssumption DEF Init, ChosenServed, spec
<1>2. ChosenServed /\ [Next]_vars => ChosenServed'
  <2>1. ASSUME [Next]_vars PROVE UNCHANGED chosen
    <3>1. ASSUME NEW k, NEW n,
                 \/ Report(k) \/ CreatePod(k, n) \/ StartPod(k, n) \/ RemovePod(k, n) \/ Prune(n)
                 \/ \E shape : ChangeNode(n, shape)
          PROVE  UNCHANGED chosen
      BY <3>1 DEF Report, CreatePod, StartPod, RemovePod, Prune, setPod, ChangeNode, crVars
    <3>2. CASE Operator \/ DeleteCR \/ LabelNode \/ UNCHANGED vars
      BY <3>2 DEF Operator, Apply, handleStatus, Finalize, DeleteCR, LabelNode, vars, crVars
    <3> QED
      BY <2>1, <3>1, <3>2 DEF Next, Cluster
  <2> QED
    BY <2>1 DEF ChosenServed, spec
<1> QED
  BY <1>1, <1>2, PTL DEF Spec

\* The three places that say where the configuration of the worker is fit
\* together, for every CR: the ConfigMap's name and key, the volume that
\* shows the key as a file, and the mount of the volume.
THEOREM WorkerReadsConfigCorrect == Spec => []WorkerReadsConfig
<1>1. ChosenServed => WorkerReadsConfig
  <2> SUFFICES ASSUME ChosenServed PROVE WorkerReadsConfig
    OBVIOUS
  <2> DEFINE m == <<"nfd-worker-config", configDir>>
             f == configFile("nfd-worker", "nfd-worker-conf", "nfd-worker.conf")
             v == <<"nfd-worker-config", f>>
  <2>1. theTemplate("workerDS") = SetWorkerDaemonsetAsDesired(spec)
    BY DEF ChosenServed, theTemplate, templates, template, PodKinds, Workloads, DaemonSets, spec
  <2>2. m \in theTemplate("workerDS").mounts /\ v \in theTemplate("workerDS").volumes
    BY <2>1 DEF SetWorkerDaemonsetAsDesired, getWorkerVolumeMounts, getWorkerVolumes
  <2>3. /\ f.kind = "configMap" /\ f.path = "nfd-worker.conf"
        /\ workerConfigMap(spec).data = <<f.key, spec.configData>>
    BY DEF configFile, workerConfigMap
  <2>4. m = <<v[1], configDir>> /\ v[2] = f
    OBVIOUS
  <2> HIDE DEF m, f, v
  <2> QED
    BY <2>2, <2>3, <2>4, Zenon DEF WorkerReadsConfig
<1> QED
  BY <1>1, ChosenCorrect, PTL
=============================================================================
