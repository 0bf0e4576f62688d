----------------------------- MODULE Manifests -----------------------------
(***************************************************************************)
(* The pod templates the operator writes for a NodeFeatureDiscovery:       *)
(* internal/daemonset, internal/deployment, internal/job and               *)
(* internal/configmap.  A template keeps what decides where its pods may   *)
(* run (tolerations, node affinity), whether they can start and become     *)
(* ready (image, service account, volumes, ports and probes) and what they *)
(* are told (arguments, environment).                                      *)
(*                                                                         *)
(* Left out, as nothing here tells them apart: security contexts, the DNS  *)
(* policy, probe delays, and the preferred node affinity of master and     *)
(* prune job, a wish the scheduler may disregard.                          *)
(***************************************************************************)
EXTENDS Integers, Sequences

SeqExt == INSTANCE SequencesExt

CONSTANT Blanks      \* the texts of nothing but white space

ASSUME BlanksAssumption == "" \in Blanks /\ Blanks \subseteq STRING

DaemonSets == {"workerDS", "topologyDS"}
Deployments == {"masterDep", "gcDep"}
Workloads == DaemonSets \cup Deployments

-----------------------------------------------------------------------------
(* Settings of the CR *)

Toleration == [key : STRING, operator : STRING, value : STRING, effect : STRING]
EnvVar == [name : STRING, value : STRING]

\* Order and repetition of tolerations do not matter.  The operand's settings
\* and those around them are kept side by side.  A member of a list of labels is
\* the sequence of the parts between its commas: one part if it has no comma.
NodeFeatureDiscoverySpec ==
  [image : STRING, imagePullPolicy : STRING, servicePort : Int,
   workerTolerations : SUBSET Toleration, masterTolerations : SUBSET Toleration,
   workerEnvs : Seq(EnvVar), masterEnvs : Seq(EnvVar),
   extraLabelNs : Seq(Seq(STRING)), resourceLabels : Seq(Seq(STRING)), labelWhiteList : STRING,
   enableTaints : BOOLEAN, instance : STRING, topologyUpdater : BOOLEAN,
   pruneOnDelete : BOOLEAN, configData : STRING]

-----------------------------------------------------------------------------
(* Tolerations and node affinity *)

toleration(key, operator, effect) ==
  [key |-> key, operator |-> operator, value |-> "", effect |-> effect]

masterRole == "node-role.kubernetes.io/master"
controlPlaneRole == "node-role.kubernetes.io/control-plane"
nodeRole == "node-role.kubernetes.io/node"

\* The worker tolerates any taint that only keeps pods from being scheduled.
getWorkerTolerations(spec) ==
  {toleration("", "Exists", "NoSchedule")} \cup spec.workerTolerations

controlPlaneTolerations ==
  {toleration(key, "Equal", "NoSchedule") : key \in {masterRole, controlPlaneRole}}

\* getPodsTolerations of package deployment.
getPodsTolerations(spec) == controlPlaneTolerations \cup spec.masterTolerations

\* A mutant of getPruneTolerations: the prune job tolerates nothing.
noTolerations == {}

\* getPodsTolerations of package job, which does not look at the CR.
getPruneTolerations == controlPlaneTolerations

requirement(key, operator, values) == [key |-> key, operator |-> operator, values |-> values]

onLinux == requirement("kubernetes.io/os", "In", {"linux"})

\* The terms of the worker's required node affinity: one of them must match.
getWorkerAffinity ==
  {{requirement(masterRole, "DoesNotExist", {}), onLinux},
   {requirement(nodeRole, "Exists", {}), onLinux}}

-----------------------------------------------------------------------------
(* Container settings *)

\* An empty string in the CR stands for the default.
getImagePullPolicy(spec) == IF spec.imagePullPolicy = "" THEN "Always" ELSE spec.imagePullPolicy

defaultServicePort == 12000

flagIf(given, flag, value) == IF given THEN {<<flag, value>>} ELSE {}

\* strings.Join(list, ","): the commas between members and those in members
\* can no longer be told apart.
join(list) == SeqExt!FlattenSeq(list)

\* The arguments of nfd-master.  A white list counts as none if nothing is left
\* of it without the white space around it, and is passed on with it otherwise.
getArgs(spec) ==
  {<<"--port", IF spec.servicePort = 0 THEN defaultServicePort ELSE spec.servicePort>>}
    \cup flagIf(spec.extraLabelNs # <<>>, "--extra-label-ns", join(spec.extraLabelNs))
    \cup flagIf(spec.resourceLabels # <<>>, "--resource-labels", join(spec.resourceLabels))
    \cup flagIf(spec.labelWhiteList \notin Blanks, "--label-whitelist", spec.labelWhiteList)
    \cup flagIf(spec.enableTaints, "--enable-taints", TRUE)

getTopologyArgs ==
  {<<"-podresources-socket", "/host-var/lib/kubelet/pod-resources/kubelet.sock">>,
   <<"-sleep-interval", "3s">>}

\* The variables taken from the pod itself, and those of the CR after them.
fieldEnv(name, field) == [name |-> name, value |-> field]
getEnvs == <<fieldEnv("NODE_NAME", "spec.nodeName")>>
getBasicEnvs ==
  getEnvs \o <<fieldEnv("POD_NAME", "metadata.name"), fieldEnv("POD_UID", "metadata.uid")>>
getWorkerEnvs(spec) == getBasicEnvs \o spec.workerEnvs
getTopologyEnvs == Append(getBasicEnvs, fieldEnv("NODE_ADDRESS", "status.hostIP"))
getMasterEnvs(spec) == getEnvs \o spec.masterEnvs

getPorts == {"http"}
getProbePorts == {"http"}      \* of getLivenessProbe and getReadinessProbe

-----------------------------------------------------------------------------
(* Volumes *)

hostPath(path) == [kind |-> "hostPath", path |-> path]

configDir == "/etc/kubernetes/node-feature-discovery"

\* name of the volume, path in the container
getWorkerVolumeMounts ==
  {<<"host-boot", "/host-boot">>, <<"host-os-release", "/host-etc/os-release">>,
   <<"host-sys", "/host-sys">>, <<"nfd-worker-config", configDir>>,
   <<"nfd-hooks", "/etc/kubernetes/node-feature-discovery/source.d">>,
   <<"nfd-features", "/etc/kubernetes/node-feature-discovery/features.d">>,
   <<"host-usr-lib", "/host-usr/lib">>, <<"host-lib", "/host-lib">>,
   <<"host-usr-src", "/host-usr/src">>, <<"host-proc-swaps", "/host-proc/swaps">>}

\* A key of a ConfigMap shown as a file.
configFile(name, key, path) == [kind |-> "configMap", name |-> name, key |-> key, path |-> path]

hostVolumesOfWorker ==
  {<<"host-boot", hostPath("/boot")>>, <<"host-os-release", hostPath("/etc/os-release")>>,
   <<"host-sys", hostPath("/sys")>>,
   <<"nfd-hooks", hostPath("/etc/kubernetes/node-feature-discovery/source.d")>>,
   <<"nfd-features", hostPath("/etc/kubernetes/node-feature-discovery/features.d")>>,
   <<"host-usr-lib", hostPath("/host-usr/lib")>>, <<"host-lib", hostPath("/host-lib")>>,
   <<"host-usr-src", hostPath("/host-usr/src")>>,
   <<"host-proc-swaps", hostPath("/host-proc/swaps")>>}

\* A mutant of getWorkerVolumes: the file gets the name of the key.
volumesWithWrongFile ==
  hostVolumesOfWorker
    \cup {<<"nfd-worker-config", configFile("nfd-worker", "nfd-worker-conf", "nfd-worker-conf")>>}

\* Another one: the volume asks for a key the ConfigMap does not have.
volumesWithWrongKey ==
  hostVolumesOfWorker
    \cup {<<"nfd-worker-config", configFile("nfd-worker", "nfd-worker.conf", "nfd-worker.conf")>>}

getWorkerVolumes ==
  hostVolumesOfWorker
    \cup {<<"nfd-worker-config", configFile("nfd-worker", "nfd-worker-conf", "nfd-worker.conf")>>}

\* SetWorkerConfigMapAsDesired: the name of the ConfigMap and its data.
workerConfigMap(spec) == [name |-> "nfd-worker", data |-> <<"nfd-worker-conf", spec.configData>>]

getVolumeMounts ==
  {<<"kubelet-podresources-sock", "/host-var/lib/kubelet/pod-resources/kubelet.sock">>,
   <<"host-sys", "/host-sys">>, <<"kubelet-state-files", "/host-var/lib/kubelet">>}

getVolumes ==
  {<<"kubelet-podresources-sock", hostPath("/var/lib/kubelet/pod-resources/kubelet.sock")>>,
   <<"host-sys", hostPath("/sys")>>, <<"kubelet-state-files", hostPath("/var/lib/kubelet")>>}

-----------------------------------------------------------------------------
(* The templates.  The label "app" selects the pods of a workload.          *)

SetWorkerDaemonsetAsDesired(spec) ==
  [selector |-> "nfd-worker", label |-> "nfd-worker", account |-> "nfd-worker",
   tolerations |-> getWorkerTolerations(spec), affinity |-> getWorkerAffinity,
   image |-> spec.image, pull |-> getImagePullPolicy(spec),
   args |-> {}, env |-> getWorkerEnvs(spec),
   mounts |-> getWorkerVolumeMounts, volumes |-> getWorkerVolumes, ports |-> {}, probes |-> {}]

SetTopologyDaemonsetAsDesired(spec) ==
  [selector |-> "nfd-topology-updater", label |-> "nfd-topology-updater",
   account |-> "nfd-topology-updater",
   tolerations |-> {}, affinity |-> {},
   image |-> spec.image, pull |-> getImagePullPolicy(spec),
   args |-> getTopologyArgs, env |-> getTopologyEnvs,
   mounts |-> getVolumeMounts, volumes |-> getVolumes, ports |-> {}, probes |-> {}]

SetMasterDeploymentAsDesired(spec) ==
  [selector |-> "nfd-master", label |-> "nfd-master", account |-> "nfd-master",
   tolerations |-> getPodsTolerations(spec), affinity |-> {},
   image |-> spec.image, pull |-> getImagePullPolicy(spec),
   args |-> getArgs(spec), env |-> getMasterEnvs(spec),
   mounts |-> {}, volumes |-> {}, ports |-> getPorts, probes |-> getProbePorts]

SetGCDeploymentAsDesired(spec) ==
  [selector |-> "nfd-gc", label |-> "nfd-gc", account |-> "nfd-gc",
   tolerations |-> {}, affinity |-> {},
   image |-> spec.image, pull |-> "Always",
   args |-> {}, env |-> getEnvs,
   mounts |-> {}, volumes |-> {}, ports |-> getPorts, probes |-> getProbePorts]

\* The job's selector is generated by the API server.
CreatePruneJob(spec) ==
  [selector |-> "nfd-prune", label |-> "nfd-prune", account |-> "nfd-prune",
   tolerations |-> getPruneTolerations, affinity |-> {},
   image |-> spec.image, pull |-> "Always",
   args |-> {<<"-prune", TRUE>>}, env |-> getEnvs,
   mounts |-> {}, volumes |-> {}, ports |-> {}, probes |-> {}]

template(k, spec) ==
  CASE k = "workerDS"   -> SetWorkerDaemonsetAsDesired(spec)
    [] k = "topologyDS" -> SetTopologyDaemonsetAsDesired(spec)
    [] k = "masterDep"  -> SetMasterDeploymentAsDesired(spec)
    [] k = "gcDep"      -> SetGCDeploymentAsDesired(spec)
    [] k = "pruneJob"   -> CreatePruneJob(spec)
=============================================================================
