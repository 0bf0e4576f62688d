---------------------------- MODULE MCPlacement ----------------------------
(* Placement on three nodes: a control-plane node, a worker node whose      *)
(* taints come and go, and a Windows node.                                  *)
EXTENDS Placement, TLC

taint(key, effect) == [key |-> key, value |-> "", effect |-> effect]
gpu == taint("gpu", "NoSchedule")
drain == taint("drain", "NoExecute")
os(name) == "kubernetes.io/os" :> name

controlPlane == [labels |-> os("linux") @@ masterRole :> "" @@ controlPlaneRole :> "",
                 taints |-> {taint(controlPlaneRole, "NoSchedule")}]
dedicated == [labels |-> os("linux") @@ masterRole :> "", taints |-> {gpu}]
worker(taints) == [labels |-> os("linux"), taints |-> taints]
windows == [labels |-> os("windows"), taints |-> {taint("os", "NoSchedule")}]

MixedCluster ==
  [n1 |-> {controlPlane}, n2 |-> {worker({}), worker({drain})}, n3 |-> {windows}]
TaintedCluster == [n1 |-> {dedicated}, n2 |-> {worker({gpu})}]

base ==
  [image |-> "nfd", imagePullPolicy |-> "", servicePort |-> 0,
   workerTolerations |-> {}, masterTolerations |-> {}, workerEnvs |-> <<>>, masterEnvs |-> <<>>,
   extraLabelNs |-> <<>>, resourceLabels |-> <<>>, labelWhiteList |-> "", enableTaints |-> FALSE,
   instance |-> "", topologyUpdater |-> FALSE, pruneOnDelete |-> TRUE, configData |-> "core"]

ofKey(key) == {toleration(key, "Exists", "")}

\* Each run serves some of them.  The labels' second member is "b,c".
SomeSpecs ==
  [base |-> base,
   topology |-> [base EXCEPT !.topologyUpdater = TRUE, !.workerTolerations = ofKey("drain"),
                             !.resourceLabels = <<<<"a">>, <<"b", "c">>>>,
                             !.workerEnvs = <<fieldEnv("X", "1")>>],
   gpu |-> [base EXCEPT !.masterTolerations = ofKey("gpu")],
   local |-> [base EXCEPT !.imagePullPolicy = "IfNotPresent"]]

Accounts == {"nfd-worker", "nfd-topology-updater", "nfd-master", "nfd-gc", "nfd-prune"}
=============================================================================
