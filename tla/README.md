# A verification of the NFD operator in TLA+

The node-feature-discovery operator watches `NodeFeatureDiscovery` (NFD) custom resources and
keeps the objects that run NFD in a namespace: the Deployments `nfd-master` and `nfd-gc`, the
DaemonSets `nfd-worker` and `nfd-topology-updater`, the ConfigMap `nfd-worker`, and, when a CR
is deleted, the Job `nfd-prune`. This directory models its control logic and the objects it
writes, checks them with TLC and proves the main safety properties with TLAPS.

## 1. Inventory

| component | state | operations | source | module |
|---|---|---|---|---|
| Controller (`Reconcile` and its helper) | none of its own: the CR copy it works on; finalizer and status live in the CR | apply branch (`setFinalizer`, `handleMaster/Worker/Topology/GC/Status`), deletion branch (`finalizeComponents`, `handlePrune`, `removeFinalizer`) | `internal/controllers/nodefeaturediscovery_reconciler.go` | `Reconciler`, `Lifecycle` |
| Watches and predicates | undelivered events, work queue (controller-runtime) | `SetupWithManager`, `getPredicates`, `isControlledByNFD` | same | `Reconciler` |
| Status | none; reads the cached workloads | `GetConditions`, `AreConditionsEqual` | `internal/status/status.go` | `Status`, `Placement` |
| Deployments, DaemonSets, ConfigMap, Job | one object of a fixed name each | `Set...AsDesired`, `Delete...`, `Get...`, `CreatePruneJob` | `internal/deployment`, `internal/daemonset`, `internal/configmap`, `internal/job` | `Reconciler` (writes), `Manifests` (contents), `Placement` (effect) |
| API types | the CR | defaults and helpers | `api/v1/nodefeaturediscovery_types.go` | `Reconciler`, `Manifests` |
| Start-up | flags, watched namespace, leader election | `main`, `getWatchNamespace` | `main.go` | `Reconciler` (restart), `Handover` |
| Generated code, mocks, test scheme | - | - | `zz_generated.deepcopy.go`, `mock_*.go`, `internal/test` | none |

How they interact. The reconciler reads through the informer caches of controller-runtime and
writes to the API server. A write comes back as a watch event, some time later and merged with
others; a predicate may drop it; otherwise the CR named by the object's controller reference is
queued. One worker takes names from the queue. Users, the workload controllers, the Job
controller and the garbage collector change the same objects at any time. The templates in the
objects decide where the pods may run and whether they start; their number comes back as the
workloads' status, from which the CR's conditions are computed.

What is hard. Every decision is taken on an outdated copy. Requests fail, or succeed with the
answer lost, between any two writes; the process may stop there too, or be replaced by another
leader without noticing. Objects have fixed names, so two CRs of a namespace, or two successive CRs
of one name, meet in the same objects. Deletion is a protocol of seven steps with a job in the
middle that reports through an event. Six templates in four packages have to fit the nodes, each
other and the CR. `PROJECT.json` lists these hazards one by one, at the line where they bite.

What correctness means, per component:

- controller, apply branch: nothing is deployed without the finalizer; when nothing is left to do,
  the cluster is as the CR wants it, and its status is true;
- both branches: a write of the operator's copy of the CR undoes nothing others have written meanwhile;
- controller, deletion branch: components first, prune job second, finalizer last; it ends;
- watches: no event that matters is lost;
- status: Available exactly if all is up, no stale report, no endless rewriting;
- templates: pods run where they should, can start, and read the configuration of the CR; the prune job
  leaves nothing behind;
- two CRs, or two leaders: what one does to the other's objects is repaired.

## 2. Modules

`Status` - `status.go` as operators. A condition list is a set of records with one member per
type. Timestamps are left out (`AreConditionsEqual` ignores them). An error of a `Get` is
"not found": the reads come from a cache.

`Reconciler` - the system. Its variables:

| variable | stands for |
|---|---|
| `cr`, `obj` | the API server: the CR of each name, the object of each kind |
| `crCache`, `objCache` | the informers' copies |
| `crFresh`, `instFresh` | is the cached copy, the running Reconcile's copy, still the current resource version? |
| `notify`, `queue` | events under way per informer, the work queue |
| `pc`, `inst`, `failed` | the running Reconcile: its next write, its CR copy, whether a handler failed |
| `nextUid`, `faults`, `edits` | the UID of the next CR; counters for the bounds |
| `pruned` | history: the CRs whose prune job succeeded |

Its actions keep the names of the code (`Reconcile`, `setFinalizer`, `handleMaster`, ...,
`removeFinalizer`; `handleWorker` is the two steps `handleWorkerCM` and `handleWorkerDS`,
`finalizeComponents` the five steps `deleteWorkerDS` ... `deleteGC`). One step is one write to the API server
together with the cached reads before it: the cache may be arbitrarily old, so a read a little
earlier sees nothing new. The environment is `Sync`, `Restart`, users (`CreateCR`, `UpdateSpec`,
`DeleteCR`, `HoldCR`, `ReleaseCR`, `EditContent`, `RemoveOwner`, `DeleteObject`) and the cluster
(`ObserveWorkload`, `ReportStatus`, `PodSucceeds`, `PodFails`, `CollectGarbage`).

Decisions worth knowing:

- A request is answered, rejected, or applied with the answer lost (`Outcome`).
- `client.Update` is refused unless the copy is the current version; the status patch carries no
  version and is not.
- `CreateOrPatch` sends the difference between the cached object and the wanted one, so an edit
  that is not in the cache survives in part (`patchedData`). `SetControllerReference` refuses an
  object controlled by a CR of another *name*; one controlled by an earlier CR of the same name
  is taken over.
- The content of an object is a payload of the CR (`desired`) or `Drifted`; the ConfigMap has a
  payload of its own. What the payload consists of is the matter of `Manifests`.
- An informer jumps to the current state when it delivers. `SyncGroups` says which informers do
  so together: that is a bound for TLC, the proofs are for every choice.
- `observed` stands for `observedGeneration`: a workload controller writes the status of a new
  object once, which is an update event even if the numbers stay zero.
- The delay of a retry is left out, and so is the informers' periodic resync (ten hours by
  default), which would repair what a lost event leaves behind.
- A user deletes an object in one step; no foreign finalizers on components.
- Another party may add a finalizer of its own to a CR (`HoldCR`) as long as the CR is not being deleted:
  the API server refuses new finalizers afterwards. It removes its finalizer when it likes (`ReleaseCR`).
- Where specs are edited, a CR can switch the topology updater off and leave its DaemonSet behind
  (section 5), so the teardown properties then speak of the other components; where they are not,
  `coreComponents` is all of them.

`Lifecycle` - the abstract specification: what the operator promises for the CRs of a namespace,
without caches, requests, failures or an order of work. A CR goes from absent through unguarded
and guarded to leaving and released; parts are deployed only between guard and pruning, and neither
pruning nor the release comes before they are gone. `Life` in `Reconciler` is the refinement
mapping: the phase is read off the finalizer and the deletion timestamp, the parts are the
`coreComponents` that the CR controls, and `ImplementsLifecycle` is the abstract specification as a property of the detailed one.

`Handover` - two operator processes. The lease passes to a new process in the middle of a
Reconcile; the old one, cut off, goes on with it on frozen caches (`Old`, an instance of
`Reconciler` with its own `pc`, `inst`, `objCache` and queue) while the new one, the users and the cluster
act as in `Reconciler`. It takes no further request, and exits at some point.

`Manifests` - the six templates as functions of the CR's spec, one operator per function of the code
(`getArgs`, `getWorkerAffinity`, `getWorkerVolumes`, ...). A member of a list of labels is the sequence of the
parts between its commas, so `join` forgets where one member ends, as `strings.Join` does; `Blanks` are the
texts `strings.TrimSpace` leaves nothing of. A template keeps what decides where its
pods may run, whether they can start, and what they are told; security contexts, probe delays and
the preferred affinity are left out.

`Placement` - what becomes of the templates. Nodes have labels and taints that change; the
scheduler, the DaemonSet and the Deployment controller place pods by Kubernetes' matching rules,
the kubelet starts them if accounts, volumes and ports fit, controllers report late,
`handleStatus` publishes conditions, the master labels nodes; after the deletion the prune job has to
find a node, and pods of the deleted master may still be running.
A pod starts only if its pull policy gets the image (`Pullable`). `Reconcile` is one coarse step here (`Apply`,
`handleStatus`, `Finalize`): its steps, failures and outdated copies are `Reconciler`'s.

`MCLifecycle`, `MCTwo`, `MCPlacement` - the instances for TLC. `MCTwo` starts in a state `Reconciler`
reaches by itself: one CR is served, a second one has just been created. `Handover` starts when the
CR is served, too.

`StatusProofs` - about the operators of `Status`. `ReconcilerProofs` - types, and for every action
its *effect*: what it does to the part of the state the invariants are about. `TeardownProofs` -
the invariants, from the effects. `LifecycleProofs` - the refinement. `QuietProofs` - nothing is
forgotten: events, requests and what they make up for. `PruneProofs` - the success of a prune job, from
the API server to the release. `HandoverProofs` - the old leader as one more user of the API server.
`PlacementProofs` - the conditions, the labels and the worker's configuration.

## 3. Runs

Runs that pass:

| run | question | properties |
|---|---|---|
| `Faults` | one failed or lost request, or a restart, at any point of the lives of two successive CRs of one name, with all components and pruning | `TypeOK`, `FinalizerGuard`, `TeardownBeforePrune`, `QuietMeansApplied`, `QuietMeansPruning`, `TornDownBeforeRelease` |
| `Drift` | an edit of the CR or of a component, a deletion or a status change at any moment | `QuietMeansApplied`, `NothingForgotten` |
| `SpecChange` | two edits of the CR, of its finalizers or of owner references at any moment; a prune pod may fail | `Inv`, `EditsSurvive`, `TornDownBeforeRelease`, `PrunedBeforeRelease`, `ImplementsLifecycle` |
| `Two` | two CRs on the same objects, one fault: do invariant and abstract specification hold, is no CR left half handled, is the survivor served? | `Inv`, `QuietMeansHandled`, `NothingForgotten`, `SurvivorIsServed`, `LifecycleSteps` |
| `Liveness` | does a deletion end, does the operator come to rest? one fault, events of CRs and objects delivered apart | `QuietMeansApplied`, `QuietMeansPruning`, `PruningRemembered`, `DeletedGoes`, `Settles` |
| `Handover` | an old leader goes on after the hand-over: does the new one repair what it does? | `HandoverHeals` |
| `Placement` | do pods run where they are meant to, with the configuration of the CR; do the conditions follow; does the prune job run and leave the nodes clean? | `AvailableMeansAllUp`, `SkipMeansSame`, `WorkerReadsConfig`, `PrunedMeansClean`, `StatusTellsTruth`, `AvailableWhenServable`, `PruneRuns` |

Runs that show a disagreement between the code and what it says of itself (details and quotations
under `findings` in `PROJECT.json`):

| run | shows |
|---|---|
| `PruneFails` | a prune pod that failed once blocks the deletion of the CR even after the job has succeeded |
| `StaleJob` | a recreated CR takes the finished prune job of its predecessor for its own |
| `TwoDeleted` | of two deleted CRs only the owner of the prune job is called when it ends |
| `PruneStuck` | where nfd-master runs only thanks to `MasterTolerations`, the prune job never finds a node and the CR never goes |
| `PruneRace` | a pod of the deleted master that is still running labels nodes again after the prune job; the CR goes with labels left behind |

Bounds, and why they are enough.

- One name suffices for everything but sharing; two for that, since CRs interact only pairwise
  through an object. Two UIDs give a predecessor and a successor.
- One fault reaches every single failure between two writes (a restart is charged as a fault). In
  `Handover` the hand-over itself is one, and there is one more.
- Informers: where `SyncGroups` has one group all caches move together; `SpecChange` and `Liveness`
  let the CR's cache and those of the objects run apart, the one with edits, the other with a fault.
- One edit at any point between two steps, and in `SpecChange` two, cover an edit in the middle of
  a Reconcile followed by another before the next.
- Where workload statuses do not matter the controllers report none (`DaemonSetStatuses = {}`): an
  object then stays unobserved, so a state with objects is not `Quiet`. `Two` and `TwoDeleted`
  are of this kind: `QuietMeansHandled` and `QuietMeansPruning` then speak of the states in which the
  workloads are gone again.
- In `Drift` the two payloads are interchangeable, hence the symmetry.
- `Placement`: a control-plane node, a worker node and a Windows node are the cases the affinity
  and the built-in tolerations tell apart; one evicting taint may come or go once, which changes
  the number of nodes a DaemonSet is meant for while it is counted. `base` serves with all
  defaults, `topology` with the topology updater and settings of its own. `PruneStuck` has a
  cluster in which every node is tainted.
- `CHECK_DEADLOCK FALSE`: a cluster with nothing left to do really stops.

Fairness. In `Reconciler` a started Reconcile goes on (a goroutine of a running process); a queued
request is eventually taken (the queue is first-in first-out: strong fairness per name, since
`Reconcile(n)` is disabled whenever another request runs); informers deliver; the workload
controllers note a new object; the garbage collector and the Job controller do their work. Users,
pod failures, faults and restarts owe nothing. In `Placement` the operator acts as long as it has
something to do, which the `Quiet...` properties of `Reconciler` and the events behind them justify, and
the cluster's controllers and kubelets do not all stop (weak fairness of `Operator` and of
`Cluster`, each as a whole). Users, changes of the nodes and the master's labelling owe nothing.

## 4. Proofs

For every set of names, specs and statuses and every bound (assumptions: the constants have the
types `AbsentAssumption`, `SpecsAssumption`, `StatusAssumption`, `BoundAssumption` give them; in
`Placement`, `NodesAssumption`: the nodes are finitely many, `SpecsAssumption`: the specs are CR specs, and
`BlanksAssumption`: the blanks are texts, the empty one among them):

| theorem | states | module |
|---|---|---|
| `TypeCorrect` | `Spec => []TypeOK` | `ReconcilerProofs` |
| `InvCorrect` | `Spec => []Inv` | `TeardownProofs` |
| `FinalizerGuardCorrect` | `Spec => []FinalizerGuard` | `TeardownProofs` |
| `TeardownBeforePruneCorrect` | `Spec => []TeardownBeforePrune` | `TeardownProofs` |
| `TornDownBeforeReleaseCorrect` | `Spec => TornDownBeforeRelease` | `TeardownProofs` |
| `EditsSurviveCorrect` | `Spec => EditsSurvive` | `TeardownProofs` |
| `QuietMeansHandledCorrect` | `Spec => []QuietMeansHandled` | `QuietProofs` |
| `NothingForgottenCorrect` | `Spec => []NothingForgotten` (1) | `QuietProofs` |
| `QuietMeansAppliedCorrect` | `Spec => []QuietMeansApplied` (1) | `QuietProofs` |
| `PruningRememberedCorrect` | `Spec => []PruningRemembered` (2) | `QuietProofs` |
| `QuietMeansPruningCorrect` | `Spec => []QuietMeansPruning` (2) | `QuietProofs` |
| `HandoverHealsCorrect` | `SpecHandover => []HandoverHeals` (1, 2) | `HandoverProofs` |
| `PrunedBeforeReleaseCorrect` | `Spec => PrunedBeforeRelease` (3) | `PruneProofs` |
| `LifecycleImplemented` | `Spec => ImplementsLifecycle` | `LifecycleProofs` |
| `LifecycleStepsCorrect` | `Spec => LifecycleSteps` | `LifecycleProofs` |
| `PromiseKept` | `Spec => []Life!Promise` | `LifecycleProofs` |
| `AvailableMeansAllUpCorrect` | `Spec => []AvailableMeansAllUp` (of `Placement`) | `PlacementProofs` |
| `SkipMeansSameCorrect` | `Spec => []SkipMeansSame` (of `Placement`) | `PlacementProofs` |
| `PrunedMeansCleanCorrect` | `Spec => []PrunedMeansClean` (of `Placement`) | `PlacementProofs` |
| `WorkerReadsConfigCorrect` | `Spec => []WorkerReadsConfig` (of `Placement`) | `PlacementProofs` |

Hypotheses, each one needed:

1. `"owner" \notin Edits`: nobody removes the owner reference of an object. The update predicate drops that
   event, and nobody notices before the resync (section 5).
2. One name in use. Two deleted CRs share the name of the prune job, and the one that does not own it is not
   called when it ends: `TwoDeleted`. `HandoverHealsCorrect` also needs a name and a spec to start from.
3. `MaxUid = 1`: the CR had no predecessor. Otherwise the CR may take the finished job of
   its predecessor for its own: `StaleJob`.

The argument for `Reconciler`. None of its safety properties is inductive, since the steps that
could break them look at a copy of the CR. `Inv` adds what relates the copies to the CR:

- `UidsUsed`: a UID is not given twice, so a new CR owns nothing;
- `FreshCopies`: a copy marked current is the CR, so an accepted update overwrites what it read;
- `CopiesAgree`: a copy that has the finalizer and knows of no deletion is a copy of a CR that
  still has the finalizer; and if the running copy knows of the deletion of a CR, so do the cache
  and the CR (the copies are ordered in age);
- `BranchFits`: handlers run on a copy with finalizer and without deletion, the teardown on
  a copy that is being deleted;
- `TeardownProgress`: what the running teardown has deleted is not owned by its CR again;
- `JobAfterTeardown`: every copy of the CR a prune job belongs to knows of the deletion, and that CR
  owns none of `coreComponents`;
- `SpecsAgree`: where no spec is edited, the copies of one CR have its spec, and a topology updater belongs
  to a CR that wants one, so the teardown comes by it.

Deploying needs a copy without deletion, so by `JobAfterTeardown` never happens for the owner of a
prune job, and by `CopiesAgree` happens only for a CR that has kept its finalizer. A prune job is created
only after `TeardownProgress` covers all of `coreComponents`. `removeFinalizer` succeeds only on the
current version, so `TornDownBeforeRelease` follows from `BranchFits` and `TeardownProgress`.
`EditsSurvive` follows from `FreshCopies`: both updates of the CR are accepted only if the copy is the CR, and the
patch of the status touches nothing but the conditions.

The refinement. Every effect of `ReconcilerProofs` is mapped to a step of `Lifecycle`: a write of a
component to `Deploy`, one that changes no owner to a stutter, a deletion to `Lose`, and so on. Whether a
write is allowed there depends on the CR in the cluster while the code looked at its copy; `Inv` bridges the two, as above. What
`Inv` does not give is that a CR which is let go of, or goes, has no part and no prune job left that would
disappear from the abstract state with it: that is `Promise`, which every step of `Lifecycle` preserves and
the proof carries along. `PromiseKept` says it of the detailed model, a stronger `FinalizerGuard`.

`Placement`. `ReportSound` says that the reported numbers count nodes (a DaemonSet with no scheduled pod
has no ready one); with it `ConditionsVerdict` of `StatusProofs` settles `GetConditions` case by case. `SkipMeansSame` rests
on `oneEach`: published conditions are empty or have one entry per type, so that
`AreConditionsEqual`, which compares entry by entry of the same type, compares everything. For `PrunedMeansClean` the
invariant `CleanInv` says that after a prune run that no master pod outlived, no master pod can come
back, since its Deployment is gone for good.

The `Quiet...` properties speak of states in which nothing is left to do; the invariants behind them
(`NothingForgotten`, `PruningRemembered`) of every state: whatever is not as it should be, the CR is *due* (queued, or
an event under way will queue it), or the running Reconcile is *serving* its current version and has the step that
repairs it still ahead, or has failed and will queue itself. A step concerns a CR in one of three ways
(`StepFor`): it starts the work on the CR, it leaves that work alone, or it is the next step of it. What makes a
CR due again is `EventsPending`: every difference between an object and its informer's copy was announced
to the owner, unless the object is new and its controller has not noted it yet, which will be announced. So a component that a
CR that is not due owns is what it was (`OwnedStands`), and what `CreateOrPatch` read from the cache was true
(`ApplyDone`). A CR whose status was found up to date had all of its handlers succeed; a deleted one whose Reconcile
ended without an error has a prune job that has neither succeeded nor failed.

`HandoverHeals` uses the same invariants, without `Inv`, which an old leader breaks. To the new leader a
step of the old one is a write by somebody else (`Meddles`): the types stay, nothing is taken from the events, every change is
announced to the owner, and the new leader's copy is outdated when its CR is written. Nothing is assumed of the old
leader's copies but their types (`OldTyped`), so the theorem holds for copies of any age, and any
number of requests failing on the way.

`SuccessRecorded`, an invariant of the proofs only, follows the success of a prune job: in the API server, in the
cache, and in the
step at which `removeFinalizer` is about to act on it. With a single UID the job can only be the CR's own, hence
`PrunedBeforeRelease`; a finalizer that goes is one that `removeFinalizer` removes (`LetGoStep`), since users cannot.

`WorkerReadsConfig` is about names and keys that three packages have to agree on.

Only model-checked: everything about liveness and fairness (`DeletedGoes`, `Settles`, `SurvivorIsServed`,
`StatusTellsTruth`, `AvailableWhenServable`, `PruneRuns`), which is out of the prover's reach.

## 5. Known limits of what holds

Observations that no run of its own shows:

- `Inv` and `TeardownBeforePrune` do not survive a leader hand-over: an old leader that read the CR before its
  deletion may still deploy for it. What does hold is that the new leader repairs it (`HandoverHeals`).
- `PrunedMeansClean` has the proviso `~overlapped` because nothing waits for the pods of the deleted master before
  the prune job starts: `PruneRace` shows what happens without it.
- Two lists of extra label namespaces or resource labels that differ only in where a member ends give the same
  arguments, since they are joined with commas and nothing keeps commas out of the members.
- Switching the topology updater off does not remove its DaemonSet (`handleTopology` returns at once,
  `nodefeaturediscovery_reconciler.go:287`), nor does the teardown (`:211`), although `Reconcile` is said to patch "in
  accordance with NFD CR Spec" (`:110-111`). The DaemonSet goes with the CR, by garbage collection.
- An update that removes the owner reference of a component is filtered out
  (`nodefeaturediscovery_reconciler.go:83`). Nobody notices before the resync, so `"owner"` is not among the
  `Edits` of `Drift`; `QuietMeansApplied` fails with it.
- `Spec.Instance` is documented to "separate annotation namespaces for multiple parallel deployments"
  (`nodefeaturediscovery_types.go:38-39`) but reaches no object the operator writes: no operator of `Manifests`
  reads it.
- `nfd-gc` and the prune job pull `Always`, whatever `ImagePullPolicy` says (`deployment.go:122`, `job.go:86`). Where
  the image is on the nodes but cannot be pulled, the CR is never Available and its prune job never starts:
  with `Pullable = {"IfNotPresent", "Never"}` and the spec `local`, `PruneRuns` fails.
- `ImagePolicy` of the API types has no caller.
- Four host volumes of the worker point at paths under `/host-` on the host (`worker.go:191-215`), which
  is where the container expects them, not where a host has them. A `hostPath` volume without a
  type is not checked by the kubelet, so the pods start.
- Master, gc and topology updater have no affinity to Linux nodes. `servable` therefore asks that
  the nodes master and gc can be put on are Linux nodes.

## 6. Not modelled

Security contexts, probe delays, preferred affinity, RBAC; the parsing of flags, the watched
namespace, configuration errors and health probes of `main`, which keep no state; the informers' resync and
retry delays; the bundle and Helm manifests; the client interface, its mocks and the generated
code. `PROJECT.json` gives the reason for each component. What nfd-master and nfd-worker do is
taken from how the operator uses them: labels appear while both run, and disappear when
`nfd-master -prune` has run.

## 7. Plan

1. done: `Status`, `Reconciler`, `ReconcilerProofs`, `TeardownProofs`.
2. done: `Lifecycle`, checked and proved.
3. done: `Handover`; pods, labels and the prune job (`Placement`).
4. done: `Manifests`, checked on the nodes of `Placement`.
5. done: the `Quiet...` properties as inductive invariants over events and queue, proved
   (`QuietProofs`); the success of the prune job (`PruneProofs`).
6. done: what an old leader can and cannot break (`HealInv` of `HandoverProofs`).
7. left: several names in `HandoverHeals` (a CR that is not deleted is repaired whoever else is there), and the
   part of `Lifecycle` that survives a hand-over.
