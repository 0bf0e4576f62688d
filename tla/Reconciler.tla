----------------------------- MODULE Reconciler -----------------------------
(***************************************************************************)
(* The NodeFeatureDiscovery controller of                                  *)
(* internal/controllers/nodefeaturediscovery_reconciler.go together with   *)
(* what it runs against: the API server, the informer caches it reads, the *)
(* work queue that calls it, the users who edit the objects, and the       *)
(* cluster's own controllers.                                              *)
(*                                                                         *)
(* One worker goroutine (controller-runtime's default) takes a CR name     *)
(* from the queue, copies the cached CR and runs Reconcile on the copy.    *)
(* Every call that writes to the API server is one step; the cached reads  *)
(* that precede it belong to the same step, since the cache is stale in    *)
(* any case.  Everybody else may act between two steps.                    *)
(***************************************************************************)
EXTENDS Status

CONSTANTS
  Names,                \* the NodeFeatureDiscovery names used in the namespace
  Payloads,             \* what a CR can ask for: operand settings, worker configurations
  Drifted,              \* the content of an object somebody else has edited
  Specs,                \* the CR specs users submit
  HeldChoices,          \* may a CR carry a finalizer of another party?
  Edits,                \* what users and workload controllers change: see mayEdit
  DaemonSetStatuses,    \* what the DaemonSet controller reports
  DeploymentStatuses,   \* what the Deployment controller reports
  SyncGroups,           \* the informers whose events are delivered together
  MaxUid,               \* bound: CRs created
  MaxFaults,            \* bound: failed API calls and operator restarts
  MaxEdits,             \* bound: edits by users and status changes of the workloads
  MaxPodFailures        \* bound: failed pods of the prune job

VARIABLES
  cr,         \* API server: the CR of each name, or Absent
  obj,        \* API server: the operator's object of each kind, or Absent
  crCache,    \* the CR informer's copy of cr
  crFresh,    \* is the copy the current version (no undelivered event)?
  objCache,   \* the other informers' copy of obj
  notify,     \* per informer: the CRs to be queued by its undelivered events
  queue,      \* the work queue
  pc,         \* the next step of the running Reconcile, "idle" if none runs
  inst,       \* nfdInstance: the copy of the CR it works on
  instFresh,  \* is the copy still the current version?
  failed,     \* has a handler returned an error (errs)?
  nextUid, faults, edits,
  pruned      \* history: the UIDs of the CRs whose prune job has succeeded

crVars == <<cr, crFresh, nextUid>>
objVars == <<obj, notify, pruned>>
cacheVars == <<crCache, objCache>>
recVars == <<queue, pc, inst, instFresh, failed>>
vars == <<crVars, objVars, cacheVars, recVars, faults, edits>>

-----------------------------------------------------------------------------
(* Objects *)

DaemonSets == {"workerDS", "topologyDS"}
Deployments == {"masterDep", "gcDep"}
Workloads == DaemonSets \cup Deployments
Components == Workloads \cup {"workerCM"}
Kinds == Components \cup {"pruneJob"}
Informers == {"NodeFeatureDiscovery", "DaemonSet", "Deployment", "ConfigMap", "Job"}

\* The informer that watches a kind (the Owns calls of SetupWithManager).
informerOf(k) ==
  CASE k \in DaemonSets  -> "DaemonSet"
    [] k \in Deployments -> "Deployment"
    [] k = "workerCM"    -> "ConfigMap"
    [] k = "pruneJob"    -> "Job"

NodeFeatureDiscoverySpec ==
  [topologyUpdater : BOOLEAN, pruneOnDelete : BOOLEAN, operand : Payloads, workerConfig : Payloads]

NodeFeatureDiscovery ==
  [name : Names, uid : Nat, spec : Specs, finalizer : BOOLEAN, held : BOOLEAN,
   deleting : BOOLEAN, conditions : SUBSET Condition]

JobStatus == [succeeded : Nat, failed : Nat]
NoStatus == [none : {0}]
Statuses(k) ==
  CASE k \in DaemonSets  -> DaemonSetStatus
    [] k \in Deployments -> DeploymentStatus
    [] k = "pruneJob"    -> JobStatus
    [] k = "workerCM"    -> NoStatus

OwnerRef == [name : Names, uid : Nat]
Object(k) ==
  [owner : OwnerRef \cup {Absent}, data : Payloads \cup {Drifted}, status : Statuses(k),
   observed : BOOLEAN]

ASSUME AbsentAssumption ==
  /\ Absent \notin NodeFeatureDiscovery
  /\ Absent \notin OwnerRef
  /\ \A k \in Kinds : Absent \notin Object(k)

ASSUME SpecsAssumption == Specs \subseteq NodeFeatureDiscoverySpec

ASSUME StatusAssumption ==
  /\ DaemonSetStatuses \subseteq DaemonSetStatus
  /\ DeploymentStatuses \subseteq DeploymentStatus

ASSUME BoundAssumption ==
  /\ HeldChoices \subseteq BOOLEAN
  /\ Edits \subseteq {"spec", "hold", "content", "owner", "delete", "status"}
  /\ SyncGroups \subseteq SUBSET Informers
  /\ UNION SyncGroups = Informers
  /\ {MaxUid, MaxFaults, MaxEdits, MaxPodFailures} \subseteq Nat

\* A mutant of controllerRef: the UID of the owner is lost.
controllerRefByName(c) == [name |-> c.name]

\* The owner reference SetControllerReference puts on an object.
controllerRef(c) == [name |-> c.name, uid |-> c.uid]

live(ref) == cr[ref.name] # Absent /\ cr[ref.name].uid = ref.uid

\* What the Set...AsDesired functions and CreatePruneJob take from the CR:
\* the ConfigMap the worker configuration, the others the operand settings.
desired(k, spec) == IF k = "workerCM" THEN spec.workerConfig ELSE spec.operand

zeroStatus(k) ==
  CASE k \in DaemonSets  -> [desired |-> 0, current |-> 0, ready |-> 0]
    [] k \in Deployments -> [available |-> 0]
    [] k = "pruneJob"    -> [succeeded |-> 0, failed |-> 0]
    [] k = "workerCM"    -> [none |-> 0]

newObject(k, c) ==
  [owner |-> controllerRef(c), data |-> desired(k, c.spec), status |-> zeroStatus(k),
   observed |-> k \notin Workloads]

statusOf(o) == IF o = Absent THEN Absent ELSE o.status

\* GetConditions applied to a view of the objects, the cache for the code.
conditionsOf(view, spec) ==
  GetConditions(statusOf(view["workerDS"]), statusOf(view["masterDep"]),
                statusOf(view["gcDep"]), statusOf(view["topologyDS"]), spec.topologyUpdater)

-----------------------------------------------------------------------------
(* The API server and the watches *)

\* isControlledByNFD and the owner handler: the CR to queue for an object.
ownerName(o) == IF o = Absent \/ o.owner = Absent THEN {} ELSE {o.owner.name}

\* A mutant of watchEvents: updates are filtered out like creations.
watchDeletesOnly(old, new) == IF new = Absent THEN ownerName(old) ELSE {}

\* The CRs queued when an informer delivers the change from old to new:
\* getPredicates drops creations, lets an update through if the new object
\* is controlled by a CR, and a deletion if the deleted one was.
watchEvents(old, new) ==
  CASE new = old     -> {}
    [] new # old /\ old = Absent -> {}
    [] new # old /\ new = Absent -> ownerName(old)
    [] OTHER -> IF ownerName(new) = {} THEN {} ELSE ownerName(old) \cup ownerName(new)

prunedBy(k, new) ==
  IF k = "pruneJob" /\ new # Absent /\ new.status.succeeded > 0 THEN {new.owner.uid} ELSE {}

writeObject(k, new) ==
  /\ obj' = [obj EXCEPT ![k] = new]
  /\ notify' = [notify EXCEPT ![informerOf(k)] = @ \cup watchEvents(obj[k], new)]
  /\ pruned' = pruned \cup prunedBy(k, new)

\* Any change of a CR is an event for the CR informer: For(...) has no
\* predicate.
writeCR(n, new) ==
  /\ cr' = [cr EXCEPT ![n] = new]
  /\ crFresh' = [crFresh EXCEPT ![n] = FALSE]

\* What may happen to a request: answered, failed before it was applied, or
\* applied with the answer lost.
Outcome == {"ok", "rejected", "lost"}
charge(o) == faults' = IF o = "ok" THEN faults ELSE faults + 1
mayFail(o) == o = "ok" \/ faults < MaxFaults

behind(i) ==
  IF i = "NodeFeatureDiscovery" THEN \E n \in Names : ~crFresh[n]
  ELSE notify[i] # {} \/ \E k \in Kinds : informerOf(k) = i /\ objCache[k] # obj[k]

\* The informers of the group g catch up with the API server, and the event
\* handlers put into the queue what their predicates let through.
Sync(g) ==
  /\ \E i \in g : behind(i)
  /\ LET forCR == "NodeFeatureDiscovery" \in g IN
     /\ crCache' = IF forCR THEN cr ELSE crCache
     /\ crFresh' = IF forCR THEN [n \in Names |-> TRUE] ELSE crFresh
     /\ objCache' = [k \in Kinds |-> IF informerOf(k) \in g THEN obj[k] ELSE objCache[k]]
     /\ notify' = [i \in Informers |-> IF i \in g THEN {} ELSE notify[i]]
     /\ queue' = queue \cup (UNION {notify[i] : i \in g})
                        \cup (IF forCR THEN {n \in Names : ~crFresh[n]} ELSE {})
  /\ UNCHANGED <<cr, nextUid, obj, pruned, pc, inst, instFresh, failed, faults, edits>>

-----------------------------------------------------------------------------
(* The reconciler *)

\* A mutant of firstStep: the finalizer is not looked at.
firstStepUnguarded(c) == IF c.deleting THEN "deleteWorkerDS" ELSE "handleMaster"

\* The branch Reconcile takes on the copy of the CR.
firstStep(c) ==
  IF c.deleting THEN "deleteWorkerDS"
  ELSE IF ~c.finalizer THEN "setFinalizer"
  ELSE "handleMaster"

\* A request is taken from the queue.  The adapter of AsReconciler reads the
\* CR from the cache and is done if it is not there.
Reconcile(n) ==
  /\ pc = "idle"
  /\ n \in queue
  /\ queue' = queue \ {n}
  /\ IF crCache[n] = Absent
       THEN UNCHANGED <<pc, inst, instFresh, failed>>
       ELSE /\ pc' = firstStep(crCache[n])
            /\ inst' = crCache[n]
            /\ instFresh' = crFresh[n]
            /\ failed' = FALSE
  /\ UNCHANGED <<crVars, objVars, cacheVars, faults, edits>>

continue(step, err) ==
  /\ pc' = step
  /\ failed' = (failed \/ err)
  /\ UNCHANGED <<queue, inst, instFresh>>

\* A mutant of return: a failed request is not tried again.
returnForget(err) ==
  /\ pc' = "idle"
  /\ inst' = Absent
  /\ instFresh' = FALSE
  /\ failed' = FALSE
  /\ UNCHANGED queue

\* Reconcile returns; after an error the request is queued again (with a
\* back-off, which only delays it).
return(err) ==
  /\ pc' = "idle"
  /\ inst' = Absent
  /\ instFresh' = FALSE
  /\ failed' = FALSE
  /\ queue' = IF err THEN queue \cup {inst.name} ELSE queue

\* Is the object controlled by somebody else (AlreadyOwnedError)?  Owners
\* are compared by name, not by UID.
alreadyOwned(o) == o.owner # Absent /\ o.owner.name # inst.name

\* The content of an object after the patch "cached -> wanted": only what
\* differs in the cached object is sent, so an edit the cache has not seen
\* may survive in part.
patchedData(current, cached, wanted) ==
  CASE cached = wanted -> {current}
    [] cached # wanted /\ current \in {cached, wanted} -> {wanted}
    [] OTHER -> {wanted, Drifted}

patched(k, data) ==
  LET own == IF objCache[k].owner = controllerRef(inst) THEN obj[k].owner ELSE controllerRef(inst)
  IN  [obj[k] EXCEPT !.owner = own, !.data = data]

result(value, err, sent) == [val |-> value, err |-> err, sent |-> sent]

\* What controllerutil.CreateOrPatch can do with the object k: its value
\* after the call, whether the call failed, and whether a request was sent.
\* A patch without a difference is skipped or, when the server's defaults
\* show up as one, sent.
createOrPatchResults(k) ==
  LET current == /\ objCache[k].owner = controllerRef(inst)
                 /\ objCache[k].data = desired(k, inst.spec)
  IN  IF objCache[k] = Absent
        THEN IF obj[k] = Absent THEN {result(newObject(k, inst), FALSE, TRUE)}
                                ELSE {result(obj[k], TRUE, TRUE)}
      ELSE IF alreadyOwned(objCache[k]) THEN {result(obj[k], TRUE, FALSE)}
      ELSE IF obj[k] = Absent
        THEN {result(Absent, TRUE, TRUE)} \cup (IF current THEN {result(Absent, FALSE, FALSE)} ELSE {})
      ELSE {result(patched(k, d), FALSE, TRUE) :
              d \in patchedData(obj[k].data, objCache[k].data, desired(k, inst.spec))}

createOrPatch(k, step, stepOnError) ==
  \E o \in Outcome, r \in createOrPatchResults(k) :
    /\ mayFail(o)
    /\ o # "ok" => r.sent /\ ~r.err
    /\ charge(o)
    /\ writeObject(k, IF o = "rejected" THEN obj[k] ELSE r.val)
    /\ IF r.err \/ o # "ok" THEN continue(stepOnError, TRUE) ELSE continue(step, FALSE)
    /\ UNCHANGED <<crVars, cacheVars, edits>>

handleMaster ==
  /\ pc = "handleMaster"
  /\ createOrPatch("masterDep", "handleWorkerCM", "handleWorkerCM")

\* handleWorker: the DaemonSet is left alone if the ConfigMap failed.
handleWorkerCM ==
  /\ pc = "handleWorkerCM"
  /\ createOrPatch("workerCM", "handleWorkerDS", "handleTopology")

handleWorkerDS ==
  /\ pc = "handleWorkerDS"
  /\ createOrPatch("workerDS", "handleTopology", "handleTopology")

handleTopology ==
  /\ pc = "handleTopology"
  /\ IF inst.spec.topologyUpdater
       THEN createOrPatch("topologyDS", "handleGC", "handleGC")
       ELSE /\ continue("handleGC", FALSE)
            /\ UNCHANGED <<crVars, objVars, cacheVars, faults, edits>>

handleGC ==
  /\ pc = "handleGC"
  /\ createOrPatch("gcDep", "handleStatus", "handleStatus")

\* The conditions of the cached objects; the merge patch carries no resource
\* version, so it applies to whatever the CR has become.
handleStatus ==
  /\ pc = "handleStatus"
  /\ LET new == conditionsOf(objCache, inst.spec)
         n == inst.name
     IN  IF AreConditionsEqual(inst.conditions, new)
           THEN return(failed) /\ UNCHANGED <<crVars, faults>>
           ELSE \E o \in Outcome :
                  /\ mayFail(o)
                  /\ charge(o)
                  /\ return(failed \/ o # "ok" \/ cr[n] = Absent)
                  /\ IF o = "rejected" \/ cr[n] = Absent
                       THEN UNCHANGED crVars
                       ELSE writeCR(n, [cr[n] EXCEPT !.conditions = new]) /\ UNCHANGED nextUid
  /\ UNCHANGED <<objVars, cacheVars, edits>>

\* A mutant of updateAccepted: an update without optimistic locking.
updateBlindly == cr[inst.name] # Absent

\* client.Update is refused (Conflict, NotFound) unless the copy still is
\* the current version of the CR.
updateAccepted == instFresh

\* Update of the CR to the value new, after which Reconcile returns.
updateCR(new) ==
  \E o \in Outcome :
    /\ mayFail(o)
    /\ o # "ok" => updateAccepted
    /\ charge(o)
    /\ return(o # "ok" \/ ~updateAccepted)
    /\ IF updateAccepted /\ o # "rejected" THEN writeCR(inst.name, new) ELSE UNCHANGED <<cr, crFresh>>

setFinalizer ==
  /\ pc = "setFinalizer"
  /\ updateCR([inst EXCEPT !.finalizer = TRUE])
  /\ UNCHANGED <<nextUid, objVars, cacheVars, edits>>

-----------------------------------------------------------------------------
(* Finalization *)

\* A mutant of deleteObject: finalization goes on after a failed deletion.
deleteAndGoOn(k, step) ==
  \E o \in Outcome :
    /\ mayFail(o)
    /\ charge(o)
    /\ writeObject(k, IF o = "rejected" THEN obj[k] ELSE Absent)
    /\ continue(step, FALSE)
    /\ UNCHANGED <<crVars, cacheVars, edits>>

\* DeleteDaemonSet, DeleteDeployment, DeleteConfigMap: by name, whoever owns
\* the object; not finding it is fine, any other error ends finalization.
deleteObject(k, step) ==
  \E o \in Outcome :
    /\ mayFail(o)
    /\ charge(o)
    /\ writeObject(k, IF o = "rejected" THEN obj[k] ELSE Absent)
    /\ IF o = "ok" THEN continue(step, FALSE) ELSE return(TRUE)
    /\ UNCHANGED <<crVars, cacheVars, edits>>

deleteWorkerDS ==
  /\ pc = "deleteWorkerDS"
  /\ deleteObject("workerDS", "deleteWorkerCM")

deleteWorkerCM ==
  /\ pc = "deleteWorkerCM"
  /\ deleteObject("workerCM", IF inst.spec.topologyUpdater THEN "deleteTopologyDS" ELSE "deleteMaster")

\* A mutant of deleteTopologyDS: finalizeComponents forgets the topology updater.
keepTopologyDS ==
  /\ pc = "deleteTopologyDS"
  /\ continue("deleteMaster", FALSE)
  /\ UNCHANGED <<crVars, objVars, cacheVars, faults, edits>>

deleteTopologyDS ==
  /\ pc = "deleteTopologyDS"
  /\ deleteObject("topologyDS", "deleteMaster")

deleteMaster ==
  /\ pc = "deleteMaster"
  /\ deleteObject("masterDep", "deleteGC")

\* A mutant of deleteGC: finalizeComponents forgets the garbage collector.
keepGC ==
  /\ pc = "deleteGC"
  /\ continue("handlePrune", FALSE)
  /\ UNCHANGED <<crVars, objVars, cacheVars, faults, edits>>

deleteGC ==
  /\ pc = "deleteGC"
  /\ deleteObject("gcDep", "handlePrune")

finalizeComponents ==
  \/ deleteWorkerDS
  \/ deleteWorkerCM
  \/ deleteTopologyDS
  \/ deleteMaster
  \/ deleteGC

createPruneJob ==
  \E o \in Outcome :
    /\ mayFail(o)
    /\ o # "ok" => obj["pruneJob"] = Absent
    /\ charge(o)
    /\ writeObject("pruneJob", IF obj["pruneJob"] = Absent /\ o # "rejected"
                                 THEN newObject("pruneJob", inst) ELSE obj["pruneJob"])
    /\ return(o # "ok" \/ obj["pruneJob"] # Absent)

\* A mutant of pruneVerdict: a job that was only started counts as done.
pruneStarted(job) == [done |-> TRUE, err |-> job.status.failed > 0]

pruneVerdict(job) == [done |-> job.status.succeeded > 0, err |-> job.status.failed > 0]

handlePrune ==
  /\ pc = "handlePrune"
  /\ LET job == objCache["pruneJob"] IN
     IF ~inst.spec.pruneOnDelete
       THEN continue("removeFinalizer", FALSE) /\ UNCHANGED <<objVars, faults>>
     ELSE IF job = Absent THEN createPruneJob
     ELSE /\ IF pruneVerdict(job).done /\ ~pruneVerdict(job).err
               THEN continue("removeFinalizer", FALSE)
               ELSE return(pruneVerdict(job).err)
          /\ UNCHANGED <<objVars, faults>>
  /\ UNCHANGED <<crVars, cacheVars, edits>>

\* The CR a finalizer was removed from: gone if it was the last one.
released(c) == IF c.held THEN [c EXCEPT !.finalizer = FALSE] ELSE Absent

removeFinalizer ==
  /\ pc = "removeFinalizer"
  /\ IF inst.finalizer
       THEN updateCR(released(inst))
       ELSE return(FALSE) /\ UNCHANGED <<cr, crFresh, faults>>
  /\ UNCHANGED <<nextUid, objVars, cacheVars, edits>>

\* The operator process stops at any point and is started again: the
\* informers list the cluster anew and every CR found is queued.
Restart ==
  /\ faults < MaxFaults
  /\ faults' = faults + 1
  /\ pc' = "idle" /\ inst' = Absent /\ instFresh' = FALSE /\ failed' = FALSE
  /\ crCache' = cr /\ objCache' = obj
  /\ crFresh' = [n \in Names |-> TRUE]
  /\ notify' = [i \in Informers |-> {}]
  /\ queue' = {n \in Names : cr[n] # Absent}
  /\ UNCHANGED <<cr, nextUid, obj, pruned, edits>>

Operator ==
  \/ \E n \in Names : Reconcile(n)
  \/ setFinalizer
  \/ handleMaster \/ handleWorkerCM \/ handleWorkerDS \/ handleTopology \/ handleGC
  \/ handleStatus
  \/ finalizeComponents \/ handlePrune \/ removeFinalizer

-----------------------------------------------------------------------------
(* Users and the cluster's own controllers *)

\* A bounded number of changes of the selected sorts.
mayEdit(sort) ==
  /\ sort \in Edits
  /\ edits < MaxEdits
  /\ edits' = edits + 1

\* The running Reconcile's copy of n is no longer the current version.
outdate(n) == instFresh' = (instFresh /\ inst.name # n)

CreateCR(n, spec, held) ==
  /\ cr[n] = Absent
  /\ nextUid <= MaxUid
  /\ writeCR(n, [name |-> n, uid |-> nextUid, spec |-> spec, finalizer |-> FALSE, held |-> held,
                 deleting |-> FALSE, conditions |-> {}])
  /\ nextUid' = nextUid + 1
  /\ outdate(n)
  /\ UNCHANGED <<objVars, cacheVars, queue, pc, inst, failed, faults, edits>>

UpdateSpec(n, spec) ==
  /\ cr[n] # Absent
  /\ cr[n].spec # spec
  /\ mayEdit("spec")
  /\ writeCR(n, [cr[n] EXCEPT !.spec = spec])
  /\ outdate(n)
  /\ UNCHANGED <<nextUid, objVars, cacheVars, queue, pc, inst, failed, faults>>

\* Deletion is immediate without finalizers, otherwise only requested.
DeleteCR(n) ==
  /\ cr[n] # Absent
  /\ ~cr[n].deleting
  /\ writeCR(n, IF cr[n].finalizer \/ cr[n].held THEN [cr[n] EXCEPT !.deleting = TRUE] ELSE Absent)
  /\ outdate(n)
  /\ UNCHANGED <<nextUid, objVars, cacheVars, queue, pc, inst, failed, faults, edits>>

\* Another party adds a finalizer, which the API server allows until the CR
\* is deleted ...
HoldCR(n) ==
  /\ cr[n] # Absent
  /\ ~cr[n].deleting
  /\ ~cr[n].held
  /\ mayEdit("hold")
  /\ writeCR(n, [cr[n] EXCEPT !.held = TRUE])
  /\ outdate(n)
  /\ UNCHANGED <<nextUid, objVars, cacheVars, queue, pc, inst, failed, faults>>

\* ... and removes it.
ReleaseCR(n) ==
  /\ cr[n] # Absent
  /\ cr[n].held
  /\ writeCR(n, IF cr[n].deleting /\ ~cr[n].finalizer THEN Absent ELSE [cr[n] EXCEPT !.held = FALSE])
  /\ outdate(n)
  /\ UNCHANGED <<nextUid, objVars, cacheVars, queue, pc, inst, failed, faults, edits>>

untouchedByOthers == <<crVars, cacheVars, recVars, faults>>

\* Somebody edits a component: its content, or its owner references.
EditContent(k) ==
  /\ obj[k] # Absent
  /\ obj[k].data # Drifted
  /\ mayEdit("content")
  /\ writeObject(k, [obj[k] EXCEPT !.data = Drifted])
  /\ UNCHANGED untouchedByOthers

RemoveOwner(k) ==
  /\ obj[k] # Absent
  /\ obj[k].owner # Absent
  /\ mayEdit("owner")
  /\ writeObject(k, [obj[k] EXCEPT !.owner = Absent])
  /\ UNCHANGED untouchedByOthers

\* Somebody deletes an object of the operator.
DeleteObject(k) ==
  /\ obj[k] # Absent
  /\ mayEdit("delete")
  /\ writeObject(k, Absent)
  /\ UNCHANGED untouchedByOthers

reportable(k) == IF k \in DaemonSets THEN DaemonSetStatuses ELSE DeploymentStatuses

\* A workload controller takes note of a new object (observedGeneration) ...
ObserveWorkload(k, st) ==
  /\ obj[k] # Absent
  /\ ~obj[k].observed
  /\ writeObject(k, [obj[k] EXCEPT !.status = st, !.observed = TRUE])
  /\ UNCHANGED <<untouchedByOthers, edits>>

\* ... and reports how its pods are doing.
ReportStatus(k, st) ==
  /\ obj[k] # Absent
  /\ obj[k].observed
  /\ obj[k].status # st
  /\ mayEdit("status")
  /\ writeObject(k, [obj[k] EXCEPT !.status = st])
  /\ UNCHANGED untouchedByOthers

\* The Job controller: completions is 1, a failed pod (restartPolicy Never)
\* is counted and replaced by a new one.
PodSucceeds ==
  /\ obj["pruneJob"] # Absent
  /\ obj["pruneJob"].status.succeeded = 0
  /\ writeObject("pruneJob", [obj["pruneJob"] EXCEPT !.status.succeeded = 1])
  /\ UNCHANGED <<untouchedByOthers, edits>>

PodFails ==
  /\ obj["pruneJob"] # Absent
  /\ obj["pruneJob"].status.succeeded = 0
  /\ obj["pruneJob"].status.failed < MaxPodFailures
  /\ writeObject("pruneJob", [obj["pruneJob"] EXCEPT !.status.failed = @ + 1])
  /\ UNCHANGED <<untouchedByOthers, edits>>

\* The cluster's garbage collector removes an object whose owner is gone.
CollectGarbage(k) ==
  /\ obj[k] # Absent
  /\ obj[k].owner # Absent
  /\ ~live(obj[k].owner)
  /\ writeObject(k, Absent)
  /\ UNCHANGED <<untouchedByOthers, edits>>

Users ==
  \/ \E n \in Names :
       \/ \E s \in Specs, h \in HeldChoices : CreateCR(n, s, h)
       \/ \E s \in Specs : UpdateSpec(n, s)
       \/ DeleteCR(n)
       \/ HoldCR(n)
       \/ ReleaseCR(n)
  \/ \E k \in Components : EditContent(k) \/ RemoveOwner(k)
  \/ \E k \in Kinds : DeleteObject(k)

Cluster ==
  \/ \E k \in Workloads : \E st \in reportable(k) : ObserveWorkload(k, st) \/ ReportStatus(k, st)
  \/ PodSucceeds
  \/ PodFails
  \/ \E k \in Kinds : CollectGarbage(k)

Watches == \E g \in SyncGroups : Sync(g)

Init ==
  /\ cr = [n \in Names |-> Absent]
  /\ obj = [k \in Kinds |-> Absent]
  /\ crCache = cr
  /\ crFresh = [n \in Names |-> TRUE]
  /\ objCache = obj
  /\ notify = [i \in Informers |-> {}]
  /\ queue = {}
  /\ pc = "idle"
  /\ inst = Absent
  /\ instFresh = FALSE
  /\ failed = FALSE
  /\ nextUid = 1
  /\ faults = 0
  /\ edits = 0
  /\ pruned = {}

Next == Operator \/ Restart \/ Watches \/ Users \/ Cluster

Spec == Init /\ [][Next]_vars

\* The operator's process runs: a started Reconcile goes on, and the work
\* queue is first-in first-out, so that no request is passed over for ever.
\* Informers deliver, and the cluster's controllers do their work.  Users
\* owe nothing.
Fairness ==
  /\ WF_vars(pc # "idle" /\ Operator)
  /\ \A n \in Names : SF_vars(Reconcile(n))
  /\ \A g \in SyncGroups : WF_vars(Sync(g))
  /\ \A k \in Workloads : WF_vars(\E st \in reportable(k) : ObserveWorkload(k, st))
  /\ \A k \in Kinds : WF_vars(CollectGarbage(k))
  /\ WF_vars(PodSucceeds)

FairSpec == Spec /\ Fairness
-----------------------------------------------------------------------------
(* Properties *)

applySteps ==
  {"handleMaster", "handleWorkerCM", "handleWorkerDS", "handleTopology", "handleGC", "handleStatus"}
teardownSteps ==
  {"deleteWorkerDS", "deleteWorkerCM", "deleteTopologyDS", "deleteMaster", "deleteGC",
   "handlePrune", "removeFinalizer"}

TypeCR ==
  /\ cr \in [Names -> NodeFeatureDiscovery \cup {Absent}]
  /\ crCache \in [Names -> NodeFeatureDiscovery \cup {Absent}]
  /\ \A n \in Names : /\ cr[n] # Absent => cr[n].name = n
                      /\ crCache[n] # Absent => crCache[n].name = n
  /\ crFresh \in [Names -> BOOLEAN]

TypeObj ==
  /\ obj = [k \in Kinds |-> obj[k]]
  /\ \A k \in Kinds : obj[k] \in Object(k) \cup {Absent}
  /\ obj["pruneJob"] # Absent => obj["pruneJob"].owner # Absent
  /\ notify \in [Informers -> SUBSET Names]
  /\ pruned \subseteq Nat

TypeObjCache ==
  /\ objCache = [k \in Kinds |-> objCache[k]]
  /\ \A k \in Kinds : objCache[k] \in Object(k) \cup {Absent}

TypeRec ==
  /\ queue \subseteq Names
  /\ pc \in {"idle", "setFinalizer"} \cup applySteps \cup teardownSteps
  /\ inst \in NodeFeatureDiscovery \cup {Absent}
  /\ (pc = "idle") <=> (inst = Absent)
  /\ instFresh \in BOOLEAN
  /\ failed \in BOOLEAN

TypeCount == nextUid \in Nat /\ faults \in Nat /\ edits \in Nat

\* The variables of the reconciler, the caches and the cluster keep their
\* types; an object names its owner by name and UID.
TypeOK == TypeCR /\ TypeObj /\ TypeObjCache /\ TypeRec /\ TypeCount

owned(k, c) == obj[k] # Absent /\ obj[k].owner = controllerRef(c)

\* The components a CR is promised the teardown of: all of them while its spec
\* stays as it is, else all but the topology updater, which is deleted only
\* for a copy of the CR that asks for it and so outlives being switched off.
coreComponents == IF "spec" \in Edits THEN Components \ {"topologyDS"} ELSE Components

\* Nothing is deployed for a CR that could vanish without the operator
\* noticing: when an object belongs to an existing CR, that CR carries the
\* operator's finalizer, or its deletion is under way.  The steps that
\* deploy work on a copy of the CR, possibly outdated.
FinalizerGuard ==
  \A n \in Names, k \in Kinds :
    cr[n] # Absent /\ owned(k, cr[n]) => cr[n].finalizer \/ cr[n].deleting

\* The prune job of a CR runs only after its components were torn down
\* (finalizeComponents before handlePrune), and nothing brings them back:
\* neither an outdated copy of the CR, nor a request that failed halfway.
TeardownBeforePrune ==
  \A n \in Names :
    cr[n] # Absent /\ owned("pruneJob", cr[n]) =>
      /\ cr[n].deleting
      /\ \A k \in coreComponents : ~owned(k, cr[n])

letGo(n) ==
  /\ cr[n] # Absent /\ cr[n].finalizer
  /\ cr'[n] = Absent \/ cr'[n].uid # cr[n].uid \/ ~cr'[n].finalizer

\* The operator lets go of a CR only when it is being deleted and nothing
\* the CR owns is left but a prune job, in spite of requests that fail and of
\* edits and new finalizers that arrive while it works on an older copy.
TornDownBeforeRelease ==
  [][\A n \in Names :
       letGo(n) => cr[n].deleting /\ \A k \in coreComponents : ~owned(k, cr[n])]_vars

\* The operator lets go of a CR that asks for pruning only after a prune job
\* of that very CR has succeeded, whatever was edited meanwhile.
PrunedBeforeRelease ==
  [][\A n \in Names : letGo(n) /\ cr[n].spec.pruneOnDelete => cr[n].uid \in pruned]_vars

\* The operator writes its whole copy of the CR back, or conditions computed
\* from one, and yet nothing others have written in the meantime is lost: of a
\* CR that exists it changes the finalizer and the conditions only, and one it
\* removes is being deleted and held by nobody else.
EditsSurvive ==
  [][Operator =>
       \A n \in Names :
         cr'[n] # cr[n] =>
           /\ cr[n] # Absent
           /\ IF cr'[n] = Absent
                THEN cr[n].deleting /\ ~cr[n].held
                ELSE cr'[n] = [cr[n] EXCEPT !.finalizer = cr'[n].finalizer,
                                            !.conditions = cr'[n].conditions]]_vars

\* Nothing is left to do: no request is queued or running, no event is under
\* way and every workload has been noticed by its controller.
Quiet ==
  /\ pc = "idle" /\ queue = {}
  /\ \A i \in Informers : ~behind(i)
  /\ \A k \in Workloads : obj[k] # Absent => obj[k].observed

required(k, spec) == k = "topologyDS" => spec.topologyUpdater

asDesired(k, c) == owned(k, c) /\ obj[k].data = desired(k, c.spec)

applied(n) ==
  /\ cr[n] # Absent /\ cr[n].finalizer
  /\ \A k \in Components : required(k, cr[n].spec) => asDesired(k, cr[n])

\* No event, failure or crash is forgotten: once all is quiet, a CR has the
\* finalizer, the components it asks for are there as it wants them, and its
\* conditions are those of the workloads as they are.
QuietMeansApplied ==
  Quiet =>
    \A n \in Names :
      cr[n] # Absent /\ ~cr[n].deleting =>
        /\ applied(n)
        /\ AreConditionsEqual(cr[n].conditions, conditionsOf(obj, cr[n].spec))

\* Nor is the deletion of a CR: while it keeps the operator's finalizer and
\* nothing else is going on, there is an unfinished prune job whose end will
\* queue this CR ("reconcile will be called again when prune job has been
\* completed").
QuietMeansPruning ==
  Quiet =>
    \A n \in Names :
      cr[n] # Absent /\ cr[n].deleting /\ cr[n].finalizer =>
        /\ cr[n].spec.pruneOnDelete
        /\ ownerName(obj["pruneJob"]) = {n}
        /\ obj["pruneJob"].status = zeroStatus("pruneJob")

\* Whoever else is in the namespace, no CR is left alone: once all is quiet,
\* one that is not deleted is guarded by the finalizer, and one that is
\* deleted keeps it only if it asks for pruning.
QuietMeansHandled ==
  Quiet =>
    \A n \in Names :
      cr[n] # Absent =>
        IF cr[n].deleting THEN cr[n].finalizer => cr[n].spec.pruneOnDelete ELSE cr[n].finalizer

\* A deleted CR is let go of: the operator's finalizer does not stay for ever.
DeletedGoes ==
  \A n \in Names :
    (cr[n] # Absent /\ cr[n].deleting) ~> (cr[n] = Absent \/ ~cr[n].finalizer)

alone(n) == \A m \in Names : IF m = n THEN cr[m] # Absent /\ ~cr[m].deleting ELSE cr[m] = Absent

\* A CR that is the only one left gets all it asks for, even if until then
\* the objects belonged to another CR, or to an earlier one of its name, and
\* every attempt to take them over was refused.
SurvivorIsServed == \A n \in Names : <>[]alone(n) => <>[]applied(n)

\* When users leave the cluster alone the operator comes to rest: writing
\* the status does not trigger the next write for ever.
Settles == <>[](pc = "idle" /\ queue = {})

\* Once the prune job of a deleted CR has succeeded, the CR is let go of.
PruneJobReleases ==
  \A n \in Names :
    (cr[n] # Absent /\ cr[n].deleting /\ cr[n].uid \in pruned)
       ~> (cr[n] = Absent \/ ~cr[n].finalizer)
-----------------------------------------------------------------------------
(* The inductive invariant behind FinalizerGuard, TeardownBeforePrune and   *)
(* TornDownBeforeRelease                                                    *)

sameCR(c, d) == c # Absent /\ d # Absent /\ c.name = d.name /\ c.uid = d.uid

\* UIDs are never used twice.
UidsUsed ==
  /\ \A n \in Names : /\ cr[n] # Absent => cr[n].uid < nextUid
                      /\ crCache[n] # Absent => crCache[n].uid < nextUid
  /\ inst # Absent => inst.uid < nextUid
  /\ \A k \in Kinds : obj[k] # Absent /\ obj[k].owner # Absent => obj[k].owner.uid < nextUid

\* A copy that is marked fresh is the CR itself.
FreshCopies ==
  /\ \A n \in Names : crFresh[n] => crCache[n] = cr[n]
  /\ instFresh => inst # Absent /\ cr[inst.name] = inst

\* The CR a copy c was taken from has kept the operator's finalizer, if the
\* copy has it and knows of no deletion.
kept(c) ==
  c # Absent /\ c.finalizer /\ ~c.deleting => sameCR(c, cr[c.name]) /\ cr[c.name].finalizer

\* The copy d is younger than c: a deletion c knows of, d knows of.
knows(c, d) == sameCR(c, d) /\ c.deleting => d.deleting

CopiesAgree ==
  /\ kept(inst)
  /\ inst # Absent => knows(inst, crCache[inst.name]) /\ knows(inst, cr[inst.name])
  /\ \A n \in Names : kept(crCache[n]) /\ knows(crCache[n], cr[n])

\* The branch of Reconcile that is running fits the copy it works on.
BranchFits ==
  /\ pc = "setFinalizer" => ~inst.deleting /\ ~inst.finalizer
  /\ pc \in applySteps => ~inst.deleting /\ inst.finalizer
  /\ pc \in teardownSteps => inst.deleting

\* The steps of finalizeComponents that come after the deletion of k, if k has
\* to be deleted at all.
stepsAfter(k) ==
  CASE k = "workerDS"  -> teardownSteps \ {"deleteWorkerDS"}
    [] k = "workerCM"  -> teardownSteps \ {"deleteWorkerDS", "deleteWorkerCM"}
    [] k = "masterDep" -> {"deleteGC", "handlePrune", "removeFinalizer"}
    [] k = "gcDep"     -> {"handlePrune", "removeFinalizer"}
    [] k = "topologyDS" /\ k \in coreComponents
                       -> {"deleteMaster", "deleteGC", "handlePrune", "removeFinalizer"}
    [] OTHER           -> {}

\* What finalizeComponents has deleted stays deleted.
TeardownProgress ==
  \A k \in Kinds : pc \in stepsAfter(k) => ~owned(k, inst)

\* Whoever holds a copy of the CR a prune job belongs to knows that the CR is
\* being deleted, and the components of that CR are gone.
JobAfterTeardown ==
  obj["pruneJob"] # Absent =>
    LET own == obj["pruneJob"].owner IN
    /\ \A n \in Names : /\ cr[n] # Absent /\ controllerRef(cr[n]) = own => cr[n].deleting
                        /\ crCache[n] # Absent /\ controllerRef(crCache[n]) = own => crCache[n].deleting
    /\ inst # Absent /\ controllerRef(inst) = own => inst.deleting
    /\ \A k \in coreComponents : obj[k] # Absent => obj[k].owner # own

\* While specs are not edited, all copies of a CR have the same one, and the
\* topology updater belongs only to a CR that asks for it.
agree(c, d) == sameCR(c, d) => c.spec = d.spec
wantsTopology(c) == c # Absent /\ owned("topologyDS", c) => c.spec.topologyUpdater

SpecsAgree ==
  "spec" \notin Edits =>
    /\ inst # Absent => agree(inst, crCache[inst.name]) /\ agree(inst, cr[inst.name])
    /\ \A n \in Names : agree(crCache[n], cr[n]) /\ wantsTopology(crCache[n]) /\ wantsTopology(cr[n])
    /\ wantsTopology(inst)

\* No step works on an outdated copy in a way that outlives the copy: the
\* conjunction that the steps of the specification preserve.
Inv ==
  /\ TypeOK
  /\ UidsUsed
  /\ FreshCopies
  /\ CopiesAgree
  /\ BranchFits
  /\ FinalizerGuard
  /\ TeardownProgress
  /\ JobAfterTeardown
  /\ SpecsAgree

\* UIDs are counted from one.
UidsCounted ==
  /\ nextUid \in 1 .. MaxUid + 1
  /\ \A n \in Names : /\ cr[n] # Absent => cr[n].uid > 0
                      /\ crCache[n] # Absent => crCache[n].uid > 0
  /\ inst # Absent => inst.uid > 0
  /\ obj["pruneJob"] # Absent => obj["pruneJob"].owner.uid > 0

\* What the proof of PrunedBeforeRelease needs of the history: a success the
\* operator sees in its cache, or has acted on when it is about to remove the
\* finalizer, is one of a job that was there.
SuccessRecorded ==
  /\ pruned \subseteq 1 .. nextUid - 1
  /\ \A job \in {obj["pruneJob"], objCache["pruneJob"]} :
       job # Absent /\ job.status.succeeded > 0 => job.owner.uid \in pruned
  /\ pc = "removeFinalizer" /\ inst.spec.pruneOnDelete => pruned # {}
-----------------------------------------------------------------------------
(* The inductive invariants behind the Quiet properties: whatever is not as *)
(* it should be, somebody will come back to it.                             *)

\* The CR n is queued, or an event under way will queue it.
due(n) ==
  \/ n \in queue
  \/ ~crFresh[n]
  \/ \E k \in Kinds : n \in notify[informerOf(k)]

\* Reconcile is at work on the present version of the CR n.
serving(n) == pc # "idle" /\ inst.name = n /\ instFresh

\* The steps at which the handler of the component k is yet to come.
ahead(k) ==
  CASE k = "masterDep"  -> {"setFinalizer", "handleMaster"}
    [] k = "workerCM"   -> {"setFinalizer", "handleMaster", "handleWorkerCM"}
    [] k = "workerDS"   -> {"setFinalizer", "handleMaster", "handleWorkerCM", "handleWorkerDS"}
    [] k = "topologyDS" -> {"setFinalizer"} \cup (applySteps \ {"handleGC", "handleStatus"})
    [] k = "gcDep"      -> {"setFinalizer"} \cup (applySteps \ {"handleStatus"})

handledOrDue(n) ==
  cr[n] # Absent =>
    \/ due(n)
    \/ serving(n)
    \/ IF cr[n].deleting THEN cr[n].finalizer => cr[n].spec.pruneOnDelete ELSE cr[n].finalizer

\* A component is as the CR wants it, or its handler is still to come or has failed.
appliedOrDue(n) ==
  cr[n] # Absent /\ ~cr[n].deleting =>
    \A k \in Components :
      required(k, cr[n].spec) =>
        \/ due(n)
        \/ serving(n) /\ (failed \/ pc \in ahead(k))
        \/ asDesired(k, cr[n])

\* The conditions are those of the cached workloads, unless a controller will
\* note a new workload, which queues the CR.
reportedOrDue(n) ==
  cr[n] # Absent /\ ~cr[n].deleting =>
    \/ due(n)
    \/ serving(n)
    \/ AreConditionsEqual(cr[n].conditions, conditionsOf(objCache, cr[n].spec))
    \/ \E k \in Workloads : required(k, cr[n].spec) /\ obj[k] # Absent /\ ~obj[k].observed

\* The end of the prune job a deleted CR waits for will queue the CR.
pruningOrDue(n) ==
  cr[n] # Absent /\ cr[n].deleting /\ cr[n].finalizer /\ cr[n].spec.pruneOnDelete =>
    \/ due(n)
    \/ serving(n)
    \/ ownerName(obj["pruneJob"]) = {n} /\ obj["pruneJob"].status = zeroStatus("pruneJob")

\* What the informer of k has not seen yet was announced to the owner: any
\* change of an object it holds, and a workload's status even if it holds
\* none, although creations are not announced.
pending(k) ==
  /\ obj[k] # Absent => obj[k].owner # Absent
  /\ objCache[k] # Absent => objCache[k].owner # Absent
  /\ objCache[k] # Absent /\ objCache[k] # obj[k] =>
       objCache[k].owner.name \in notify[informerOf(k)]
  /\ k \in Workloads /\ obj[k] # Absent /\ obj[k].observed /\ objCache[k] # obj[k] =>
       obj[k].owner.name \in notify[informerOf(k)]

EventsPending == \A k \in Kinds : pending(k)

\* No CR is left in a state it should not stay in, whatever is outdated, and
\* whichever requests have failed.
NothingForgotten ==
  /\ EventsPending
  /\ \A n \in Names : handledOrDue(n) /\ appliedOrDue(n) /\ reportedOrDue(n)

PruningRemembered == pending("pruneJob") /\ \A n \in Names : handledOrDue(n) /\ pruningOrDue(n)
-----------------------------------------------------------------------------
(* The refinement of Lifecycle *)

phaseOf(c) ==
  IF c = Absent THEN "absent"
  ELSE IF c.finalizer THEN (IF c.deleting THEN "leaving" ELSE "guarded")
  ELSE (IF c.deleting THEN "released" ELSE "unguarded")

ownedBy(n) == {k \in Kinds : cr[n] # Absent /\ owned(k, cr[n])}

Life == INSTANCE Lifecycle WITH
          Parts <- coreComponents,
          phase <- [n \in Names |-> phaseOf(cr[n])],
          parts <- [n \in Names |-> ownedBy(n) \cap coreComponents],
          pruning <- {n \in Names : "pruneJob" \in ownedBy(n)}

\* The operator keeps the promises of Lifecycle: however requests fail and
\* copies age, each step is one of the abstract ones or none at all.
ImplementsLifecycle == Life!Spec

\* The same for behaviours that start in the middle of a CR's life.
LifecycleSteps == [][Life!Next]_(Life!vars)
=============================================================================
