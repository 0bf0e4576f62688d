----------------------------- MODULE QuietProofs -----------------------------
(***************************************************************************)
(* What Reconciler has achieved when nothing is left to do.  The           *)
(* invariants say of every moment that whatever is not as it should be is  *)
(* being worked on, or that an event or a queued request will bring the    *)
(* operator back to it; in a quiet state only the result remains.          *)
(*                                                                         *)
(* A step is seen by a CR n in one of three ways: Reconcile starts on n,   *)
(* the step leaves the work on n alone, or it is the next step of that     *)
(* work.  Each part of the invariants is proved along these three.         *)
(***************************************************************************)
EXTENDS TeardownProofs

-----------------------------------------------------------------------------
(* Events and requests are not lost *)

\* Every object is watched by an informer of its own kind.
LEMMA KindFacts ==
  /\ Components \subseteq Kinds /\ Workloads \subseteq Components
  /\ "pruneJob" \in Kinds /\ "pruneJob" \notin Components
  /\ {"masterDep", "workerCM", "workerDS", "topologyDS", "gcDep"} = Components
  /\ \A k \in Kinds : informerOf(k) \in Informers /\ informerOf(k) # "NodeFeatureDiscovery"
BY DEF Kinds, Components, Workloads, DaemonSets, Deployments, informerOf, Informers

\* Nothing is taken from the queue or from the undelivered events, and a CR
\* that was written is marked.
Grows ==
  /\ queue \subseteq queue'
  /\ \A i \in Informers : notify[i] \subseteq notify'[i]
  /\ \A n \in Names : crFresh'[n] => crFresh[n] /\ cr'[n] = cr[n]

\* Then a CR that was due still is.
LEMMA GrowsDue ==
  ASSUME Grows, NEW n \in Names, ~due(n)'
  PROVE  ~due(n) /\ cr'[n] = cr[n]
BY KindFacts DEF Grows, due

\* A write only adds to the events.
LEMMA WriteNotifies ==
  ASSUME TypeOK, NEW k \in Kinds, NEW new, writeObject(k, new)
  PROVE  \A i \in Informers : notify[i] \subseteq notify'[i]
BY DEF writeObject, TypeOK, TypeObj

\* Reconcile goes on with the step s, possibly after an error.
goesOn(s) ==
  /\ pc' = s /\ (failed => failed')
  /\ UNCHANGED <<queue, inst, instFresh, cr, crFresh, objCache>>

\* CreateOrPatch adds events, and Reconcile goes on.
LEMMA ApplyGrows ==
  ASSUME TypeOK, NEW k \in Components, NEW s, NEW t, createOrPatch(k, s, t)
  PROVE  Grows /\ \/ goesOn(s)
                  \/ goesOn(t) /\ failed'
<1>1. PICK o \in Outcome, r \in createOrPatchResults(k) :
        /\ writeObject(k, IF o = "rejected" THEN obj[k] ELSE r.val)
        /\ IF r.err \/ o # "ok" THEN continue(t, TRUE) ELSE continue(s, FALSE)
        /\ UNCHANGED <<crVars, cacheVars, edits>>
  BY DEF createOrPatch
<1>2. \A i \in Informers : notify[i] \subseteq notify'[i]
  BY <1>1, KindFacts, WriteNotifies
<1>3. UNCHANGED <<cr, crFresh, objCache>>
  BY <1>1 DEF crVars, cacheVars
<1>4. \/ goesOn(s)
      \/ goesOn(t) /\ failed'
  BY <1>1, <1>3 DEF continue, goesOn
<1>5. UNCHANGED queue
  BY <1>4 DEF goesOn
<1> QED
  BY <1>2, <1>3, <1>4, <1>5 DEF Grows

\* A deletion adds events, and Reconcile goes on or queues its request.
LEMMA DeleteGrows ==
  ASSUME TypeOK, NEW k \in Components, NEW s, deleteObject(k, s)
  PROVE  /\ Grows /\ UNCHANGED objCache
         /\ goesOn(s) \/ inst.name \in queue'
<1>1. PICK o \in Outcome :
        /\ writeObject(k, IF o = "rejected" THEN obj[k] ELSE Absent)
        /\ IF o = "ok" THEN continue(s, FALSE) ELSE return(TRUE)
        /\ UNCHANGED <<crVars, cacheVars, edits>>
  BY DEF deleteObject
<1>2. \A i \in Informers : notify[i] \subseteq notify'[i]
  BY <1>1, KindFacts, WriteNotifies
<1>3. UNCHANGED <<cr, crFresh, objCache>>
  BY <1>1 DEF crVars, cacheVars
<1>4. goesOn(s) \/ (inst.name \in queue' /\ queue \subseteq queue')
  BY <1>1, <1>3 DEF continue, return, goesOn
<1>5. queue \subseteq queue'
  BY <1>4 DEF goesOn
<1> QED
  BY <1>2, <1>3, <1>4, <1>5 DEF Grows

\* An update of the CR marks it as written, or is refused and tried again.
LEMMA UpdateGrows ==
  ASSUME TypeOK, NEW n \in Names, inst.name = n, NEW new, updateCR(new),
         UNCHANGED <<objVars, cacheVars>>
  PROVE  Grows /\ UNCHANGED objCache /\ due(n)'
<1>1. PICK o \in Outcome :
        /\ return(o # "ok" \/ ~updateAccepted)
        /\ IF updateAccepted /\ o # "rejected" THEN writeCR(n, new) ELSE UNCHANGED <<cr, crFresh>>
  BY DEF updateCR
<1>2. UNCHANGED <<notify, objCache>> /\ queue \subseteq queue'
  BY <1>1 DEF objVars, cacheVars, return
<1>3. CASE updateAccepted /\ o # "rejected"
  <2>1. /\ \A m \in Names : m # n => cr'[m] = cr[m] /\ crFresh'[m] = crFresh[m]
        /\ crFresh'[n] = FALSE
    BY <1>1, <1>3 DEF writeCR, TypeOK, TypeCR
  <2> QED
    BY <1>2, <2>1 DEF Grows, due
<1>4. CASE ~(updateAccepted /\ o # "rejected")
  <2>1. n \in queue' /\ UNCHANGED <<cr, crFresh>>
    BY <1>1, <1>4 DEF return
  <2> QED
    BY <1>2, <2>1 DEF Grows, due
<1> QED
  BY <1>3, <1>4

\* The status is written, or the request is tried again, unless the
\* conditions are up to date.
LEMMA StatusGrows ==
  ASSUME TypeOK, NEW n \in Names, inst.name = n, handleStatus
  PROVE  /\ Grows /\ UNCHANGED <<objVars, objCache>>
         /\ \/ due(n)'
            \/ ~failed /\ AreConditionsEqual(inst.conditions, conditionsOf(objCache, inst.spec))
<1> DEFINE new == conditionsOf(objCache, inst.spec)
<1>1. UNCHANGED <<objVars, cacheVars>>
  BY DEF handleStatus
<1>2. UNCHANGED <<notify, objCache>>
  BY <1>1 DEF objVars, cacheVars
<1>3. CASE AreConditionsEqual(inst.conditions, new)
  <2>1. return(failed) /\ UNCHANGED crVars
    BY <1>3 DEF handleStatus
  <2>2. UNCHANGED <<cr, crFresh>> /\ queue \subseteq queue' /\ (failed => n \in queue')
    BY <2>1 DEF return, crVars
  <2> QED
    BY <1>1, <1>2, <1>3, <2>2 DEF Grows, due
<1>4. CASE ~AreConditionsEqual(inst.conditions, new)
  <2>1. PICK o \in Outcome :
          /\ return(failed \/ o # "ok" \/ cr[n] = Absent)
          /\ IF o = "rejected" \/ cr[n] = Absent
               THEN UNCHANGED crVars
               ELSE writeCR(n, [cr[n] EXCEPT !.conditions = new]) /\ UNCHANGED nextUid
    BY <1>4 DEF handleStatus
  <2>2. queue \subseteq queue'
    BY <2>1 DEF return
  <2>3. CASE o = "rejected" \/ cr[n] = Absent
    <3>1. n \in queue' /\ UNCHANGED <<cr, crFresh>>
      BY <2>1, <2>3 DEF return, crVars
    <3> QED
      BY <1>1, <1>2, <2>2, <3>1 DEF Grows, due
  <2>4. CASE ~(o = "rejected" \/ cr[n] = Absent)
    <3>1. writeCR(n, [cr[n] EXCEPT !.conditions = new])
      BY <2>1, <2>4
    <3> HIDE DEF new
    <3>2. /\ \A m \in Names : m # n => cr'[m] = cr[m] /\ crFresh'[m] = crFresh[m]
          /\ crFresh'[n] = FALSE
      BY <3>1 DEF writeCR, TypeOK, TypeCR
    <3> QED
      BY <1>1, <1>2, <2>2, <3>2 DEF Grows, due
  <2> QED
    BY <2>3, <2>4
<1> QED
  BY <1>3, <1>4

\* Reconcile ends at the prune job without a retry only if it has just
\* created the job, or if the job it sees has neither succeeded nor failed.
LEMMA PruneGrows ==
  ASSUME TypeOK, NEW n \in Names, inst.name = n, handlePrune
  PROVE  /\ Grows /\ UNCHANGED objCache
         /\ \/ goesOn("removeFinalizer")
            \/ n \in queue'
            \/ /\ inst.spec.pruneOnDelete
               /\ \/ obj["pruneJob"] = Absent /\ writeObject("pruneJob", newObject("pruneJob", inst))
                  \/ /\ UNCHANGED obj /\ objCache["pruneJob"] # Absent
                     /\ ~pruneVerdict(objCache["pruneJob"]).err
                     /\ ~pruneVerdict(objCache["pruneJob"]).done
<1> DEFINE job == objCache["pruneJob"]
<1>1. UNCHANGED <<cr, crFresh, objCache>>
  BY DEF handlePrune, crVars, cacheVars
<1>2. ASSUME NEW e, UNCHANGED objVars, continue("removeFinalizer", FALSE) \/ return(e)
      PROVE  Grows /\ UNCHANGED obj
  BY <1>1, <1>2 DEF objVars, continue, return, Grows
<1>3. CASE ~inst.spec.pruneOnDelete
  <2>1. continue("removeFinalizer", FALSE) /\ UNCHANGED objVars
    BY <1>3 DEF handlePrune
  <2> QED
    BY <1>1, <1>2, <2>1 DEF continue, goesOn
<1>4. CASE inst.spec.pruneOnDelete /\ job # Absent
  <2>1. /\ UNCHANGED objVars
        /\ IF pruneVerdict(job).done /\ ~pruneVerdict(job).err
             THEN continue("removeFinalizer", FALSE)
             ELSE return(pruneVerdict(job).err)
    BY <1>4 DEF handlePrune
  <2>2. CASE pruneVerdict(job).done /\ ~pruneVerdict(job).err
    BY <1>1, <1>2, <2>1, <2>2 DEF continue, goesOn
  <2>3. CASE ~(pruneVerdict(job).done /\ ~pruneVerdict(job).err)
    <3>1. return(pruneVerdict(job).err)
      BY <2>1, <2>3
    <3>2. pruneVerdict(job).err => n \in queue'
      BY <3>1 DEF return
    <3>3. Grows /\ UNCHANGED obj
      BY <1>2, <2>1, <3>1
    <3> QED
      BY <1>1, <1>4, <2>3, <3>2, <3>3
  <2> QED
    BY <2>2, <2>3
<1>5. CASE inst.spec.pruneOnDelete /\ job = Absent
  <2>1. createPruneJob
    BY <1>5 DEF handlePrune
  <2>2. PICK o \in Outcome :
          /\ writeObject("pruneJob", IF obj["pruneJob"] = Absent /\ o # "rejected"
                                       THEN newObject("pruneJob", inst) ELSE obj["pruneJob"])
          /\ return(o # "ok" \/ obj["pruneJob"] # Absent)
    BY <2>1 DEF createPruneJob
  <2>3. \A i \in Informers : notify[i] \subseteq notify'[i]
    BY <2>2, KindFacts, WriteNotifies
  <2>4. queue \subseteq queue' /\ (o # "ok" \/ obj["pruneJob"] # Absent => n \in queue')
    BY <2>2 DEF return
  <2>5. Grows
    BY <1>1, <2>3, <2>4 DEF Grows
  <2>6. o = "ok" /\ obj["pruneJob"] = Absent => writeObject("pruneJob", newObject("pruneJob", inst))
    BY <2>2
  <2> QED
    BY <1>1, <1>5, <2>4, <2>5, <2>6
<1> QED
  BY <1>3, <1>4, <1>5

\* The part of the operator's state that the others leave alone.
Bystander == UNCHANGED <<pc, inst, failed, queue, crCache, objCache>>

\* Users and controllers announce what they do, and outdate the copy the
\* running Reconcile works on only if they write its CR.
LEMMA OthersGrow ==
  ASSUME TypeOK, Users \/ Cluster
  PROVE  /\ Grows /\ Bystander
         /\ \A n \in Names : instFresh /\ inst.name = n /\ crFresh'[n] => instFresh'
<1>1. ASSUME NEW m \in Names, NEW new, writeCR(m, new), outdate(m),
             UNCHANGED <<objVars, cacheVars, queue, pc, inst, failed>>
      PROVE  /\ Grows /\ Bystander
             /\ \A n \in Names : instFresh /\ inst.name = n /\ crFresh'[n] => instFresh'
  <2>1. /\ \A n \in Names : n # m => cr'[n] = cr[n] /\ crFresh'[n] = crFresh[n]
        /\ crFresh'[m] = FALSE
    BY <1>1 DEF writeCR, TypeOK, TypeCR
  <2> QED
    BY <1>1, <2>1 DEF outdate, Grows, Bystander, objVars, cacheVars
<1>2. ASSUME NEW m \in Names,
             \/ \E s \in Specs, h \in HeldChoices : CreateCR(m, s, h)
             \/ \E s \in Specs : UpdateSpec(m, s)
             \/ DeleteCR(m)
             \/ HoldCR(m)
             \/ ReleaseCR(m)
      PROVE  /\ Grows /\ Bystander
             /\ \A n \in Names : instFresh /\ inst.name = n /\ crFresh'[n] => instFresh'
  <2>1. \E new : writeCR(m, new)
    BY <1>2 DEF CreateCR, UpdateSpec, DeleteCR, HoldCR, ReleaseCR
  <2>2. outdate(m) /\ UNCHANGED <<objVars, cacheVars, queue, pc, inst, failed>>
    BY <1>2 DEF CreateCR, UpdateSpec, DeleteCR, HoldCR, ReleaseCR
  <2> QED
    BY <1>1, <2>1, <2>2
<1>3. ASSUME foreignSteps
      PROVE  /\ Grows /\ Bystander
             /\ \A n \in Names : instFresh /\ inst.name = n /\ crFresh'[n] => instFresh'
  <2>1. PICK k \in Kinds : \E new : writeObject(k, new)
    BY <1>3, KindFacts DEF foreignSteps, EditContent, RemoveOwner, DeleteObject, CollectGarbage, ObserveWorkload,
         ReportStatus, PodSucceeds, PodFails
  <2>2. UNCHANGED untouchedByOthers
    BY <1>3 DEF foreignSteps, EditContent, RemoveOwner, DeleteObject, CollectGarbage, ObserveWorkload,
         ReportStatus, PodSucceeds, PodFails
  <2>3. \A i \in Informers : notify[i] \subseteq notify'[i]
    BY <2>1, WriteNotifies
  <2> QED
    BY <2>2, <2>3 DEF untouchedByOthers, crVars, cacheVars, recVars, Grows, Bystander
<1> QED
  BY <1>2, <1>3 DEF Users, Cluster, foreignSteps

\* The informers that catch up queue what they had to announce.
LEMMA SyncDue ==
  ASSUME TypeOK, NEW g \in SyncGroups, Sync(g), NEW n \in Names, ~due(n)'
  PROVE  ~due(n)
<1>1. g \subseteq Informers
  BY BoundAssumption
<1>2. n \notin queue
  BY DEF Sync, due
<1>3. crFresh[n]
  BY DEF Sync, due
<1>4. ASSUME NEW k \in Kinds PROVE n \notin notify[informerOf(k)]
  <2>1. CASE informerOf(k) \in g
    BY <2>1 DEF Sync, due
  <2>2. CASE informerOf(k) \notin g
    <3>1. notify'[informerOf(k)] = notify[informerOf(k)]
      BY <2>2, KindFacts DEF Sync
    <3> QED
      BY <3>1 DEF due
  <2> QED
    BY <2>1, <2>2
<1> QED
  BY <1>2, <1>3, <1>4 DEF due

\* The three ways in which a step concerns a CR n nobody has to come back to
\* for another reason.
Started(n) == serving(n)' /\ pc' = firstStep(cr[n])

Spared(n) == ~due(n) /\ (serving(n) => serving(n)' /\ UNCHANGED <<pc, failed>>)

handlers ==
  \/ setFinalizer
  \/ handleMaster \/ handleWorkerCM \/ handleWorkerDS \/ handleTopology \/ handleGC
  \/ handleStatus
  \/ finalizeComponents \/ handlePrune \/ removeFinalizer

Served(n) == ~due(n) /\ serving(n) /\ inst = cr[n] /\ handlers

\* A handler, whichever CR it works for.
LEMMA HandlersGrow ==
  ASSUME TypeOK, handlers
  PROVE  Grows /\ pc # "idle" /\ inst # Absent /\ UNCHANGED objCache
<1>1. pc # "idle" /\ inst # Absent /\ inst \in NodeFeatureDiscovery /\ inst.name \in Names
  BY DEF handlers, TypeOK, TypeRec, NodeFeatureDiscovery, setFinalizer, handleMaster,
       handleWorkerCM, handleWorkerDS, handleTopology, handleGC, handleStatus, finalizeComponents,
       deleteWorkerDS, deleteWorkerCM, deleteTopologyDS, deleteMaster, deleteGC, handlePrune,
       removeFinalizer
<1>2. CASE handleMaster \/ handleWorkerCM \/ handleWorkerDS \/ handleGC
  BY <1>1, <1>2, KindFacts, ApplyGrows DEF handleMaster, handleWorkerCM, handleWorkerDS, handleGC,
       goesOn
<1>3. CASE handleTopology
  <2>1. CASE inst.spec.topologyUpdater
    BY <1>1, <1>3, <2>1, KindFacts, ApplyGrows DEF handleTopology, goesOn
  <2>2. CASE ~inst.spec.topologyUpdater
    BY <1>1, <1>3, <2>2 DEF handleTopology, continue, crVars, objVars, cacheVars, Grows
  <2> QED
    BY <2>1, <2>2
<1>4. CASE handleStatus
  BY <1>1, <1>4, StatusGrows
<1>5. CASE finalizeComponents
  <2>1. PICK k \in Components : \E s : deleteObject(k, s)
    BY <1>5, KindFacts, Zenon DEF finalizeComponents, deleteWorkerDS, deleteWorkerCM, deleteTopologyDS,
         deleteMaster, deleteGC
  <2> QED
    BY <1>1, <2>1, DeleteGrows
<1>6. CASE handlePrune
  BY <1>1, <1>6, PruneGrows
<1>7. CASE setFinalizer
  BY <1>1, <1>7, UpdateGrows DEF setFinalizer
<1>8. CASE removeFinalizer
  <2>1. CASE inst.finalizer
    BY <1>1, <1>8, <2>1, UpdateGrows DEF removeFinalizer
  <2>2. CASE ~inst.finalizer
    BY <1>1, <1>8, <2>2 DEF removeFinalizer, return, objVars, cacheVars, Grows
  <2> QED
    BY <2>1, <2>2
<1> QED
  BY <1>2, <1>3, <1>4, <1>5, <1>6, <1>7, <1>8 DEF handlers

\* Every step is one of the three for every CR.
LEMMA StepFor ==
  ASSUME TypeOK, FreshCopies, [Next]_vars, NEW n \in Names, cr'[n] # Absent, ~due(n)'
  PROVE  cr'[n] = cr[n] /\ (Started(n) \/ Spared(n) \/ Served(n))
<1>1. ASSUME NEW m \in Names, Reconcile(m) PROVE cr'[n] = cr[n] /\ (Started(n) \/ Spared(n))
  <2>1. pc = "idle" /\ UNCHANGED <<cr, crFresh, notify>> /\ queue' = queue \ {m}
    BY <1>1 DEF Reconcile, crVars, objVars
  <2>2. CASE m = n
    <3>1. crFresh[n] /\ crCache[n] = cr[n]
      BY <2>1 DEF due, FreshCopies
    <3>2. pc' = firstStep(cr[n]) /\ inst' = cr[n] /\ instFresh'
      BY <1>1, <2>1, <2>2, <3>1 DEF Reconcile
    <3>3. cr[n].name = n /\ pc' # "idle"
      BY <2>1, <3>2 DEF TypeOK, TypeCR, firstStep
    <3> QED
      BY <2>1, <3>2, <3>3 DEF Started, serving
  <2>3. CASE m # n
    BY <2>1, <2>3 DEF Spared, serving, due
  <2> QED
    BY <2>2, <2>3
<1>2. CASE handlers
  <2>1. Grows /\ pc # "idle" /\ inst # Absent
    BY <1>2, HandlersGrow
  <2>2. ~due(n) /\ cr'[n] = cr[n]
    BY <2>1, GrowsDue
  <2>3. serving(n) => inst = cr[n]
    BY DEF serving, FreshCopies
  <2> QED
    BY <1>2, <2>2, <2>3 DEF Spared, Served
<1>3. CASE Restart
  BY <1>3 DEF Restart, due
<1>4. ASSUME NEW g \in SyncGroups, Sync(g) PROVE cr'[n] = cr[n] /\ Spared(n)
  <2>1. ~due(n)
    BY <1>4, SyncDue
  <2> QED
    BY <1>4, <2>1 DEF Sync, Spared, serving
<1>5. CASE Users \/ Cluster
  <2>1. /\ Grows /\ Bystander
        /\ instFresh /\ inst.name = n /\ crFresh'[n] => instFresh'
    BY <1>5, OthersGrow
  <2>2. ~due(n) /\ cr'[n] = cr[n]
    BY <2>1, GrowsDue
  <2>3. crFresh'[n]
    BY DEF due
  <2> QED
    BY <2>1, <2>2, <2>3 DEF Spared, serving, Bystander
<1>6. CASE UNCHANGED vars
  BY <1>6 DEF vars, crVars, objVars, recVars, Spared, serving, due
<1> QED
  BY <1>1, <1>2, <1>3, <1>4, <1>5, <1>6 DEF Next, Operator, Watches, handlers

-----------------------------------------------------------------------------
(* What the work on a CR ends with *)

\* The conditions of a CR that is not deleted were found up to date.
Reported(n) ==
  /\ pc = "handleStatus" /\ ~failed
  /\ cr[n].finalizer /\ ~cr[n].deleting
  /\ UNCHANGED <<obj, objCache>>
  /\ AreConditionsEqual(cr[n].conditions, conditionsOf(objCache, cr[n].spec))

\* The prune job of a deleted CR was created, or it is seen to be running.
Waits(n) ==
  /\ cr[n].deleting /\ cr[n].spec.pruneOnDelete
  /\ \/ obj["pruneJob"] = Absent /\ writeObject("pruneJob", newObject("pruneJob", cr[n]))
     \/ /\ UNCHANGED obj /\ objCache["pruneJob"] # Absent
        /\ ~pruneVerdict(objCache["pruneJob"]).err
        /\ ~pruneVerdict(objCache["pruneJob"]).done

\* Unless the CR is to be looked at again, the work goes on or ends in order.
LEMMA ServedOutcome ==
  ASSUME TypeOK, BranchFits, NEW n \in Names, Served(n), ~due(n)'
  PROVE  \/ serving(n)'
         \/ Reported(n)
         \/ Waits(n)
         \/ cr[n].deleting /\ ~cr[n].finalizer
<1>1. inst.name = n /\ inst = cr[n] /\ instFresh /\ pc # "idle" /\ n \notin queue'
  BY DEF Served, serving, due
<1>2. ASSUME NEW s, goesOn(s), s # "idle" PROVE serving(n)'
  BY <1>1, <1>2 DEF goesOn, serving
<1>3. CASE handleMaster \/ handleWorkerCM \/ handleWorkerDS \/ handleGC
  <2>1. PICK k \in Components, s \in applySteps, t \in applySteps : createOrPatch(k, s, t)
    BY <1>3, KindFacts DEF handleMaster, handleWorkerCM, handleWorkerDS, handleGC, applySteps
  <2>2. goesOn(s) \/ goesOn(t)
    BY <2>1, ApplyGrows
  <2> QED
    BY <1>2, <2>2 DEF applySteps
<1>4. CASE handleTopology
  <2>1. CASE inst.spec.topologyUpdater
    BY <1>2, <1>4, <2>1, KindFacts, ApplyGrows DEF handleTopology
  <2>2. CASE ~inst.spec.topologyUpdater
    BY <1>1, <1>4, <2>2 DEF handleTopology, continue, serving
  <2> QED
    BY <2>1, <2>2
<1>5. CASE handleStatus
  <2>1. pc = "handleStatus" /\ inst.finalizer /\ ~inst.deleting
    BY <1>5 DEF handleStatus, BranchFits, applySteps
  <2>2. /\ UNCHANGED <<obj, objCache>>
        /\ ~failed /\ AreConditionsEqual(inst.conditions, conditionsOf(objCache, inst.spec))
    BY <1>1, <1>5, StatusGrows DEF objVars
  <2> QED
    BY <1>1, <2>1, <2>2 DEF Reported
<1>6. CASE finalizeComponents
  <2>1. PICK k \in Components, s \in teardownSteps : deleteObject(k, s)
    BY <1>6, KindFacts DEF finalizeComponents, deleteWorkerDS, deleteWorkerCM, deleteTopologyDS,
         deleteMaster, deleteGC, teardownSteps
  <2>2. goesOn(s)
    BY <1>1, <2>1, DeleteGrows
  <2> QED
    BY <1>2, <2>2 DEF teardownSteps
<1>7. CASE handlePrune
  <2>1. inst.deleting
    BY <1>7 DEF handlePrune, BranchFits, teardownSteps
  <2>2. CASE goesOn("removeFinalizer")
    BY <1>2, <2>2
  <2>3. CASE ~goesOn("removeFinalizer")
    BY <1>1, <1>7, <2>1, <2>3, PruneGrows DEF Waits
  <2> QED
    BY <2>2, <2>3
<1>8. CASE setFinalizer
  BY <1>1, <1>8, UpdateGrows DEF setFinalizer
<1>9. CASE removeFinalizer
  <2>1. inst.deleting
    BY <1>9 DEF removeFinalizer, BranchFits, teardownSteps
  <2>2. ~inst.finalizer
    BY <1>1, <1>9, UpdateGrows DEF removeFinalizer
  <2> QED
    BY <1>1, <2>1, <2>2
<1> QED
  BY <1>3, <1>4, <1>5, <1>6, <1>7, <1>8, <1>9 DEF Served, handlers

-----------------------------------------------------------------------------
(* No CR is left alone *)

\* When the work on a CR ends it is guarded, or it waits for its prune job.
LEMMA HandledStep ==
  ASSUME TypeOK, FreshCopies, BranchFits, [Next]_vars, NEW n \in Names, handledOrDue(n)
  PROVE  handledOrDue(n)'
<1> SUFFICES ASSUME cr'[n] # Absent, ~due(n)', ~serving(n)'
             PROVE  (IF cr[n].deleting THEN cr[n].finalizer => cr[n].spec.pruneOnDelete
                                       ELSE cr[n].finalizer)'
  BY DEF handledOrDue
<1>1. cr'[n] = cr[n] /\ (Spared(n) \/ Served(n))
  BY StepFor DEF Started
<1>2. CASE Spared(n)
  BY <1>1, <1>2 DEF Spared, handledOrDue
<1>3. CASE Served(n)
  <2>1. Reported(n) \/ Waits(n) \/ (cr[n].deleting /\ ~cr[n].finalizer)
    BY <1>3, ServedOutcome
  <2> QED
    BY <1>1, <2>1 DEF Reported, Waits
<1> QED
  BY <1>1, <1>2, <1>3

\* In a quiet state no CR is due and none is being worked on, and the caches
\* are up to date.
LEMMA QuietFacts ==
  ASSUME Quiet, NEW n \in Names
  PROVE  /\ ~due(n) /\ ~serving(n)
         /\ \A k \in Kinds : objCache[k] = obj[k]
         /\ \A k \in Workloads : obj[k] # Absent => obj[k].observed
<1>1. /\ queue = {} /\ pc = "idle"
      /\ \A i \in Informers : ~behind(i)
      /\ \A k \in Workloads : obj[k] # Absent => obj[k].observed
  BY DEF Quiet
<1>2. ~behind("NodeFeatureDiscovery")
  BY <1>1 DEF Informers
<1>3. crFresh[n]
  BY <1>2 DEF behind
<1>4. \A k \in Kinds : notify[informerOf(k)] = {} /\ objCache[k] = obj[k]
  BY <1>1, KindFacts DEF behind
<1> QED
  BY <1>1, <1>3, <1>4 DEF due, serving

\* Whoever edits what, and however many CRs there are: once all is quiet a CR
\* has the operator's finalizer, or is deleted and keeps it for its prune job.
THEOREM QuietMeansHandledCorrect == Spec => []QuietMeansHandled
<1> DEFINE I == \A n \in Names : handledOrDue(n)
<1>1. Init => I
  BY DEF Init, handledOrDue
<1>2. Inv /\ I /\ [Next]_vars => I'
  BY HandledStep DEF Inv
<1>3. I => QuietMeansHandled
  BY QuietFacts DEF handledOrDue, QuietMeansHandled
<1> HIDE DEF I
<1> QED
  BY <1>1, <1>2, <1>3, InvCorrect, PTL DEF Spec

-----------------------------------------------------------------------------
(* What the informers have not seen was announced *)

Named == \A k \in Kinds : obj[k] # Absent => obj[k].owner # Absent

\* A change of an object is announced to its owner, and an object that is
\* new is not observed yet.
announced(k) ==
  obj'[k] # obj[k] =>
    /\ obj[k] # Absent => obj[k].owner.name \in notify'[informerOf(k)]
    /\ obj'[k] # Absent => obj'[k].owner # Absent
    /\ k \in Workloads /\ obj'[k] # Absent /\ obj'[k].observed =>
         obj'[k].owner.name \in notify'[informerOf(k)]

Announced ==
  /\ \A i \in Informers : notify[i] \subseteq notify'[i]
  /\ \A k \in Kinds : announced(k)

\* A write that takes no owner away is announced.
LEMMA WriteAnnounced ==
  ASSUME TypeOK, NEW k \in Kinds, obj[k] # Absent => obj[k].owner # Absent,
         NEW new, writeObject(k, new), new # Absent => new.owner # Absent,
         obj[k] = Absent /\ new # Absent /\ k \in Workloads => ~new.observed
  PROVE  Announced
<1>1. \A j \in Kinds : obj'[j] = IF j = k THEN new ELSE obj[j]
  BY DEF writeObject, TypeOK, TypeObj
<1>2. notify'[informerOf(k)] = notify[informerOf(k)] \cup watchEvents(obj[k], new)
  BY KindFacts DEF writeObject, TypeOK, TypeObj
<1>3. \A i \in Informers : notify[i] \subseteq notify'[i]
  BY WriteNotifies
<1>4. ASSUME obj[k] # Absent, new # obj[k]
      PROVE  /\ obj[k].owner.name \in watchEvents(obj[k], new)
             /\ new # Absent => new.owner.name \in watchEvents(obj[k], new)
  BY <1>4 DEF watchEvents, ownerName
<1> QED
  BY <1>1, <1>2, <1>3, <1>4 DEF Announced, announced

\* A step that leaves the objects alone has nothing to announce.
LEMMA NoneAnnounced ==
  ASSUME UNCHANGED <<obj, notify>>
  PROVE  Announced
BY DEF Announced, announced

\* What CreateOrPatch writes is announced, even from an outdated cache.
LEMMA ApplyAnnounced ==
  ASSUME TypeOK, Named, inst # Absent, NEW k \in Components, NEW s, NEW t, createOrPatch(k, s, t)
  PROVE  Announced
<1>1. PICK o \in Outcome, r \in createOrPatchResults(k) :
        writeObject(k, IF o = "rejected" THEN obj[k] ELSE r.val)
  BY DEF createOrPatch
<1>2. k \in Kinds /\ inst \in NodeFeatureDiscovery
  BY KindFacts DEF TypeOK, TypeRec
<1>3. controllerRef(inst) # Absent
  BY <1>2, NewObjectType, AbsentAssumption
<1>4. r.val # Absent => r.val.owner # Absent
  BY <1>2, <1>3, CreateOrPatchResult DEF Named
<1>5. obj[k] = Absent => r.val = Absent \/ r.val = newObject(k, inst)
  <2>1. CASE objCache[k] = Absent
    BY <2>1 DEF createOrPatchResults, result
  <2>2. CASE objCache[k] # Absent /\ alreadyOwned(objCache[k])
    BY <2>2 DEF createOrPatchResults, result
  <2>3. ASSUME objCache[k] # Absent, ~alreadyOwned(objCache[k]), obj[k] = Absent
        PROVE  r.val = Absent
    <3>1. r \in {result(Absent, TRUE, TRUE), result(Absent, FALSE, FALSE)}
      BY <2>3, Zenon DEF createOrPatchResults
    <3> QED
      BY <3>1 DEF result
  <2> QED
    BY <2>1, <2>2, <2>3
<1>6. k \in Workloads => ~newObject(k, inst).observed
  BY DEF newObject
<1> DEFINE new == IF o = "rejected" THEN obj[k] ELSE r.val
<1>7. /\ new # Absent => new.owner # Absent
      /\ obj[k] = Absent /\ new # Absent /\ k \in Workloads => ~new.observed
  BY <1>2, <1>4, <1>5, <1>6 DEF Named
<1>8. writeObject(k, new)
  BY <1>1
<1> HIDE DEF new
<1> QED
  BY <1>2, <1>7, <1>8, WriteAnnounced DEF Named

\* So is a deletion.
LEMMA DeleteAnnounced ==
  ASSUME TypeOK, Named, NEW k \in Components, NEW s, deleteObject(k, s)
  PROVE  Announced
<1>1. PICK o \in Outcome : writeObject(k, IF o = "rejected" THEN obj[k] ELSE Absent)
  BY DEF deleteObject
<1> QED
  BY <1>1, KindFacts, WriteAnnounced DEF Named

\* And the creation of the prune job.
LEMMA PruneAnnounced ==
  ASSUME TypeOK, inst # Absent, handlePrune
  PROVE  Announced
<1>1. CASE UNCHANGED objVars
  BY <1>1, NoneAnnounced DEF objVars
<1>2. CASE createPruneJob
  <2>1. PICK o \in Outcome :
          writeObject("pruneJob", IF obj["pruneJob"] = Absent /\ o # "rejected"
                                    THEN newObject("pruneJob", inst) ELSE obj["pruneJob"])
    BY <1>2 DEF createPruneJob
  <2>2. inst \in NodeFeatureDiscovery
    BY DEF TypeOK, TypeRec
  <2>3. newObject("pruneJob", inst).owner # Absent
    BY <2>2, KindFacts, NewObjectType, AbsentAssumption
  <2>4. "pruneJob" \notin Workloads
    BY KindFacts
  <2> DEFINE new == IF obj["pruneJob"] = Absent /\ o # "rejected"
                      THEN newObject("pruneJob", inst) ELSE obj["pruneJob"]
  <2>5. obj["pruneJob"] # Absent => obj["pruneJob"].owner # Absent
    BY DEF TypeOK, TypeObj
  <2>6. writeObject("pruneJob", new) /\ (new # Absent => new.owner # Absent)
    BY <2>1, <2>3, <2>5
  <2> HIDE DEF new
  <2> QED
    BY <2>4, <2>5, <2>6, KindFacts, WriteAnnounced
<1> QED
  BY <1>1, <1>2 DEF handlePrune

\* Every handler announces what it does to the objects.
LEMMA HandlersAnnounced ==
  ASSUME TypeOK, Named, handlers
  PROVE  Announced
<1>1. inst # Absent
  BY HandlersGrow
<1>2. CASE handleMaster \/ handleWorkerCM \/ handleWorkerDS \/ handleGC
  BY <1>1, <1>2, KindFacts, ApplyAnnounced DEF handleMaster, handleWorkerCM, handleWorkerDS, handleGC
<1>3. CASE handleTopology
  <2>1. CASE inst.spec.topologyUpdater
    BY <1>1, <1>3, <2>1, KindFacts, ApplyAnnounced DEF handleTopology
  <2>2. CASE ~inst.spec.topologyUpdater
    BY <1>3, <2>2, NoneAnnounced DEF handleTopology, objVars
  <2> QED
    BY <2>1, <2>2
<1>4. CASE finalizeComponents
  <2>1. PICK k \in Components : \E s : deleteObject(k, s)
    BY <1>4, KindFacts, Zenon DEF finalizeComponents, deleteWorkerDS, deleteWorkerCM, deleteTopologyDS,
         deleteMaster, deleteGC
  <2> QED
    BY <2>1, DeleteAnnounced
<1>5. CASE handlePrune
  BY <1>1, <1>5, PruneAnnounced
<1>6. CASE setFinalizer \/ handleStatus \/ removeFinalizer
  BY <1>6, NoneAnnounced DEF setFinalizer, handleStatus, removeFinalizer, objVars
<1> QED
  BY <1>2, <1>3, <1>4, <1>5, <1>6 DEF handlers

\* Everybody else's writes are announced, unless a user takes the owner
\* reference of an object away: the update predicate looks for the owner in
\* the new object only.
LEMMA OthersAnnounced ==
  ASSUME TypeOK, Named, "owner" \notin Edits, Users \/ Cluster
  PROVE  Announced
<1>0. \A k \in Kinds : obj[k] # Absent => obj[k] \in Object(k) /\ obj[k].owner # Absent
  BY DEF TypeOK, TypeObj, Named
<1>1. ASSUME NEW k \in Kinds, writeObject(k, Absent) PROVE Announced
  BY <1>0, <1>1, WriteAnnounced
<1>2. ASSUME NEW k \in Kinds, obj[k] # Absent, NEW new, new # Absent => new.owner = obj[k].owner,
             writeObject(k, new)
      PROVE  Announced
  BY <1>0, <1>2, WriteAnnounced
<1>3. ASSUME NEW k \in Components, EditContent(k) PROVE Announced
  <2> DEFINE new == [obj[k] EXCEPT !.data = Drifted]
  <2>1. k \in Kinds /\ obj[k] # Absent /\ writeObject(k, new)
    BY <1>3, KindFacts DEF EditContent
  <2>2. new.owner = obj[k].owner
    BY <1>0, <2>1 DEF Object
  <2> HIDE DEF new
  <2> QED
    BY <1>2, <2>1, <2>2
<1>4. ASSUME NEW k \in Workloads, NEW st, ObserveWorkload(k, st) \/ ReportStatus(k, st)
      PROVE  Announced
  <2>1. k \in Kinds /\ obj[k] # Absent
    BY <1>4, KindFacts DEF ObserveWorkload, ReportStatus
  <2>2. CASE ObserveWorkload(k, st)
    <3> DEFINE new == [obj[k] EXCEPT !.status = st, !.observed = TRUE]
    <3>1. writeObject(k, new)
      BY <2>2 DEF ObserveWorkload
    <3>2. new.owner = obj[k].owner
      BY <1>0, <2>1 DEF Object
    <3> HIDE DEF new
    <3> QED
      BY <1>2, <2>1, <3>1, <3>2
  <2>3. CASE ReportStatus(k, st)
    <3> DEFINE new == [obj[k] EXCEPT !.status = st]
    <3>1. writeObject(k, new)
      BY <2>3 DEF ReportStatus
    <3>2. new.owner = obj[k].owner
      BY <1>0, <2>1 DEF Object
    <3> HIDE DEF new
    <3> QED
      BY <1>2, <2>1, <3>1, <3>2
  <2> QED
    BY <1>4, <2>2, <2>3
<1>5. ASSUME PodSucceeds \/ PodFails PROVE Announced
  <2> DEFINE job == obj["pruneJob"]
  <2>1. job # Absent /\ \E st : writeObject("pruneJob", [job EXCEPT !.status = st])
    <3>1. \A e : [job EXCEPT !.status.succeeded = e]
                   = [job EXCEPT !.status = [job.status EXCEPT !.succeeded = e]]
      OBVIOUS
    <3>2. [job EXCEPT !.status.failed = @ + 1]
            = [job EXCEPT !.status = [job.status EXCEPT !.failed = @ + 1]]
      OBVIOUS
    <3> QED
      BY <1>5, <3>1, <3>2 DEF PodSucceeds, PodFails
  <2>2. PICK st : writeObject("pruneJob", [job EXCEPT !.status = st])
    BY <2>1
  <2>3. [job EXCEPT !.status = st].owner = job.owner
    BY <1>0, <2>1, KindFacts DEF Object
  <2> QED
    BY <1>2, <2>1, <2>2, <2>3, KindFacts
<1>6. ASSUME NEW k \in Kinds, DeleteObject(k) \/ CollectGarbage(k) PROVE Announced
  BY <1>1, <1>6 DEF DeleteObject, CollectGarbage
<1>7. ASSUME NEW k \in Components, RemoveOwner(k) PROVE FALSE
  BY <1>7 DEF RemoveOwner, mayEdit
<1>8. CASE foreignSteps
  BY <1>3, <1>4, <1>5, <1>6, <1>7, <1>8 DEF foreignSteps
<1>9. ASSUME NEW n \in Names,
             \/ \E s \in Specs, h \in HeldChoices : CreateCR(n, s, h)
             \/ \E s \in Specs : UpdateSpec(n, s)
             \/ DeleteCR(n)
             \/ HoldCR(n)
             \/ ReleaseCR(n)
      PROVE  Announced
  BY <1>9, NoneAnnounced DEF CreateCR, UpdateSpec, DeleteCR, HoldCR, ReleaseCR, objVars
<1> QED
  BY <1>8, <1>9 DEF Users, Cluster, foreignSteps

\* An announced change is pending until the informer catches up.
LEMMA AnnouncedPends ==
  ASSUME NEW k \in Kinds, pending(k), announced(k), UNCHANGED objCache,
         \A i \in Informers : notify[i] \subseteq notify'[i]
  PROVE  pending(k)'
<1>1. informerOf(k) \in Informers
  BY KindFacts
<1> QED
  BY <1>1 DEF pending, announced

\* When it does, nothing of it is left to announce.
LEMMA SyncPends ==
  ASSUME NEW g, Sync(g) \/ Restart, NEW k \in Kinds, pending(k)
  PROVE  pending(k)'
<1>1. CASE Restart
  BY <1>1 DEF Restart, pending
<1>2. CASE Sync(g) /\ informerOf(k) \in g
  BY <1>2 DEF Sync, pending
<1>3. CASE Sync(g) /\ informerOf(k) \notin g
  <2>1. objCache'[k] = objCache[k] /\ notify'[informerOf(k)] = notify[informerOf(k)] /\ obj' = obj
    BY <1>3, KindFacts DEF Sync
  <2> QED
    BY <2>1 DEF pending
<1> QED
  BY <1>1, <1>2, <1>3

\* A step that is not a delivery leaves the caches alone.
Undelivered == /\ \A g \in SyncGroups : ~Sync(g)
               /\ ~Restart

\* What the informers have not seen is announced in every state.
LEMMA EventsPendingStep ==
  ASSUME TypeOK, EventsPending, "owner" \notin Edits, [Next]_vars
  PROVE  EventsPending' /\ (Undelivered => Announced /\ UNCHANGED objCache)
<1>1. Named
  BY DEF EventsPending, pending, Named
<1>2. CASE Undelivered
  <2>1. ASSUME handlers PROVE Announced /\ UNCHANGED objCache
    BY <1>1, <2>1, HandlersAnnounced, HandlersGrow
  <2>2. ASSUME Users \/ Cluster PROVE Announced /\ UNCHANGED objCache
    BY <1>1, <2>2, OthersAnnounced, OthersGrow DEF Bystander
  <2>3. ASSUME UNCHANGED vars \/ \E n \in Names : Reconcile(n) PROVE Announced /\ UNCHANGED objCache
    <3>1. UNCHANGED <<obj, notify, objCache>>
      BY <2>3 DEF vars, objVars, cacheVars, Reconcile
    <3> QED
      BY <3>1, NoneAnnounced
  <2>4. Announced /\ UNCHANGED objCache
    BY <1>2, <2>1, <2>2, <2>3 DEF Next, Operator, Watches, handlers, Undelivered
  <2> QED
    BY <2>4, AnnouncedPends DEF EventsPending, Announced
<1>3. CASE ~Undelivered
  <2>1. \A k \in Kinds : pending(k)'
    <3>1. PICK g : Sync(g) \/ Restart
      BY <1>3 DEF Undelivered
    <3> QED
      BY <3>1, SyncPends DEF EventsPending
  <2>2. EventsPending'
    BY <2>1 DEF EventsPending
  <2> QED
    BY <1>3, <2>2
<1> QED
  BY <1>2, <1>3

-----------------------------------------------------------------------------
(* What a CR asks for is there *)

\* What a CR owns is not changed behind its back.
LEMMA OwnedStands ==
  ASSUME Announced, NEW n \in Names, ~due(n)', NEW k \in Kinds, obj[k] # Absent,
         obj[k].owner.name = n
  PROVE  obj'[k] = obj[k]
BY DEF Announced, announced, due

\* Nor by a step that leaves the work on the CR alone.
LEMMA SparedStands ==
  ASSUME TypeOK, EventsPending, "owner" \notin Edits, [Next]_vars, NEW n \in Names,
         cr'[n] # Absent, ~due(n)', NEW k \in Kinds, obj[k] # Absent,
         obj[k].owner.name = n
  PROVE  obj'[k] = obj[k]
<1>1. ~Restart
  BY DEF Restart, due
<1>2. ASSUME NEW g \in SyncGroups, Sync(g) PROVE obj' = obj
  BY <1>2 DEF Sync
<1> QED
  BY <1>1, <1>2, EventsPendingStep, OwnedStands DEF Undelivered

\* The components not handled yet, when a handler has succeeded.
LEMMA AheadMoves ==
  /\ \A k \in Components : {"setFinalizer", "handleMaster"} \subseteq ahead(k)
  /\ \A k \in Components : "handleMaster" \in ahead(k) => k = "masterDep" \/ "handleWorkerCM" \in ahead(k)
  /\ \A k \in Components : "handleWorkerCM" \in ahead(k) => k = "workerCM" \/ "handleWorkerDS" \in ahead(k)
  /\ \A k \in Components : "handleWorkerDS" \in ahead(k) => k = "workerDS" \/ "handleTopology" \in ahead(k)
  /\ \A k \in Components : "handleTopology" \in ahead(k) => k = "topologyDS" \/ "handleGC" \in ahead(k)
  /\ \A k \in Components : "handleGC" \in ahead(k) => k = "gcDep" \/ "handleStatus" \in ahead(k)
  /\ \A k \in Components : "handleStatus" \notin ahead(k)
BY KindFacts DEF ahead, applySteps

\* After CreateOrPatch the component is as the CR wants it, unless the call
\* failed or worked on an outdated cache, whose event will queue the CR.
LEMMA ApplyDone ==
  ASSUME TypeOK, EventsPending, NEW n \in Names, Served(n), ~due(n)', NEW k \in Components,
         NEW s, NEW t, createOrPatch(k, s, t)
  PROVE  failed' \/ /\ obj'[k] # Absent /\ obj'[k].owner = controllerRef(inst)
                    /\ obj'[k].data = desired(k, inst.spec)
<1>1. PICK o \in Outcome, r \in createOrPatchResults(k) :
        /\ writeObject(k, IF o = "rejected" THEN obj[k] ELSE r.val)
        /\ IF r.err \/ o # "ok" THEN continue(t, TRUE) ELSE continue(s, FALSE)
  BY DEF createOrPatch
<1>2. /\ k \in Kinds /\ inst \in NodeFeatureDiscovery /\ inst.name = n
      /\ obj[k] \in Object(k) \cup {Absent} /\ objCache[k] \in Object(k) \cup {Absent}
  BY KindFacts DEF Served, serving, TypeOK, TypeRec, TypeObj, TypeObjCache
<1>3. CASE r.err \/ o # "ok"
  BY <1>1, <1>3 DEF continue
<1>4. CASE ~r.err /\ o = "ok"
  <2>1. obj'[k] = r.val
    BY <1>1, <1>2, <1>4 DEF writeObject, TypeOK, TypeObj
  <2>2. CASE objCache[k] = Absent
    <3>1. r = result(newObject(k, inst), FALSE, TRUE)
      BY <1>4, <2>2 DEF createOrPatchResults, result
    <3>2. newObject(k, inst) # Absent
      BY <1>2, NewObjectType, AbsentAssumption
    <3> QED
      BY <2>1, <3>1, <3>2 DEF result, newObject
  <2>3. CASE objCache[k] # Absent
    <3>1. ~alreadyOwned(objCache[k])
      BY <1>4, <2>3 DEF createOrPatchResults, result
    <3>2. objCache[k].owner.name = n
      BY <1>2, <2>3, <3>1 DEF EventsPending, pending, alreadyOwned
    <3>3. objCache[k] = obj[k]
      BY <1>2, <2>3, <3>2 DEF EventsPending, pending, Served, due
    <3>4. PICK d \in patchedData(obj[k].data, objCache[k].data, desired(k, inst.spec)) :
            r = result(patched(k, d), FALSE, TRUE)
      BY <2>3, <3>1, <3>3, Zenon DEF createOrPatchResults
    <3>5. d = desired(k, inst.spec)
      BY <3>3, <3>4 DEF patchedData
    <3>6. /\ patched(k, d) \in Object(k)
          /\ patched(k, d).owner = controllerRef(inst) /\ patched(k, d).data = d
      <4>1. controllerRef(inst) \in OwnerRef /\ d \in Payloads
        BY <1>2, <3>5, NewObjectType, SpecsAssumption
        DEF desired, NodeFeatureDiscovery, NodeFeatureDiscoverySpec
      <4>2. obj[k] \in Object(k)
        BY <1>2, <2>3, <3>3
      <4> QED
        BY <3>3, <4>1, <4>2 DEF patched, Object
    <3> QED
      BY <1>2, <2>1, <3>4, <3>5, <3>6, AbsentAssumption DEF result
  <2> QED
    BY <2>2, <2>3
<1> QED
  BY <1>3, <1>4

\* The handler of a component leaves it as the CR wants it, and no other
\* component further away from that.
LEMMA ServedApplies ==
  ASSUME TypeOK, BranchFits, EventsPending, NEW n \in Names, Served(n), ~due(n)', Announced,
         NEW k \in Components, required(k, inst.spec),
         failed \/ pc \in ahead(k) \/ asDesired(k, inst), serving(n)'
  PROVE  \/ failed' \/ pc' \in ahead(k)
         \/ obj'[k] # Absent /\ obj'[k].owner = controllerRef(inst) /\ obj'[k].data = desired(k, inst.spec)
         \/ inst.deleting
<1>1. /\ k \in Kinds /\ inst \in NodeFeatureDiscovery /\ inst.name = n /\ pc # "idle" /\ pc' # "idle"
  BY KindFacts DEF Served, serving, TypeOK, TypeRec
<1>2. asDesired(k, inst) => obj'[k] = obj[k]
  <2> HAVE asDesired(k, inst)
  <2>1. obj[k] # Absent /\ obj[k].owner.name = n
    BY <1>1 DEF asDesired, owned, controllerRef
  <2> QED
    BY <1>1, <2>1, OwnedStands
<1>3. ASSUME NEW j \in Components, NEW s, NEW t, createOrPatch(j, s, t),
             pc \in ahead(k) => k = j \/ s \in ahead(k)
      PROVE  \/ failed' \/ pc' \in ahead(k)
             \/ /\ obj'[k] # Absent /\ obj'[k].owner = controllerRef(inst)
                /\ obj'[k].data = desired(k, inst.spec)
  <2>1. CASE failed
    BY <1>3, <2>1, ApplyGrows DEF goesOn
  <2>2. CASE pc \in ahead(k) /\ k = j
    BY <1>3, <2>2, ApplyDone
  <2>3. CASE pc \in ahead(k) /\ s \in ahead(k)
    BY <1>3, <2>3, ApplyGrows DEF goesOn
  <2>4. CASE asDesired(k, inst)
    BY <1>2, <2>4 DEF asDesired, owned
  <2> QED
    BY <1>3, <2>1, <2>2, <2>3, <2>4
<1>4. CASE handleMaster
  BY <1>3, <1>4, KindFacts, AheadMoves DEF handleMaster
<1>5. CASE handleWorkerCM
  <2>1. PICK t : pc = "handleWorkerCM" /\ createOrPatch("workerCM", "handleWorkerDS", t)
    BY <1>5 DEF handleWorkerCM
  <2> QED
    BY <1>3, <2>1, KindFacts, AheadMoves
<1>6. CASE handleWorkerDS
  BY <1>3, <1>6, KindFacts, AheadMoves DEF handleWorkerDS
<1>7. CASE handleTopology
  <2>1. CASE inst.spec.topologyUpdater
    BY <1>3, <1>7, <2>1, KindFacts, AheadMoves DEF handleTopology
  <2>2. CASE ~inst.spec.topologyUpdater
    <3>1. /\ pc = "handleTopology" /\ pc' = "handleGC" /\ (failed => failed') /\ UNCHANGED obj
          /\ k # "topologyDS"
      BY <1>7, <2>2 DEF handleTopology, continue, required, objVars
    <3> QED
      BY <3>1, AheadMoves DEF asDesired, owned
  <2> QED
    BY <2>1, <2>2
<1>8. CASE handleGC
  BY <1>3, <1>8, KindFacts, AheadMoves DEF handleGC
<1>9. CASE handleStatus
  BY <1>1, <1>9 DEF handleStatus, return
<1>10. CASE setFinalizer
  BY <1>1, <1>10, UpdateGrows DEF setFinalizer
<1>11. CASE finalizeComponents \/ handlePrune \/ removeFinalizer
  BY <1>11 DEF finalizeComponents, deleteWorkerDS, deleteWorkerCM, deleteTopologyDS, deleteMaster,
       deleteGC, handlePrune, removeFinalizer, BranchFits, teardownSteps
<1> QED
  BY <1>4, <1>5, <1>6, <1>7, <1>8, <1>9, <1>10, <1>11 DEF Served, handlers

\* A component a CR asks for is not forgotten.
LEMMA AppliedStep ==
  ASSUME TypeOK, FreshCopies, BranchFits, EventsPending, "owner" \notin Edits, [Next]_vars,
         NEW n \in Names, appliedOrDue(n)
  PROVE  appliedOrDue(n)'
<1> SUFFICES ASSUME cr'[n] # Absent, ~cr'[n].deleting, NEW k \in Components,
                    required(k, cr'[n].spec), ~due(n)'
             PROVE  (serving(n) /\ (failed \/ pc \in ahead(k)))' \/ asDesired(k, cr[n])'
  BY DEF appliedOrDue, required
<1>1. cr'[n] = cr[n] /\ (Started(n) \/ Spared(n) \/ Served(n))
  BY StepFor
<1>2. TypeOK' /\ k \in Kinds /\ cr[n].name = n
  BY <1>1, StepEffect, KindFacts DEF TypeOK, TypeCR
<1>3. CASE Started(n)
  <2>1. pc' \in {"setFinalizer", "handleMaster"}
    BY <1>1, <1>3 DEF Started, firstStep
  <2>2. (pc \in ahead(k))'
    BY <2>1, KindFacts DEF ahead, applySteps
  <2> QED
    BY <1>3, <2>2 DEF Started
<1>4. CASE Spared(n)
  <2>1. CASE serving(n) /\ (failed \/ pc \in ahead(k))
    BY <1>4, <2>1 DEF Spared, ahead
  <2>2. CASE asDesired(k, cr[n])
    <3>1. obj[k] # Absent /\ obj[k].owner.name = n
      BY <1>2, <2>2 DEF asDesired, owned, controllerRef
    <3>2. obj'[k] = obj[k]
      BY <1>2, <3>1, SparedStands
    <3> QED
      BY <1>1, <2>2, <3>2 DEF asDesired, owned, controllerRef, desired
  <2> QED
    BY <1>1, <1>4, <2>1, <2>2 DEF appliedOrDue, Spared
<1>5. CASE Served(n)
  <2>1. Announced
    BY <1>5, HandlersAnnounced DEF Served, EventsPending, pending, Named
  <2>2. inst = cr[n] /\ (failed \/ pc \in ahead(k) \/ asDesired(k, inst))
    BY <1>1, <1>5 DEF appliedOrDue, Served
  <2>3. CASE serving(n)'
    <3>1. \/ failed' \/ pc' \in ahead(k)
          \/ /\ obj'[k] # Absent /\ obj'[k].owner = controllerRef(inst)
             /\ obj'[k].data = desired(k, inst.spec)
      BY <1>1, <1>5, <2>1, <2>2, <2>3, ServedApplies
    <3> QED
      BY <1>1, <2>2, <2>3, <3>1 DEF asDesired, owned, controllerRef, desired, ahead
  <2>4. CASE ~serving(n)'
    <3>1. Reported(n)
      BY <1>1, <1>5, <2>4, ServedOutcome DEF Waits
    <3>2. asDesired(k, cr[n]) /\ UNCHANGED obj
      BY <2>2, <3>1, AheadMoves DEF Reported
    <3> QED
      BY <1>1, <3>2 DEF asDesired, owned, controllerRef, desired
  <2> QED
    BY <2>3, <2>4
<1> QED
  BY <1>1, <1>3, <1>4, <1>5

\* The conditions depend on the workloads the CR asks for, and on no others.
LEMMA SameConditions ==
  ASSUME NEW view, NEW other, NEW spec,
         \A k \in Workloads : required(k, spec) => view[k] = other[k]
  PROVE  conditionsOf(view, spec) = conditionsOf(other, spec)
<1>1. /\ view["workerDS"] = other["workerDS"] /\ view["masterDep"] = other["masterDep"]
      /\ view["gcDep"] = other["gcDep"]
      /\ spec.topologyUpdater => view["topologyDS"] = other["topologyDS"]
  BY DEF Workloads, DaemonSets, Deployments, required
<1> QED
  BY <1>1 DEF conditionsOf, GetConditions

\* The conditions of a CR are not forgotten.
LEMMA ReportedStep ==
  ASSUME TypeOK, FreshCopies, BranchFits, EventsPending, "owner" \notin Edits, [Next]_vars,
         NEW n \in Names, appliedOrDue(n), reportedOrDue(n)
  PROVE  reportedOrDue(n)'
<1> DEFINE c == cr[n]
           noticed == \A k \in Workloads : required(k, c.spec) /\ obj[k] # Absent => obj[k].observed
<1> SUFFICES ASSUME cr'[n] # Absent, ~cr'[n].deleting, ~due(n)', ~serving(n)'
             PROVE  \/ AreConditionsEqual(cr'[n].conditions, conditionsOf(objCache, cr[n].spec)')
                    \/ \E k \in Workloads :
                         required(k, cr'[n].spec) /\ obj'[k] # Absent /\ ~obj'[k].observed
  BY DEF reportedOrDue, required
<1>1. cr'[n] = c /\ (Spared(n) \/ Served(n))
  BY StepFor DEF Started
<1>2. CASE Served(n)
  <2>1. Reported(n)
    BY <1>1, <1>2, ServedOutcome DEF Waits
  <2> QED
    BY <1>1, <2>1 DEF Reported, conditionsOf
<1>3. CASE Spared(n)
  <2>1. ~due(n) /\ ~serving(n) /\ c # Absent /\ ~c.deleting /\ c.name = n
    BY <1>1, <1>3 DEF Spared, TypeOK, TypeCR
  <2>2. ASSUME NEW k \in Workloads, required(k, c.spec)
        PROVE  k \in Kinds /\ obj[k] # Absent /\ obj[k].owner.name = n /\ obj'[k] = obj[k]
    <3>1. k \in Kinds /\ asDesired(k, c)
      BY <2>1, <2>2, KindFacts DEF appliedOrDue
    <3>2. obj[k] # Absent /\ obj[k].owner.name = n
      BY <2>1, <3>1 DEF asDesired, owned, controllerRef
    <3> QED
      BY <3>1, <3>2, SparedStands
  <2>3. CASE ~noticed
    BY <1>1, <2>2, <2>3
  <2>4. CASE noticed
    <3>1. AreConditionsEqual(c.conditions, conditionsOf(objCache, c.spec))
      BY <2>1, <2>4 DEF reportedOrDue
    <3>2. \A k \in Workloads : required(k, c.spec) => objCache'[k] = objCache[k]
      <4> SUFFICES ASSUME NEW k \in Workloads, required(k, c.spec)
                   PROVE  objCache'[k] = objCache[k]
        OBVIOUS
      <4>1. objCache[k] = obj[k]
        BY <2>1, <2>2, <2>4 DEF EventsPending, pending, due
      <4>2. ~Restart
        BY DEF Restart, due
      <4>3. ASSUME NEW g \in SyncGroups, Sync(g) PROVE objCache'[k] = objCache[k]
        BY <2>2, <4>1, <4>3 DEF Sync
      <4> QED
        BY <4>2, <4>3, EventsPendingStep DEF Undelivered
    <3>3. conditionsOf(objCache', c.spec) = conditionsOf(objCache, c.spec)
      BY <3>2, SameConditions
    <3>4. conditionsOf(objCache, cr[n].spec)' = conditionsOf(objCache', c.spec)
      BY <1>1 DEF conditionsOf
    <3> QED
      BY <1>1, <3>1, <3>3, <3>4
  <2> QED
    BY <2>3, <2>4
<1> QED
  BY <1>1, <1>2, <1>3

\* As long as nobody takes owner references away, nothing is forgotten: every
\* difference between what a CR asks for and what the cluster has, or between
\* the cluster and a cache, is about to be handled.
THEOREM NothingForgottenCorrect ==
  ASSUME "owner" \notin Edits
  PROVE  Spec => []NothingForgotten
<1>1. Init => NothingForgotten
  BY DEF Init, NothingForgotten, EventsPending, pending, handledOrDue, appliedOrDue, reportedOrDue
<1>2. Inv /\ NothingForgotten /\ [Next]_vars => NothingForgotten'
  BY HandledStep, AppliedStep, ReportedStep, EventsPendingStep DEF Inv, NothingForgotten
<1> QED
  BY <1>1, <1>2, InvCorrect, PTL DEF Spec

\* In a quiet state only the result of the work is left.
LEMMA AppliedWhenQuiet ==
  ASSUME NothingForgotten
  PROVE  QuietMeansApplied
<1> SUFFICES ASSUME Quiet, NEW n \in Names, cr[n] # Absent, ~cr[n].deleting
             PROVE  /\ applied(n)
                    /\ AreConditionsEqual(cr[n].conditions, conditionsOf(obj, cr[n].spec))
  BY DEF QuietMeansApplied
<1>1. /\ ~due(n) /\ ~serving(n)
      /\ \A k \in Kinds : objCache[k] = obj[k]
      /\ \A k \in Workloads : obj[k] # Absent => obj[k].observed
  BY QuietFacts
<1>2. applied(n)
  BY <1>1 DEF NothingForgotten, handledOrDue, appliedOrDue, applied
<1>3. AreConditionsEqual(cr[n].conditions, conditionsOf(objCache, cr[n].spec))
  BY <1>1 DEF NothingForgotten, reportedOrDue
<1>4. conditionsOf(objCache, cr[n].spec) = conditionsOf(obj, cr[n].spec)
  BY <1>1, KindFacts, SameConditions
<1> QED
  BY <1>2, <1>3, <1>4

\* As long as nobody takes owner references away: once all is quiet, every
\* CR has what it asks for and reports the state of its workloads, whatever
\* failed, crashed, was edited or was outdated on the way.
THEOREM QuietMeansAppliedCorrect ==
  ASSUME "owner" \notin Edits
  PROVE  Spec => []QuietMeansApplied
BY AppliedWhenQuiet, NothingForgottenCorrect, PTL

-----------------------------------------------------------------------------
(* What a deleted CR waits for *)

\* A write to a component is nothing the owner of the prune job hears of.
LEMMA ComponentWrite ==
  ASSUME TypeOK, NEW k \in Components, NEW new, writeObject(k, new)
  PROVE  announced("pruneJob") /\ obj'["pruneJob"] = obj["pruneJob"]
BY KindFacts DEF writeObject, TypeOK, TypeObj, announced

\* Every handler announces what it does to the prune job.
LEMMA HandlersAnnounceJob ==
  ASSUME TypeOK, handlers
  PROVE  announced("pruneJob")
<1>1. ASSUME NEW k \in Components, NEW s, NEW t, createOrPatch(k, s, t)
      PROVE  announced("pruneJob")
  <2>1. \E new : writeObject(k, new)
    BY <1>1 DEF createOrPatch
  <2> QED
    BY <2>1, ComponentWrite
<1>2. ASSUME NEW k \in Components, NEW s, deleteObject(k, s) PROVE announced("pruneJob")
  <2>1. \E new : writeObject(k, new)
    BY <1>2 DEF deleteObject
  <2> QED
    BY <2>1, ComponentWrite
<1>3. CASE handleMaster \/ handleWorkerCM \/ handleWorkerDS \/ handleGC
  BY <1>1, <1>3, KindFacts DEF handleMaster, handleWorkerCM, handleWorkerDS, handleGC
<1>4. CASE handleTopology
  <2>1. CASE inst.spec.topologyUpdater
    BY <1>1, <1>4, <2>1, KindFacts DEF handleTopology
  <2>2. CASE ~inst.spec.topologyUpdater
    BY <1>4, <2>2 DEF handleTopology, objVars, announced
  <2> QED
    BY <2>1, <2>2
<1>5. CASE finalizeComponents
  <2>1. PICK k \in Components : \E s : deleteObject(k, s)
    BY <1>5, KindFacts, Zenon DEF finalizeComponents, deleteWorkerDS, deleteWorkerCM, deleteTopologyDS,
         deleteMaster, deleteGC
  <2> QED
    BY <1>2, <2>1
<1>6. CASE handlePrune
  BY <1>6, HandlersGrow, PruneAnnounced, KindFacts DEF Announced
<1>7. CASE setFinalizer \/ handleStatus \/ removeFinalizer
  BY <1>7 DEF setFinalizer, handleStatus, removeFinalizer, objVars, announced
<1> QED
  BY <1>3, <1>4, <1>5, <1>6, <1>7 DEF handlers

\* So does everybody else: nobody takes the owner of the job away.
LEMMA OthersAnnounceJob ==
  ASSUME TypeOK, Users \/ Cluster
  PROVE  announced("pruneJob")
<1> DEFINE job == obj["pruneJob"]
<1>0. job # Absent => job \in Object("pruneJob") /\ job.owner # Absent
  BY KindFacts DEF TypeOK, TypeObj
<1>1. ASSUME NEW k \in Components, NEW new, writeObject(k, new) PROVE announced("pruneJob")
  BY <1>1, ComponentWrite
<1>2. ASSUME job # Absent, NEW new, new # Absent => new.owner = job.owner,
             writeObject("pruneJob", new)
      PROVE  announced("pruneJob")
  <2>1. Announced
    BY <1>0, <1>2, KindFacts, WriteAnnounced
  <2> QED
    BY <2>1, KindFacts DEF Announced
<1>3. ASSUME PodSucceeds \/ PodFails PROVE announced("pruneJob")
  <2>1. job # Absent /\ \E st : writeObject("pruneJob", [job EXCEPT !.status = st])
    <3>1. \A e : [job EXCEPT !.status.succeeded = e]
                   = [job EXCEPT !.status = [job.status EXCEPT !.succeeded = e]]
      OBVIOUS
    <3>2. [job EXCEPT !.status.failed = @ + 1]
            = [job EXCEPT !.status = [job.status EXCEPT !.failed = @ + 1]]
      OBVIOUS
    <3> QED
      BY <1>3, <3>1, <3>2 DEF PodSucceeds, PodFails
  <2>2. PICK st : writeObject("pruneJob", [job EXCEPT !.status = st])
    BY <2>1
  <2>3. [job EXCEPT !.status = st].owner = job.owner
    BY <1>0, <2>1 DEF Object
  <2> QED
    BY <1>2, <2>1, <2>2, <2>3
<1>4. ASSUME NEW k \in Kinds, DeleteObject(k) \/ CollectGarbage(k) PROVE announced("pruneJob")
  <2>1. obj[k] # Absent /\ writeObject(k, Absent)
    BY <1>4 DEF DeleteObject, CollectGarbage
  <2> QED
    BY <1>1, <1>2, <2>1 DEF Kinds
<1>5. ASSUME NEW k \in Components,
             \/ EditContent(k) \/ RemoveOwner(k)
             \/ k \in Workloads /\ \E st : ObserveWorkload(k, st) \/ ReportStatus(k, st)
      PROVE  announced("pruneJob")
  <2>1. \E new : writeObject(k, new)
    BY <1>5 DEF EditContent, RemoveOwner, ObserveWorkload, ReportStatus
  <2> QED
    BY <1>1, <2>1
<1>6. CASE foreignSteps
  BY <1>3, <1>4, <1>5, <1>6, KindFacts DEF foreignSteps
<1>7. ASSUME NEW n \in Names,
             \/ \E s \in Specs, h \in HeldChoices : CreateCR(n, s, h)
             \/ \E s \in Specs : UpdateSpec(n, s)
             \/ DeleteCR(n)
             \/ HoldCR(n)
             \/ ReleaseCR(n)
      PROVE  announced("pruneJob")
  BY <1>7 DEF CreateCR, UpdateSpec, DeleteCR, HoldCR, ReleaseCR, objVars, announced
<1> QED
  BY <1>6, <1>7 DEF Users, Cluster, foreignSteps

\* What the informer has not seen of the prune job is announced.
LEMMA JobPendingStep ==
  ASSUME TypeOK, pending("pruneJob"), [Next]_vars
  PROVE  pending("pruneJob")' /\ (Undelivered => announced("pruneJob") /\ UNCHANGED objCache)
<1>1. CASE Undelivered
  <2>1. ASSUME handlers PROVE Grows /\ announced("pruneJob") /\ UNCHANGED objCache
    BY <2>1, HandlersAnnounceJob, HandlersGrow
  <2>2. ASSUME Users \/ Cluster PROVE Grows /\ announced("pruneJob") /\ UNCHANGED objCache
    BY <2>2, OthersAnnounceJob, OthersGrow DEF Bystander
  <2>3. ASSUME UNCHANGED vars \/ \E n \in Names : Reconcile(n)
        PROVE  announced("pruneJob") /\ UNCHANGED <<notify, objCache>>
    BY <2>3 DEF vars, objVars, cacheVars, Reconcile, announced
  <2>4. /\ announced("pruneJob") /\ UNCHANGED objCache
        /\ \A i \in Informers : notify[i] \subseteq notify'[i]
    BY <1>1, <2>1, <2>2, <2>3 DEF Next, Operator, Watches, handlers, Undelivered, Grows
  <2> QED
    BY <2>4, KindFacts, AnnouncedPends
<1>2. CASE ~Undelivered
  <2>1. PICK g : Sync(g) \/ Restart
    BY <1>2 DEF Undelivered
  <2> QED
    BY <1>2, <2>1, KindFacts, SyncPends
<1> QED
  BY <1>1, <1>2

\* With a single name, a CR in deletion that asks for pruning is not
\* forgotten before its prune job has ended.
LEMMA PruningStep ==
  ASSUME TypeOK, FreshCopies, BranchFits, pending("pruneJob"), [Next]_vars,
         NEW n \in Names, \A m \in Names : m = n, pruningOrDue(n)
  PROVE  pruningOrDue(n)'
<1> SUFFICES ASSUME cr'[n] # Absent, cr'[n].deleting, cr'[n].finalizer, cr'[n].spec.pruneOnDelete,
                    ~due(n)', ~serving(n)'
             PROVE  /\ obj'["pruneJob"] # Absent /\ obj'["pruneJob"].owner # Absent
                    /\ obj'["pruneJob"].owner.name = n
                    /\ obj'["pruneJob"].status = zeroStatus("pruneJob")
  BY DEF pruningOrDue, ownerName, zeroStatus
<1>1. cr'[n] = cr[n] /\ (Spared(n) \/ Served(n))
  BY StepFor DEF Started
<1>2. \A o \in Object("pruneJob") : o.owner # Absent => o.owner.name = n
  BY DEF Object, OwnerRef
<1>3. CASE Spared(n)
  <2>1. /\ obj["pruneJob"] # Absent /\ obj["pruneJob"].owner # Absent
        /\ obj["pruneJob"].owner.name = n /\ obj["pruneJob"].status = zeroStatus("pruneJob")
    BY <1>1, <1>3 DEF Spared, pruningOrDue, ownerName
  <2>2. obj'["pruneJob"] = obj["pruneJob"]
    <3>1. CASE Undelivered
      BY <2>1, <3>1, JobPendingStep, KindFacts DEF announced, due
    <3>2. CASE ~Undelivered
      BY <3>2 DEF Undelivered, Sync, Restart, due
    <3> QED
      BY <3>1, <3>2
  <2> QED
    BY <2>1, <2>2
<1>4. CASE Served(n)
  <2>1. Waits(n) /\ ~due(n) /\ cr[n] = inst /\ inst \in NodeFeatureDiscovery
    <3>1. Waits(n)
      BY <1>1, <1>4, ServedOutcome DEF Reported
    <3> QED
      BY <1>4, <3>1 DEF Served, serving, TypeOK, TypeRec
  <2> DEFINE new == newObject("pruneJob", cr[n])
  <2>2. CASE writeObject("pruneJob", new)
    <3>1. new \in Object("pruneJob") /\ new.owner \in OwnerRef
      BY <2>1, KindFacts, NewObjectType
    <3>2. obj'["pruneJob"] = new
      BY <2>2, KindFacts DEF writeObject, TypeOK, TypeObj
    <3>3. new.status = zeroStatus("pruneJob")
      BY DEF newObject
    <3> HIDE DEF new
    <3> QED
      BY <1>2, <3>1, <3>2, <3>3, KindFacts, AbsentAssumption
  <2>3. CASE /\ UNCHANGED obj /\ objCache["pruneJob"] # Absent
             /\ ~pruneVerdict(objCache["pruneJob"]).err /\ ~pruneVerdict(objCache["pruneJob"]).done
    <3> DEFINE job == objCache["pruneJob"]
    <3>1. job \in Object("pruneJob") /\ job.owner # Absent
      BY <2>3, KindFacts DEF TypeOK, TypeObjCache, pending
    <3>2. job = obj["pruneJob"]
      BY <1>2, <2>1, <2>3, <3>1, KindFacts DEF pending, due
    <3>3. job.status \in JobStatus /\ ~(job.status.succeeded > 0) /\ ~(job.status.failed > 0)
      BY <2>3, <3>1 DEF Object, Statuses, DaemonSets, Deployments, pruneVerdict
    <3>4. job.status = [succeeded |-> 0, failed |-> 0]
      BY <3>3 DEF JobStatus
    <3>5. job.status = zeroStatus("pruneJob")
      BY <3>4 DEF zeroStatus, DaemonSets, Deployments
    <3> QED
      BY <1>2, <2>3, <3>1, <3>2, <3>5
  <2> QED
    BY <2>1, <2>2, <2>3 DEF Waits
<1> QED
  BY <1>1, <1>3, <1>4

\* With a single name: a deleted CR that asks for pruning is about to be
\* looked at again as long as no prune job of its own is running, and every
\* change of the job is about to reach the operator.  (Two CRs share the name
\* of the job, and the job of the other one would be waited for.)
THEOREM PruningRememberedCorrect ==
  ASSUME \A m, n \in Names : m = n
  PROVE  Spec => []PruningRemembered
<1>1. Init => PruningRemembered
  BY KindFacts DEF Init, PruningRemembered, pending, handledOrDue, pruningOrDue
<1>2. Inv /\ PruningRemembered /\ [Next]_vars => PruningRemembered'
  BY HandledStep, PruningStep, JobPendingStep DEF Inv, PruningRemembered
<1> QED
  BY <1>1, <1>2, InvCorrect, PTL DEF Spec

\* In a quiet state a deleted CR waits for nothing but its prune job.
LEMMA PruningWhenQuiet ==
  ASSUME PruningRemembered
  PROVE  QuietMeansPruning
BY QuietFacts DEF PruningRemembered, handledOrDue, pruningOrDue, QuietMeansPruning

\* With a single name: once all is quiet, a deleted CR that still has the
\* operator's finalizer asks for pruning, and its prune job is running.
THEOREM QuietMeansPruningCorrect ==
  ASSUME \A m, n \in Names : m = n
  PROVE  Spec => []QuietMeansPruning
BY PruningWhenQuiet, PruningRememberedCorrect, PTL
=============================================================================
