----------------------------- MODULE PruneProofs -----------------------------
(***************************************************************************)
(* A CR that asks for pruning is not let go of before a prune job has      *)
(* succeeded.  The operator sees the job through a cache, by its name      *)
(* only, and acts on it in two steps, so the argument follows the success  *)
(* of a job from the API server through the cache to the last step.        *)
(***************************************************************************)
EXTENDS QuietProofs

\* The objects change by one write at a time.
ObjectsChange ==
  \/ UNCHANGED <<obj, pruned>>
  \/ \E k \in Kinds : \E new : writeObject(k, new)

\* The steps of the operator are such writes; they create no CR.
LEMMA HandlersWrite ==
  ASSUME TypeOK, handlers
  PROVE  ObjectsChange /\ UNCHANGED nextUid
<1>1. ASSUME NEW k \in Kinds, NEW s, NEW t, createOrPatch(k, s, t) \/ deleteObject(k, s)
      PROVE  ObjectsChange /\ UNCHANGED nextUid
  BY <1>1 DEF createOrPatch, deleteObject, ObjectsChange, crVars
<1>2. CASE handleMaster \/ handleWorkerCM \/ handleWorkerDS \/ handleGC
  BY <1>1, <1>2, KindFacts DEF handleMaster, handleWorkerCM, handleWorkerDS, handleGC
<1>3. CASE handleTopology
  <2>1. CASE inst.spec.topologyUpdater
    BY <1>1, <1>3, <2>1, KindFacts DEF handleTopology
  <2>2. CASE ~inst.spec.topologyUpdater
    BY <1>3, <2>2 DEF handleTopology, objVars, crVars, ObjectsChange
  <2> QED
    BY <2>1, <2>2
<1>4. CASE finalizeComponents
  <2>1. PICK k \in Kinds : \E s : deleteObject(k, s)
    BY <1>4, KindFacts, Zenon DEF finalizeComponents, deleteWorkerDS, deleteWorkerCM, deleteTopologyDS,
         deleteMaster, deleteGC
  <2> QED
    BY <1>1, <2>1
<1>5. CASE handlePrune
  <2>1. (createPruneJob \/ UNCHANGED objVars) /\ UNCHANGED crVars
    BY <1>5 DEF handlePrune
  <2>2. ASSUME createPruneJob PROVE \E new : writeObject("pruneJob", new)
    BY <2>2 DEF createPruneJob
  <2> QED
    BY <2>1, <2>2, KindFacts DEF objVars, crVars, ObjectsChange
<1>6. CASE setFinalizer \/ handleStatus \/ removeFinalizer
  BY <1>6 DEF setFinalizer, handleStatus, removeFinalizer, objVars, crVars, ObjectsChange
<1> QED
  BY <1>2, <1>3, <1>4, <1>5, <1>6 DEF handlers

\* So are those of everybody else.
LEMMA OthersWrite ==
  ASSUME Users \/ Cluster
  PROVE  ObjectsChange /\ UNCHANGED <<objCache, pc, inst>>
<1>1. ASSUME NEW n \in Names,
             \/ \E s \in Specs, h \in HeldChoices : CreateCR(n, s, h)
             \/ \E s \in Specs : UpdateSpec(n, s)
             \/ DeleteCR(n)
             \/ HoldCR(n)
             \/ ReleaseCR(n)
      PROVE  UNCHANGED <<obj, pruned, objCache, pc, inst>>
  BY <1>1 DEF CreateCR, UpdateSpec, DeleteCR, HoldCR, ReleaseCR, objVars, cacheVars
<1>2. ASSUME foreignSteps
      PROVE  ObjectsChange /\ UNCHANGED <<objCache, pc, inst>>
  <2>1. UNCHANGED untouchedByOthers /\ \E k \in Kinds : \E new : writeObject(k, new)
    BY <1>2, KindFacts, Zenon DEF foreignSteps, EditContent, RemoveOwner, DeleteObject, CollectGarbage,
         ObserveWorkload, ReportStatus, PodSucceeds, PodFails, untouchedByOthers
  <2> QED
    BY <2>1 DEF ObjectsChange, untouchedByOthers, cacheVars, recVars
<1> QED
  BY <1>1, <1>2 DEF Users, Cluster, foreignSteps, ObjectsChange

\* A UID is used up only by the creation of a CR.
LEMMA UidCount ==
  ASSUME TypeOK, [Next]_vars
  PROVE  nextUid' = nextUid \/ (nextUid' = nextUid + 1 /\ nextUid <= MaxUid)
<1>1. CASE handlers
  BY <1>1, HandlersWrite
<1>2. CASE Users
  <2>1. ASSUME foreignSteps PROVE UNCHANGED nextUid
    <3>1. UNCHANGED untouchedByOthers
      BY <2>1, Zenon DEF foreignSteps, EditContent, RemoveOwner, DeleteObject, CollectGarbage,
           ObserveWorkload, ReportStatus, PodSucceeds, PodFails, untouchedByOthers
    <3> QED
      BY <3>1 DEF untouchedByOthers, crVars
  <2> QED
    BY <1>2, <2>1 DEF Users, foreignSteps, CreateCR, UpdateSpec, DeleteCR, HoldCR, ReleaseCR
<1>3. CASE Cluster
  BY <1>3, Zenon DEF Cluster, CollectGarbage, ObserveWorkload, ReportStatus, PodSucceeds, PodFails,
       untouchedByOthers, crVars
<1>4. CASE Restart \/ Watches \/ (\E n \in Names : Reconcile(n)) \/ UNCHANGED vars
  BY <1>4 DEF Restart, Watches, Sync, Reconcile, vars, crVars
<1> QED
  BY <1>1, <1>2, <1>3, <1>4 DEF Next, Operator, handlers

\* Every step keeps the count of the UIDs.
LEMMA UidsCountedStep ==
  ASSUME Inv, UidsCounted, [Next]_vars
  PROVE  UidsCounted'
<1>0. /\ TypeOK' /\ AbstractNext
      /\ nextUid \in Nat /\ MaxUid \in Nat
  BY StepEffect, BoundAssumption DEF Inv, TypeOK, TypeCount
<1>1. nextUid' = nextUid \/ (nextUid' = nextUid + 1 /\ nextUid <= MaxUid)
  BY UidCount DEF Inv
<1>2. nextUid' \in 1 .. MaxUid + 1
  BY <1>0, <1>1 DEF UidsCounted
<1>3. ASSUME NEW n \in Names, cr'[n] # Absent PROVE cr'[n].uid > 0
  <2>1. CASE cr'[n] = cr[n]
    BY <1>3, <2>1 DEF UidsCounted
  <2>2. CASE \/ UpdateEffect([inst EXCEPT !.finalizer = TRUE]) /\ pc = "setFinalizer"
             \/ UpdateEffect(released(inst)) /\ pc = "removeFinalizer"
    <3>1. inst \in NodeFeatureDiscovery /\ inst.uid > 0
      BY <2>2 DEF UidsCounted, Inv, TypeOK, TypeRec
    <3>2. /\ [inst EXCEPT !.finalizer = TRUE].uid = inst.uid
          /\ released(inst) = Absent \/ released(inst).uid = inst.uid
      BY <3>1 DEF NodeFeatureDiscovery, released
    <3>3. \/ cr'[n] \in {cr[n], released(inst)}
          \/ cr'[n] = [inst EXCEPT !.finalizer = TRUE]
      BY <2>2 DEF UpdateEffect
    <3> QED
      BY <1>3, <2>1, <3>1, <3>2, <3>3
  <2>3. CASE StatusEffect
    <3>1. cr'[n] = cr[n] \/ \E c \in SUBSET Condition :
                              cr[n] # Absent /\ cr'[n] = [cr[n] EXCEPT !.conditions = c]
      BY <2>3 DEF StatusEffect
    <3>2. cr[n] # Absent => cr[n] \in NodeFeatureDiscovery /\ cr[n].uid > 0
      BY DEF UidsCounted, Inv, TypeOK, TypeCR
    <3> QED
      BY <2>1, <3>1, <3>2 DEF NodeFeatureDiscovery
  <2>4. ASSUME NEW m \in Names, CreateEffect(m) \/ EditEffect(m) PROVE cr'[n].uid > 0
    <3>1. CASE m # n
      BY <2>1, <2>4, <3>1 DEF CreateEffect, EditEffect, UserEffect
    <3>2. CASE m = n
      <4>1. cr'[n].uid = nextUid \/ (cr[n] # Absent /\ cr'[n].uid = cr[n].uid)
        BY <1>3, <2>4, <3>2 DEF CreateEffect, EditEffect, UserEffect
      <4> QED
        BY <1>0, <4>1 DEF UidsCounted
    <3> QED
      BY <3>1, <3>2
  <2> QED
    BY <1>0, <2>1, <2>2, <2>3, <2>4 DEF AbstractNext, vars, crVars, Reconcile, Restart, Sync,
         ApplyEffect, DeleteEffect, PruneEffect, ForeignEffect, notByComponents
<1>4. ASSUME NEW n \in Names, crCache'[n] # Absent PROVE crCache'[n].uid > 0
  <2>1. crCache' = cr \/ UNCHANGED crCache
    BY <1>0 DEF AbstractNext, vars, cacheVars, Reconcile, Restart, Sync, ApplyEffect, DeleteEffect,
         PruneEffect, ForeignEffect, notByComponents, UpdateEffect, StatusEffect, CreateEffect,
         EditEffect, UserEffect
  <2> QED
    BY <1>4, <2>1 DEF UidsCounted
<1>5. inst' # Absent => inst'.uid > 0
  <2>1. UNCHANGED inst \/ inst' = Absent \/ \E n \in Names : crCache[n] # Absent /\ inst' = crCache[n]
    BY <1>0 DEF AbstractNext, vars, recVars, Reconcile, Restart, Sync, ApplyEffect, DeleteEffect,
         PruneEffect, ForeignEffect, UpdateEffect, StatusEffect, CreateEffect, EditEffect, UserEffect
  <2> QED
    BY <2>1 DEF UidsCounted
<1>6. obj'["pruneJob"] # Absent => obj'["pruneJob"].owner.uid > 0
  <2>1. \A k \in Kinds : \A new : obj' = [obj EXCEPT ![k] = new] =>
          obj'["pruneJob"] = IF k = "pruneJob" THEN new ELSE obj["pruneJob"]
    BY KindFacts DEF Inv, TypeOK, TypeObj
  <2>2. CASE obj'["pruneJob"] = obj["pruneJob"]
    BY <2>2 DEF UidsCounted
  <2>3. CASE ForeignEffect
    <3>1. PICK k \in Kinds : \E new :
            /\ obj' = [obj EXCEPT ![k] = new]
            /\ new # Absent => /\ obj[k] # Absent
                               /\ \/ new.owner = obj[k].owner
                                  \/ k # "pruneJob" /\ new.owner = Absent
      BY <2>3 DEF ForeignEffect
    <3> QED
      BY <2>1, <3>1 DEF UidsCounted
  <2>4. CASE pc = "handlePrune" /\ PruneEffect
    <3>1. inst # Absent
      BY <2>4 DEF Inv, TypeOK, TypeRec
    <3>2. \/ UNCHANGED obj
          \/ \E new : new.owner = controllerRef(inst) /\ obj' = [obj EXCEPT !["pruneJob"] = new]
      BY <2>4 DEF PruneEffect
    <3> QED
      BY <2>1, <3>1, <3>2, KindFacts DEF UidsCounted, controllerRef
  <2>5. ASSUME NEW k \in Components, NEW s, ApplyEffect(k) \/ DeleteEffect(k, s)
        PROVE  obj'["pruneJob"] = obj["pruneJob"]
    BY <2>1, <2>5, KindFacts DEF ApplyEffect, DeleteEffect
  <2> QED
    BY <1>0, <2>2, <2>3, <2>4, <2>5, KindFacts DEF AbstractNext, vars, objVars, Reconcile, Restart, Sync,
         UpdateEffect, StatusEffect, CreateEffect, EditEffect, UserEffect
<1> QED
  BY <1>2, <1>3, <1>4, <1>5, <1>6 DEF UidsCounted

\* The last step of the teardown is reached from handlePrune only, and if
\* the CR asks for pruning, with a job in the cache that has succeeded.
LEMMA RemovalAfterJob ==
  ASSUME TypeOK, handlers, pc' = "removeFinalizer"
  PROVE  /\ UNCHANGED inst
         /\ inst.spec.pruneOnDelete =>
              objCache["pruneJob"] # Absent /\ objCache["pruneJob"].status.succeeded > 0
<1>1. ASSUME NEW k, NEW s, NEW t, createOrPatch(k, s, t) PROVE pc' \in {s, t}
  BY <1>1 DEF createOrPatch, continue
<1>2. ASSUME NEW k, NEW s, deleteObject(k, s) PROVE pc' \in {s, "idle"}
  BY <1>2 DEF deleteObject, continue, return
<1>3. ~(handleMaster \/ handleWorkerCM \/ handleWorkerDS \/ handleGC)
  BY <1>1 DEF handleMaster, handleWorkerCM, handleWorkerDS, handleGC
<1>4. ~handleTopology
  BY <1>1 DEF handleTopology, continue
<1>5. ~finalizeComponents
  <2>1. ~(deleteWorkerDS \/ deleteTopologyDS \/ deleteMaster \/ deleteGC)
    BY <1>2 DEF deleteWorkerDS, deleteTopologyDS, deleteMaster, deleteGC
  <2>2. ~deleteWorkerCM
    BY <1>2 DEF deleteWorkerCM
  <2> QED
    BY <2>1, <2>2 DEF finalizeComponents
<1>6. ~(setFinalizer \/ handleStatus \/ removeFinalizer)
  BY DEF setFinalizer, handleStatus, removeFinalizer, updateCR, return
<1>7. handlePrune
  BY <1>3, <1>4, <1>5, <1>6 DEF handlers
<1>8. ~createPruneJob
  BY DEF createPruneJob, return
<1> QED
  BY <1>7, <1>8 DEF handlePrune, continue, return, pruneVerdict

\* A write of an object records the success it brings.
LEMMA WriteRecords ==
  ASSUME TypeOK, ObjectsChange
  PROVE  /\ pruned \subseteq pruned'
         /\ \/ UNCHANGED pruned
            \/ obj'["pruneJob"] # Absent /\ pruned' = pruned \cup {obj'["pruneJob"].owner.uid}
         /\ \/ obj'["pruneJob"] = obj["pruneJob"]
            \/ obj'["pruneJob"] # Absent /\ obj'["pruneJob"].status.succeeded > 0 =>
                 obj'["pruneJob"].owner.uid \in pruned'
<1>1. CASE UNCHANGED <<obj, pruned>>
  BY <1>1
<1>2. ASSUME NEW k \in Kinds, NEW new, writeObject(k, new)
      PROVE  /\ pruned' = pruned \cup prunedBy(k, new)
             /\ obj'["pruneJob"] = IF k = "pruneJob" THEN new ELSE obj["pruneJob"]
  BY <1>2, KindFacts DEF writeObject, TypeOK, TypeObj
<1>3. CASE \E k \in Kinds : \E new : writeObject(k, new)
  <2>1. PICK k \in Kinds : \E new : writeObject(k, new)
    BY <1>3
  <2>2. PICK new : writeObject(k, new)
    BY <2>1
  <2> QED
    BY <1>2, <2>2 DEF prunedBy
<1> QED
  BY <1>1, <1>3 DEF ObjectsChange

\* A success of a prune job is recorded when it happens, and the operator
\* sees it afterwards.
LEMMA SuccessRecordedStep ==
  ASSUME Inv, UidsCounted, SuccessRecorded, [Next]_vars
  PROVE  SuccessRecorded'
<1> DEFINE noted(job) == job # Absent /\ job.status.succeeded > 0 => job.owner.uid \in pruned
<1>0. /\ TypeOK' /\ Inv' /\ UidsCounted' /\ nextUid \in Nat /\ nextUid' \in Nat
      /\ noted(obj["pruneJob"]) /\ noted(objCache["pruneJob"])
      /\ pruned \subseteq 1 .. nextUid' - 1
  BY InvStep, UidsCountedStep, UidCount DEF Inv, TypeOK, TypeCount, SuccessRecorded
<1>1. ASSUME ObjectsChange
      PROVE  /\ pruned \subseteq pruned' /\ noted(obj["pruneJob"])'
             /\ pruned' \subseteq 1 .. nextUid' - 1
             /\ noted(objCache["pruneJob"])' \/ objCache' # objCache
  <2>1. obj'["pruneJob"] # Absent => obj'["pruneJob"].owner.uid \in 1 .. nextUid' - 1
    <3>1. obj'["pruneJob"] # Absent => obj'["pruneJob"].owner # Absent /\ obj'["pruneJob"] \in Object("pruneJob")
      BY <1>0, KindFacts DEF TypeOK, TypeObj
    <3>2. obj'["pruneJob"] # Absent => obj'["pruneJob"].owner.uid \in Nat
      BY <3>1 DEF Object, OwnerRef
    <3> QED
      BY <1>0, <3>1, <3>2, KindFacts DEF Inv, UidsUsed, UidsCounted
  <2> QED
    BY <1>0, <1>1, <2>1, WriteRecords DEF Inv
<1>2. CASE handlers
  <2>1. ObjectsChange /\ UNCHANGED objCache
    BY <1>2, HandlersWrite, HandlersGrow DEF Inv
  <2>2. pc' = "removeFinalizer" /\ inst'.spec.pruneOnDelete => pruned # {}
    BY <1>2, <1>0, RemovalAfterJob DEF Inv
  <2> QED
    BY <1>0, <1>1, <2>1, <2>2 DEF SuccessRecorded
<1>3. CASE Users \/ Cluster
  BY <1>0, <1>3, <1>1, OthersWrite DEF SuccessRecorded
<1>4. CASE Restart \/ Watches \/ (\E n \in Names : Reconcile(n)) \/ UNCHANGED vars
  <2>1. UNCHANGED <<obj, pruned>>
    BY <1>4 DEF Restart, Watches, Sync, Reconcile, vars, objVars
  <2>2. objCache'["pruneJob"] \in {obj["pruneJob"], objCache["pruneJob"]}
    BY <1>4, KindFacts DEF Restart, Watches, Sync, Reconcile, vars, cacheVars
  <2>3. pc' = "removeFinalizer" => UNCHANGED <<pc, inst>>
    BY <1>4 DEF Restart, Watches, Sync, Reconcile, vars, recVars, firstStep
  <2> QED
    BY <1>0, <2>1, <2>2, <2>3 DEF SuccessRecorded
<1> QED
  BY <1>2, <1>3, <1>4 DEF Next, Operator, handlers

\* UIDs are counted from one, whatever happens.
LEMMA UidsCountedCorrect == Spec => []UidsCounted
<1>1. Init => UidsCounted
  BY BoundAssumption DEF Init, UidsCounted, Kinds
<1>2. Inv /\ UidsCounted /\ [Next]_vars => UidsCounted'
  BY UidsCountedStep
<1> QED
  BY <1>1, <1>2, InvCorrect, PTL DEF Spec

\* The operator never acts on a success that has not happened: what its cache
\* says of a prune job was so, and the finalizer of a CR that asks for
\* pruning is about to go only if some CR's prune job has succeeded.
LEMMA SuccessRecordedCorrect == Spec => []SuccessRecorded
<1>1. Init => SuccessRecorded
  BY KindFacts DEF Init, SuccessRecorded
<1>2. Inv /\ UidsCounted /\ SuccessRecorded /\ [Next]_vars => SuccessRecorded'
  BY SuccessRecordedStep
<1> QED
  BY <1>1, <1>2, InvCorrect, UidsCountedCorrect, PTL DEF Spec

\* As long as no CR is created after the first one: the operator lets go of a
\* CR that asks for pruning only after the prune job of this CR has
\* succeeded.  (A second CR can be taken in by the job of the first one.)
THEOREM PrunedBeforeReleaseCorrect ==
  ASSUME MaxUid = 1
  PROVE  Spec => PrunedBeforeRelease
<1>1. ASSUME Inv, UidsCounted, SuccessRecorded, [Next]_vars, NEW n \in Names, letGo(n),
             cr[n].spec.pruneOnDelete
      PROVE  cr[n].uid \in pruned
  <2>1. pc = "removeFinalizer" /\ cr[n] = inst /\ pruned # {}
    BY <1>1, LetGoStep DEF SuccessRecorded
  <2>2. cr[n] # Absent /\ cr[n] \in NodeFeatureDiscovery
    BY <1>1 DEF letGo, Inv, TypeOK, TypeCR
  <2>3. cr[n].uid \in Nat
    BY <2>2 DEF NodeFeatureDiscovery
  <2>4. nextUid \in 1 .. 2 /\ 0 < cr[n].uid /\ cr[n].uid < nextUid
    BY <1>1, <2>2 DEF UidsCounted, Inv, UidsUsed
  <2>5. cr[n].uid = 1 /\ pruned \subseteq {1}
    BY <1>1, <2>3, <2>4 DEF SuccessRecorded
  <2> QED
    BY <2>1, <2>5
<1>2. Inv /\ UidsCounted /\ SuccessRecorded /\ [Next]_vars =>
        [\A n \in Names : letGo(n) /\ cr[n].spec.pruneOnDelete => cr[n].uid \in pruned]_vars
  BY <1>1
<1> QED
  BY <1>2, InvCorrect, UidsCountedCorrect, SuccessRecordedCorrect, PTL DEF Spec, PrunedBeforeRelease
=============================================================================
