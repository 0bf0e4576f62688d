--------------------------- MODULE TeardownProofs ---------------------------
(***************************************************************************)
(* The inductive invariant Inv of Reconciler, and what follows from it:    *)
(* nothing is deployed behind the finalizer's back, the prune job starts   *)
(* after the teardown, and the finalizer goes last.  The steps enter the   *)
(* argument only through the effects of ReconcilerProofs.                  *)
(***************************************************************************)
EXTENDS ReconcilerProofs

-----------------------------------------------------------------------------
(* Frames *)

\* When Reconcile has returned there is no branch and no teardown to fit.
LEMMA IdleFits ==
  ASSUME pc' = "idle"
  PROVE  BranchFits' /\ TeardownProgress'
<1>1. "idle" \notin {"setFinalizer"} \cup applySteps \cup teardownSteps
  BY DEF applySteps, teardownSteps
<1>2. \A k \in Kinds : "idle" \notin stepsAfter(k)
  BY DEF stepsAfter, teardownSteps
<1> QED
  BY <1>1, <1>2 DEF BranchFits, TeardownProgress

\* The copies of the CRs stay as they are, except that Reconcile may return.
SameCopies ==
  /\ UNCHANGED <<cr, crCache, crFresh, nextUid>>
  /\ \/ UNCHANGED <<inst, instFresh>>
     \/ inst' = Absent /\ ~instFresh'

\* Then a fresh copy is still fresh and the copies still agree.
LEMMA CopiesFrame ==
  ASSUME FreshCopies, CopiesAgree, SameCopies
  PROVE  FreshCopies' /\ CopiesAgree'
<1>1. CASE UNCHANGED <<inst, instFresh>>
  BY <1>1 DEF SameCopies, FreshCopies, CopiesAgree, kept, knows, sameCR
<1>2. CASE inst' = Absent /\ ~instFresh'
  BY <1>2 DEF SameCopies, FreshCopies, CopiesAgree, kept, knows, sameCR
<1> QED
  BY <1>1, <1>2 DEF SameCopies

\* No object belongs to a CR it did not belong to before.
OwnersShrink ==
  \A k \in Kinds :
    obj'[k] # Absent => \/ obj'[k].owner = Absent
                        \/ obj[k] # Absent /\ obj'[k].owner = obj[k].owner

\* Then UIDs, finalizers and the prune job are as the invariant wants them.
LEMMA OwnersFrame ==
  ASSUME Inv, TypeOK', SameCopies, OwnersShrink
  PROVE  UidsUsed' /\ FinalizerGuard' /\ JobAfterTeardown' /\ SpecsAgree'
<1>1. UidsUsed'
  BY DEF Inv, UidsUsed, SameCopies, OwnersShrink
<1>2. \A c \in NodeFeatureDiscovery : controllerRef(c) # Absent
  BY NewObjectType, AbsentAssumption DEF Kinds
<1>3. ASSUME NEW k \in Kinds, NEW c \in NodeFeatureDiscovery,
             obj'[k] # Absent, obj'[k].owner = controllerRef(c)
      PROVE  obj[k] # Absent /\ obj[k].owner = controllerRef(c)
  BY <1>2, <1>3 DEF OwnersShrink
<1>4. FinalizerGuard'
  <2> SUFFICES ASSUME NEW n \in Names, NEW k \in Kinds, cr[n] # Absent,
                      obj'[k] # Absent, obj'[k].owner = controllerRef(cr[n])
               PROVE  cr[n].finalizer \/ cr[n].deleting
    BY DEF FinalizerGuard, owned, SameCopies, controllerRef
  <2>1. cr[n] \in NodeFeatureDiscovery
    BY DEF Inv, TypeOK, TypeCR
  <2> QED
    BY <1>3, <2>1 DEF Inv, FinalizerGuard, owned
<1>5. JobAfterTeardown'
  <2> SUFFICES ASSUME obj'["pruneJob"] # Absent PROVE JobAfterTeardown'
    BY DEF JobAfterTeardown
  <2>1. "pruneJob" \in Kinds /\ coreComponents \subseteq Kinds
    BY DEF Kinds, coreComponents
  <2>2. obj'["pruneJob"].owner # Absent
    BY DEF TypeOK, TypeObj
  <2>3. obj["pruneJob"] # Absent /\ obj'["pruneJob"].owner = obj["pruneJob"].owner
    BY <2>1, <2>2 DEF OwnersShrink
  <2>4. \A k \in coreComponents :
          obj'[k] # Absent => obj'[k].owner # obj["pruneJob"].owner
    BY <2>1, <2>2, <2>3 DEF OwnersShrink, Inv, JobAfterTeardown
  <2> QED
    BY <2>3, <2>4 DEF Inv, JobAfterTeardown, SameCopies, controllerRef
<1>6. SpecsAgree'
  <2> SUFFICES ASSUME "spec" \notin Edits PROVE SpecsAgree'
    BY DEF SpecsAgree
  <2>1. \A c \in NodeFeatureDiscovery \cup {Absent} : wantsTopology(c) => wantsTopology(c)'
    BY <1>3 DEF wantsTopology, owned, controllerRef, Kinds, Components, Workloads, DaemonSets
  <2>2. /\ inst \in NodeFeatureDiscovery \cup {Absent}
        /\ \A n \in Names : /\ cr[n] \in NodeFeatureDiscovery \cup {Absent}
                            /\ crCache[n] \in NodeFeatureDiscovery \cup {Absent}
    BY DEF Inv, TypeOK, TypeCR, TypeRec
  <2>3. \A n \in Names : agree(crCache[n], cr[n])' /\ wantsTopology(crCache[n])' /\ wantsTopology(cr[n])'
    BY <2>1, <2>2 DEF Inv, SpecsAgree, SameCopies, agree, sameCR, wantsTopology, owned, controllerRef
  <2>4. /\ inst' # Absent => agree(inst, crCache[inst.name])' /\ agree(inst, cr[inst.name])'
        /\ wantsTopology(inst)'
    BY <2>1, <2>2 DEF Inv, SpecsAgree, SameCopies, agree, sameCR, wantsTopology, owned, controllerRef
  <2> QED
    BY <2>3, <2>4 DEF SpecsAgree
<1> QED
  BY <1>1, <1>4, <1>5, <1>6

\* The handlers stay within their branch.
LEMMA ApplyFits ==
  ASSUME BranchFits, pc \in applySteps, pc' \in applySteps, UNCHANGED inst
  PROVE  BranchFits' /\ TeardownProgress'
<1>1. \A s \in applySteps : s # "setFinalizer" /\ s \notin teardownSteps
  BY DEF applySteps, teardownSteps
<1>2. \A k \in Kinds : stepsAfter(k) \subseteq teardownSteps
  BY DEF stepsAfter, teardownSteps
<1> QED
  BY <1>1, <1>2 DEF BranchFits, TeardownProgress

-----------------------------------------------------------------------------
(* One lemma per effect *)

\* A handler deploys a component only for a CR that has kept its finalizer,
\* and for which there is no prune job.
LEMMA ApplyInv ==
  ASSUME Inv, TypeOK', pc \in applySteps, NEW k \in Components, ApplyEffect(k)
  PROVE  Inv'
<1>1. /\ k \in Kinds /\ k # "pruneJob" /\ "pruneJob" \in Kinds /\ Components \subseteq Kinds
      /\ pc # "idle" /\ inst # Absent /\ inst \in NodeFeatureDiscovery
      /\ obj = [j \in Kinds |-> obj[j]]
  BY DEF Kinds, Components, Workloads, DaemonSets, Deployments, Inv, TypeOK, TypeRec, TypeObj,
       applySteps
<1>2. PICK new : /\ obj' = [obj EXCEPT ![k] = new]
                 /\ new # Absent => \/ new.owner = controllerRef(inst)
                                    \/ obj[k] # Absent /\ new.owner = obj[k].owner
                 /\ k = "topologyDS" => inst.spec.topologyUpdater \/ UNCHANGED obj
  BY DEF ApplyEffect
<1>3. SameCopies /\ UNCHANGED <<inst, instFresh>> /\ pc' \in applySteps
  BY DEF ApplyEffect, notByComponents, SameCopies
<1>4. ~inst.deleting /\ inst.finalizer /\ sameCR(inst, cr[inst.name]) /\ cr[inst.name].finalizer
  BY <1>1 DEF Inv, BranchFits, CopiesAgree, kept
<1>5. CASE new # Absent => obj[k] # Absent /\ new.owner = obj[k].owner
  <2>1. OwnersShrink
    BY <1>1, <1>2, <1>5 DEF OwnersShrink
  <2> QED
    BY <1>3, <2>1, OwnersFrame, CopiesFrame, ApplyFits DEF Inv
<1>6. CASE new # Absent /\ new.owner = controllerRef(inst)
  <2>1. UidsUsed'
    BY <1>1, <1>2, <1>3, <1>6 DEF Inv, UidsUsed, SameCopies, controllerRef
  <2>2. FinalizerGuard'
    <3> SUFFICES ASSUME NEW n \in Names, NEW j \in Kinds, cr[n] # Absent,
                        obj'[j] # Absent, obj'[j].owner = controllerRef(cr[n])
                 PROVE  cr[n].finalizer \/ cr[n].deleting
      BY <1>3 DEF FinalizerGuard, owned, SameCopies, controllerRef
    <3>1. CASE j # k
      BY <1>1, <1>2, <3>1 DEF Inv, FinalizerGuard, owned
    <3>2. CASE j = k
      <4>1. controllerRef(inst) = controllerRef(cr[n])
        BY <1>1, <1>2, <1>6, <3>2
      <4>2. inst.name = n
        BY <4>1 DEF controllerRef, Inv, TypeOK, TypeCR
      <4> QED
        BY <1>4, <4>2
    <3> QED
      BY <3>1, <3>2
  <2>3. JobAfterTeardown'
    <3> SUFFICES ASSUME obj'["pruneJob"] # Absent PROVE JobAfterTeardown'
      BY DEF JobAfterTeardown
    <3>1. obj'["pruneJob"] = obj["pruneJob"]
      BY <1>1, <1>2
    <3>2. controllerRef(inst) # obj["pruneJob"].owner
      BY <1>1, <1>4, <3>1 DEF Inv, JobAfterTeardown
    <3>3. \A j \in coreComponents :
            obj'[j] # Absent => obj'[j].owner # obj["pruneJob"].owner
      BY <1>1, <1>2, <1>6, <3>1, <3>2 DEF Inv, JobAfterTeardown, coreComponents
    <3> QED
      BY <1>3, <3>1, <3>3 DEF Inv, JobAfterTeardown, SameCopies, controllerRef
  <2>4. SpecsAgree'
    <3> SUFFICES ASSUME "spec" \notin Edits PROVE SpecsAgree'
      BY DEF SpecsAgree
    <3>1. ASSUME NEW c, c # Absent => agree(inst, c), wantsTopology(c)
          PROVE  c # Absent /\ obj'["topologyDS"] # Absent
                   /\ obj'["topologyDS"].owner = controllerRef(c) => c.spec.topologyUpdater
      <4> SUFFICES ASSUME c # Absent, obj'["topologyDS"] # Absent,
                          obj'["topologyDS"].owner = controllerRef(c),
                          ~owned("topologyDS", c)
                   PROVE  c.spec.topologyUpdater
        BY <3>1 DEF wantsTopology
      <4>1. k = "topologyDS" /\ inst.spec.topologyUpdater /\ controllerRef(inst) = controllerRef(c)
        BY <1>1, <1>2, <1>6 DEF owned, Kinds, Components, Workloads, DaemonSets
      <4> QED
        BY <1>1, <3>1, <4>1 DEF agree, sameCR, controllerRef
    <3>2. /\ \A n \in Names : (cr[n] # Absent => cr[n].name = n)
                               /\ (crCache[n] # Absent => crCache[n].name = n)
          /\ inst.name \in Names
      BY <1>1 DEF Inv, TypeOK, TypeCR, NodeFeatureDiscovery
    <3>3. \A n \in Names : /\ cr[n] # Absent => agree(inst, cr[n])
                           /\ crCache[n] # Absent => agree(inst, crCache[n])
      BY <1>1, <3>2 DEF Inv, SpecsAgree, agree, sameCR
    <3>4. \A n \in Names : wantsTopology(cr[n])' /\ wantsTopology(crCache[n])'
      BY <1>3, <3>1, <3>3 DEF Inv, SpecsAgree, SameCopies, wantsTopology, owned, controllerRef
    <3>5. wantsTopology(inst)'
      BY <1>3, <3>1 DEF Inv, SpecsAgree, wantsTopology, owned, controllerRef, agree
    <3>6. /\ \A n \in Names : agree(crCache[n], cr[n])'
          /\ agree(inst, crCache[inst.name])' /\ agree(inst, cr[inst.name])'
      BY <1>1, <1>3 DEF Inv, SpecsAgree, SameCopies, agree, sameCR
    <3> QED
      BY <3>4, <3>5, <3>6 DEF SpecsAgree
  <2> QED
    BY <1>3, <2>1, <2>2, <2>3, <2>4, CopiesFrame, ApplyFits DEF Inv
<1> QED
  BY <1>2, <1>5, <1>6

\* Every step of finalizeComponents, up to the removal of the finalizer, has
\* the deletions of the steps before it behind it.
nextAfterDeletion(k) ==
  CASE k = "workerDS"   -> {"deleteWorkerCM"}
    [] k = "workerCM"   -> {"deleteTopologyDS", "deleteMaster"}
    [] k = "topologyDS" -> {"deleteMaster"}
    [] k = "masterDep"  -> {"deleteGC"}
    [] k = "gcDep"      -> {"handlePrune"}

deletionOf(k) ==
  CASE k = "workerDS"   -> "deleteWorkerDS"
    [] k = "workerCM"   -> "deleteWorkerCM"
    [] k = "topologyDS" -> "deleteTopologyDS"
    [] k = "masterDep"  -> "deleteMaster"
    [] k = "gcDep"      -> "deleteGC"

\* A kind that is deleted before step s is the one just deleted, or was
\* deleted before that one, or it is the topology updater, skipped after the
\* ConfigMap.
LEMMA TeardownOrder ==
  ASSUME NEW k \in Components, NEW s \in nextAfterDeletion(k)
  PROVE  /\ deletionOf(k) \in teardownSteps /\ s \in teardownSteps
         /\ \A j \in Kinds :
              s \in stepsAfter(j) =>
                \/ j = k
                \/ deletionOf(k) \in stepsAfter(j)
                \/ j = "topologyDS" /\ k = "workerCM" /\ s = "deleteMaster"
                   /\ "topologyDS" \in coreComponents
<1>1. k \in {"workerDS", "workerCM", "topologyDS", "masterDep", "gcDep"}
  BY DEF Components, Workloads, DaemonSets, Deployments
<1> QED
  BY <1>1 DEF nextAfterDeletion, deletionOf, teardownSteps, stepsAfter

\* A deletion by finalizeComponents keeps the invariant.
LEMMA DeleteInv ==
  ASSUME Inv, TypeOK', NEW k \in Components, pc = deletionOf(k),
         NEW s \in nextAfterDeletion(k), DeleteEffect(k, s),
         k = "workerCM" /\ s = "deleteMaster" => ~inst.spec.topologyUpdater
  PROVE  Inv'
<1>1. /\ k \in Kinds /\ obj = [j \in Kinds |-> obj[j]]
  BY DEF Kinds, Inv, TypeOK, TypeObj
<1>2. SameCopies
  BY DEF DeleteEffect, notByComponents, SameCopies
<1>3. PICK new \in {obj[k], Absent} :
        /\ obj' = [obj EXCEPT ![k] = new]
        /\ \/ pc' = s /\ new = Absent /\ UNCHANGED inst
           \/ pc' = "idle"
  BY DEF DeleteEffect
<1>4. OwnersShrink
  BY <1>1, <1>3 DEF OwnersShrink
<1>5. BranchFits' /\ TeardownProgress'
  <2>1. CASE pc' = "idle"
    BY <2>1, IdleFits
  <2>2. CASE pc' = s /\ new = Absent /\ UNCHANGED inst
    <3>1. s \in teardownSteps /\ s \notin applySteps /\ s # "setFinalizer" /\ inst.deleting
      BY TeardownOrder DEF Inv, BranchFits, applySteps, teardownSteps
    <3>2. BranchFits'
      BY <2>2, <3>1 DEF BranchFits
    <3>3. ASSUME NEW j \in Kinds, s \in stepsAfter(j) PROVE ~owned(j, inst)'
      <4>1. \/ j = k
            \/ deletionOf(k) \in stepsAfter(j)
            \/ j = "topologyDS" /\ "topologyDS" \in coreComponents /\ ~inst.spec.topologyUpdater
        BY <3>3, TeardownOrder
      <4>2. inst # Absent /\ ("topologyDS" \in coreComponents => "spec" \notin Edits)
        BY TeardownOrder DEF Inv, TypeOK, TypeRec, teardownSteps, coreComponents
      <4>3. j = k \/ ~owned(j, inst)
        BY <4>1, <4>2 DEF Inv, TeardownProgress, SpecsAgree, wantsTopology
      <4> QED
        BY <1>1, <1>3, <2>2, <4>3 DEF owned, controllerRef
    <3>4. TeardownProgress'
      BY <2>2, <3>3 DEF TeardownProgress
    <3> QED
      BY <3>2, <3>4
  <2> QED
    BY <1>3, <2>1, <2>2
<1> QED
  BY <1>2, <1>4, <1>5, OwnersFrame, CopiesFrame DEF Inv

\* When it is the prune job's turn, every component has been deleted.
LEMMA CoreDeleted ==
  ASSUME NEW k \in coreComponents
  PROVE  /\ k \in Components /\ k \in Kinds
         /\ "handlePrune" \in stepsAfter(k) /\ "removeFinalizer" \in stepsAfter(k)
BY DEF coreComponents, Kinds, Components, Workloads, DaemonSets, Deployments, stepsAfter,
     teardownSteps

\* The prune job is created for a copy of the CR that knows of its deletion,
\* so the other copies know of it too, after the components were deleted.
LEMMA PruneInv ==
  ASSUME Inv, TypeOK', pc = "handlePrune", PruneEffect
  PROVE  Inv'
<1>1. /\ "pruneJob" \in Kinds /\ "pruneJob" \notin Components /\ Components \subseteq Kinds
      /\ obj = [j \in Kinds |-> obj[j]]
      /\ inst # Absent /\ inst \in NodeFeatureDiscovery /\ inst.name \in Names
  BY DEF Kinds, Components, Workloads, DaemonSets, Deployments, Inv, TypeOK, TypeObj, TypeRec,
       NodeFeatureDiscovery
<1>2. SameCopies
  BY DEF PruneEffect, notByComponents, SameCopies
<1>3. inst.deleting
  BY DEF Inv, BranchFits, teardownSteps
<1>4. BranchFits' /\ TeardownProgress'
  <2>1. CASE pc' = "removeFinalizer" /\ UNCHANGED <<inst, instFresh, obj>>
    <3>1. \A j \in Kinds : "removeFinalizer" \in stepsAfter(j) => "handlePrune" \in stepsAfter(j)
      BY DEF stepsAfter, teardownSteps
    <3>2. TeardownProgress'
      BY <2>1, <3>1 DEF Inv, TeardownProgress, owned, controllerRef
    <3>3. BranchFits'
      BY <1>3, <2>1 DEF BranchFits, applySteps
    <3> QED
      BY <3>2, <3>3
  <2>2. CASE pc' = "idle"
    BY <2>2, IdleFits
  <2> QED
    BY <2>1, <2>2 DEF PruneEffect
<1>5. CASE UNCHANGED obj
  <2>1. OwnersShrink
    BY <1>5 DEF OwnersShrink
  <2> QED
    BY <1>2, <1>4, <2>1, OwnersFrame, CopiesFrame DEF Inv
<1>6. ASSUME NEW new, new # Absent, new.owner = controllerRef(inst), inst' = Absent,
             obj' = [obj EXCEPT !["pruneJob"] = new]
      PROVE  Inv'
  <2>1. UidsUsed'
    BY <1>1, <1>2, <1>6 DEF Inv, UidsUsed, SameCopies, controllerRef
  <2>2. /\ \A n \in Names : cr[n] # Absent /\ controllerRef(cr[n]) = controllerRef(inst)
                              => cr[n].deleting
        /\ \A n \in Names : crCache[n] # Absent /\ controllerRef(crCache[n]) = controllerRef(inst)
                              => crCache[n].deleting
    <3>1. \A n \in Names : /\ cr[n] # Absent => cr[n].name = n
                           /\ crCache[n] # Absent => crCache[n].name = n
      BY DEF Inv, TypeOK, TypeCR
    <3>2. \A c, d : controllerRef(c) = controllerRef(d) => c.name = d.name /\ c.uid = d.uid
      BY DEF controllerRef
    <3>3. knows(inst, cr[inst.name]) /\ knows(inst, crCache[inst.name])
      BY <1>1 DEF Inv, CopiesAgree
    <3> QED
      BY <1>1, <1>3, <3>1, <3>2, <3>3 DEF knows, sameCR
  <2>3. FinalizerGuard'
    BY <1>1, <1>2, <1>6, <2>2 DEF Inv, FinalizerGuard, owned, SameCopies, controllerRef
  <2>4. \A k \in coreComponents : obj'[k] # Absent => obj'[k].owner # controllerRef(inst)
    <3>1. \A k \in coreComponents : k \in Components /\ "handlePrune" \in stepsAfter(k)
      BY CoreDeleted
    <3>2. \A k \in coreComponents : ~owned(k, inst) /\ obj'[k] = obj[k]
      BY <1>1, <1>6, <3>1 DEF Inv, TeardownProgress
    <3> QED
      BY <3>2 DEF owned
  <2>5. obj'["pruneJob"].owner = controllerRef(inst)
    BY <1>1, <1>6
  <2>6. JobAfterTeardown'
    BY <1>2, <1>6, <2>2, <2>4, <2>5 DEF JobAfterTeardown, SameCopies, controllerRef
  <2>7. SpecsAgree'
    <3>1. obj'["topologyDS"] = obj["topologyDS"]
      BY <1>1, <1>6 DEF Kinds, Components, Workloads, DaemonSets
    <3> QED
      BY <1>2, <1>6, <3>1 DEF Inv, SpecsAgree, SameCopies, agree, sameCR, wantsTopology, owned, controllerRef
  <2> QED
    BY <1>2, <1>4, <2>1, <2>3, <2>6, <2>7, CopiesFrame DEF Inv
<1> QED
  BY <1>5, <1>6 DEF PruneEffect

\* Everybody else only takes owners away.
LEMMA ForeignInv ==
  ASSUME Inv, TypeOK', ForeignEffect
  PROVE  Inv'
<1>1. obj = [j \in Kinds |-> obj[j]]
  BY DEF Inv, TypeOK, TypeObj
<1>2. OwnersShrink
  BY <1>1 DEF ForeignEffect, OwnersShrink
<1>3. SameCopies /\ UNCHANGED <<pc, inst>>
  BY DEF ForeignEffect, SameCopies, notByComponents
<1>4. BranchFits'
  BY <1>3 DEF Inv, BranchFits
<1>5. TeardownProgress'
  <2> SUFFICES ASSUME NEW k \in Kinds, pc \in stepsAfter(k), owned(k, inst)'
               PROVE  FALSE
    BY <1>3 DEF TeardownProgress
  <2>1. ~owned(k, inst)
    BY DEF Inv, TeardownProgress
  <2>2. inst \in NodeFeatureDiscovery
    <3>1. stepsAfter(k) \subseteq teardownSteps
      BY DEF stepsAfter, teardownSteps
    <3> QED
      BY <3>1 DEF Inv, TypeOK, TypeRec, teardownSteps
  <2>3. controllerRef(inst) # Absent
    BY <2>2, NewObjectType, AbsentAssumption DEF Kinds
  <2> QED
    BY <1>2, <1>3, <2>1, <2>3 DEF OwnersShrink, owned, controllerRef
<1> QED
  BY <1>2, <1>3, <1>4, <1>5, OwnersFrame, CopiesFrame DEF Inv

-----------------------------------------------------------------------------
(* Steps on the CRs and their copies *)

\* Reconcile starts on the cached copy of the CR.
LEMMA ReconcileInv ==
  ASSUME Inv, TypeOK', NEW n \in Names, Reconcile(n)
  PROVE  Inv'
<1>1. UNCHANGED <<cr, crCache, crFresh, nextUid, obj>>
  BY DEF Reconcile, crVars, objVars, cacheVars
<1>2. CASE crCache[n] = Absent
  <2>1. UNCHANGED <<pc, inst, instFresh>>
    BY <1>2 DEF Reconcile
  <2>2. UidsUsed' /\ FreshCopies' /\ CopiesAgree'
    BY <1>1, <2>1 DEF Inv, UidsUsed, FreshCopies, CopiesAgree, kept, knows, sameCR
  <2>3. BranchFits' /\ FinalizerGuard' /\ TeardownProgress' /\ JobAfterTeardown'
    BY <1>1, <2>1 DEF Inv, BranchFits, FinalizerGuard, TeardownProgress, JobAfterTeardown, owned,
         controllerRef
  <2>4. SpecsAgree'
    BY <1>1, <2>1 DEF Inv, SpecsAgree, agree, sameCR, wantsTopology, owned, controllerRef
  <2> QED
    BY <2>2, <2>3, <2>4 DEF Inv
<1>3. CASE crCache[n] # Absent
  <2> DEFINE c == crCache[n]
  <2>1. pc' = firstStep(c) /\ inst' = c /\ (instFresh' <=> crFresh[n])
    BY <1>3 DEF Reconcile
  <2>2. c \in NodeFeatureDiscovery /\ c.name = n
    BY <1>3 DEF Inv, TypeOK, TypeCR
  <2> HIDE DEF c
  <2>3. UidsUsed' /\ FreshCopies'
    BY <1>1, <1>3, <2>1, <2>2 DEF Inv, UidsUsed, FreshCopies, c
  <2>4. CopiesAgree'
    BY <1>1, <1>3, <2>1, <2>2 DEF Inv, CopiesAgree, kept, knows, sameCR, c
  <2>5. BranchFits'
    BY <2>1, <2>2 DEF BranchFits, firstStep, applySteps, teardownSteps, NodeFeatureDiscovery
  <2>6. TeardownProgress'
    BY <2>1 DEF TeardownProgress, firstStep, stepsAfter, teardownSteps
  <2>7. FinalizerGuard'
    BY <1>1 DEF Inv, FinalizerGuard, owned, controllerRef
  <2>8. JobAfterTeardown'
    BY <1>1, <1>3, <2>1 DEF Inv, JobAfterTeardown, controllerRef, c
  <2>9. SpecsAgree'
    BY <1>1, <1>3, <2>1, <2>2 DEF Inv, SpecsAgree, agree, sameCR, wantsTopology, owned, controllerRef, c
  <2> QED
    BY <2>3, <2>4, <2>5, <2>6, <2>7, <2>8, <2>9 DEF Inv
<1> QED
  BY <1>2, <1>3

\* The copies in the informer's cache are brought up to date.
LEMMA FreshenInv ==
  ASSUME Inv, TypeOK', UNCHANGED <<cr, nextUid, obj>>,
         \/ UNCHANGED <<crCache, crFresh>>
         \/ crCache' = cr,
         \/ UNCHANGED <<pc, inst, instFresh>>
         \/ pc' = "idle" /\ inst' = Absent /\ ~instFresh'
  PROVE  Inv'
<1>1. UidsUsed' /\ FinalizerGuard' /\ JobAfterTeardown'
  BY DEF Inv, UidsUsed, FinalizerGuard, JobAfterTeardown, owned, controllerRef
<1>2. FreshCopies'
  <2>1. \A n \in Names : crFresh'[n] => crCache'[n] = cr'[n]
    BY DEF Inv, FreshCopies
  <2>2. instFresh' => inst' # Absent /\ cr'[inst'.name] = inst'
    BY DEF Inv, FreshCopies
  <2> QED
    BY <2>1, <2>2 DEF FreshCopies
<1>3. CopiesAgree'
  <2>1. \A n \in Names : cr[n] # Absent => cr[n].name = n
    BY DEF Inv, TypeOK, TypeCR
  <2>2. \A n \in Names : kept(cr[n]) /\ knows(cr[n], cr[n])
    BY <2>1 DEF kept, knows, sameCR
  <2>3. \A n \in Names : (kept(crCache[n]) /\ knows(crCache[n], cr[n]))'
    BY <2>2 DEF Inv, CopiesAgree, kept, knows, sameCR
  <2>4. kept(inst)' /\ (inst' # Absent => (knows(inst, crCache[inst.name]) /\ knows(inst, cr[inst.name]))')
    BY DEF Inv, CopiesAgree, kept, knows, sameCR
  <2> QED
    BY <2>3, <2>4 DEF CopiesAgree
<1>4. BranchFits' /\ TeardownProgress'
  <2>1. CASE UNCHANGED <<pc, inst, instFresh>>
    BY <2>1 DEF Inv, BranchFits, TeardownProgress, owned, controllerRef
  <2>2. CASE pc' = "idle"
    BY <2>2, IdleFits
  <2> QED
    BY <2>1, <2>2
<1>5. SpecsAgree'
  <2> SUFFICES ASSUME "spec" \notin Edits PROVE SpecsAgree'
    BY DEF SpecsAgree
  <2>1. \A n \in Names : agree(cr[n], cr[n]) /\ wantsTopology(cr[n])
    BY DEF Inv, SpecsAgree, agree
  <2>2. \A n \in Names : (agree(crCache[n], cr[n]) /\ wantsTopology(crCache[n]) /\ wantsTopology(cr[n]))'
    BY <2>1 DEF Inv, SpecsAgree, agree, sameCR, wantsTopology, owned, controllerRef
  <2>3. /\ inst' # Absent => (agree(inst, crCache[inst.name]) /\ agree(inst, cr[inst.name]))'
        /\ wantsTopology(inst)'
    BY DEF Inv, SpecsAgree, agree, sameCR, wantsTopology, owned, controllerRef
  <2> QED
    BY <2>2, <2>3 DEF SpecsAgree
<1> QED
  BY <1>1, <1>2, <1>3, <1>4, <1>5 DEF Inv

\* An existing CR is written: its UID stays, and its spec if users leave it
\* alone, a deletion is not taken back, and the finalizer goes only when every
\* copy knows of the deletion.
RewriteEffect(n, new) ==
  /\ UNCHANGED <<crCache, obj, nextUid>>
  /\ \A m \in Names : cr'[m] = IF m = n THEN new ELSE cr[m]
  /\ \A m \in Names : crFresh'[m] = IF m = n THEN FALSE ELSE crFresh[m]
  /\ cr[n] # Absent
  /\ new # Absent => /\ new.uid = cr[n].uid
                     /\ cr[n].deleting => new.deleting
                     /\ cr[n].finalizer => new.finalizer \/ new.deleting
                     /\ "spec" \notin Edits => new.spec = cr[n].spec
  /\ cr[n].finalizer /\ (new # Absent => ~new.finalizer)
       => inst' = Absent /\ (sameCR(crCache[n], cr[n]) => crCache[n].deleting)
  /\ \/ UNCHANGED <<pc, inst>> /\ (instFresh' => instFresh /\ inst.name # n)
     \/ pc' = "idle" /\ inst' = Absent /\ ~instFresh'

\* Such a write keeps the invariant.
LEMMA RewriteInv ==
  ASSUME Inv, TypeOK', NEW n \in Names, NEW new \in NodeFeatureDiscovery \cup {Absent},
         RewriteEffect(n, new)
  PROVE  Inv'
<1> USE DEF RewriteEffect
<1>0. /\ cr[n].name = n /\ (new # Absent => new.name = n /\ controllerRef(new) = controllerRef(cr[n]))
      /\ \A m \in Names : crCache[m] # Absent => crCache[m].name = m
      /\ \A m \in Names : cr[m] # Absent => cr[m].name = m
      /\ inst # Absent => inst.name \in Names
  BY DEF Inv, TypeOK, TypeCR, TypeRec, controllerRef, NodeFeatureDiscovery
<1>1. UidsUsed'
  BY <1>0 DEF Inv, UidsUsed
<1>2. FreshCopies'
  <2>1. \A m \in Names : crFresh'[m] => crCache'[m] = cr'[m]
    BY DEF Inv, FreshCopies
  <2>2. instFresh' => inst' # Absent /\ cr'[inst'.name] = inst'
    BY <1>0 DEF Inv, FreshCopies
  <2> QED
    BY <2>1, <2>2 DEF FreshCopies
<1>3. CopiesAgree'
  <2>1. ASSUME NEW m \in Names PROVE kept(crCache[m])'
    BY <1>0, <2>1 DEF Inv, CopiesAgree, kept, sameCR
  <2>2. ASSUME NEW m \in Names PROVE knows(crCache[m], cr[m])'
    BY <1>0, <2>2 DEF Inv, CopiesAgree, knows, sameCR
  <2>3. kept(inst)'
    BY <1>0 DEF Inv, CopiesAgree, kept, sameCR
  <2>4. inst' # Absent => knows(inst, crCache[inst.name])' /\ knows(inst, cr[inst.name])'
    BY <1>0 DEF Inv, CopiesAgree, knows, sameCR
  <2> QED
    BY <2>1, <2>2, <2>3, <2>4 DEF CopiesAgree
<1>4. FinalizerGuard'
  <2> SUFFICES ASSUME NEW m \in Names, NEW k \in Kinds, cr'[m] # Absent,
                      obj[k] # Absent, obj[k].owner = controllerRef(cr'[m])
               PROVE  cr'[m].finalizer \/ cr'[m].deleting
    BY DEF FinalizerGuard, owned, controllerRef
  <2>1. CASE m # n
    BY <2>1 DEF Inv, FinalizerGuard, owned
  <2>2. CASE m = n
    BY <1>0, <2>2 DEF Inv, FinalizerGuard, owned
  <2> QED
    BY <2>1, <2>2
<1>5. BranchFits' /\ TeardownProgress'
  <2>1. CASE UNCHANGED <<pc, inst>>
    BY <2>1 DEF Inv, BranchFits, TeardownProgress, owned, controllerRef
  <2>2. CASE pc' = "idle"
    BY <2>2, IdleFits
  <2> QED
    BY <2>1, <2>2
<1>6. JobAfterTeardown'
  <2> SUFFICES ASSUME obj["pruneJob"] # Absent PROVE JobAfterTeardown'
    BY DEF JobAfterTeardown
  <2> DEFINE own == obj["pruneJob"].owner
  <2>1. \A m \in Names : cr'[m] # Absent /\ controllerRef(cr'[m]) = own => cr'[m].deleting
    BY <1>0 DEF Inv, JobAfterTeardown
  <2>2. inst' # Absent /\ controllerRef(inst') = own => inst'.deleting
    BY DEF Inv, JobAfterTeardown, controllerRef
  <2> QED
    BY <2>1, <2>2 DEF Inv, JobAfterTeardown, controllerRef
<1>7. SpecsAgree'
  <2> SUFFICES ASSUME "spec" \notin Edits PROVE SpecsAgree'
    BY DEF SpecsAgree
  <2>1. ASSUME NEW m \in Names
        PROVE  agree(crCache[m], cr[m])' /\ wantsTopology(crCache[m])' /\ wantsTopology(cr[m])'
    BY <1>0, <2>1 DEF Inv, SpecsAgree, agree, sameCR, wantsTopology, owned, controllerRef
  <2>2. /\ inst' # Absent => agree(inst, crCache[inst.name])' /\ agree(inst, cr[inst.name])'
        /\ wantsTopology(inst)'
    BY <1>0 DEF Inv, SpecsAgree, agree, sameCR, wantsTopology, owned, controllerRef
  <2> QED
    BY <2>1, <2>2 DEF SpecsAgree
<1> QED
  BY <1>1, <1>2, <1>3, <1>4, <1>5, <1>6, <1>7 DEF Inv

\* A new CR has a UID that no object and no copy refers to.
LEMMA CreateInv ==
  ASSUME Inv, TypeOK', NEW n \in Names, CreateEffect(n)
  PROVE  Inv'
<1>1. PICK new \in NodeFeatureDiscovery :
        UserEffect(n, new) /\ new.name = n /\ new.uid = nextUid
  BY DEF CreateEffect
<1>2. /\ UNCHANGED <<crCache, obj, pc, inst>> /\ (instFresh' => instFresh /\ inst.name # n)
      /\ \A m \in Names : cr'[m] = IF m = n THEN new ELSE cr[m]
      /\ \A m \in Names : crFresh'[m] = IF m = n THEN FALSE ELSE crFresh[m]
      /\ nextUid' = nextUid + 1 /\ cr[n] = Absent
  BY <1>1 DEF UserEffect, CreateEffect
<1>3. /\ new # Absent /\ nextUid \in Nat
      /\ inst # Absent => inst.name \in Names /\ inst.uid \in Nat
      /\ \A m \in Names : crCache[m] # Absent => crCache[m].name = m /\ crCache[m].uid \in Nat
      /\ \A m \in Names : cr[m] # Absent => cr[m].name = m /\ cr[m].uid \in Nat
  BY AbsentAssumption DEF Inv, TypeOK, TypeCR, TypeRec, TypeCount, NodeFeatureDiscovery
<1>4. \A k \in Kinds : obj[k] # Absent /\ obj[k].owner # Absent => obj[k].owner.uid \in Nat
  BY DEF Inv, TypeOK, TypeObj, Object, OwnerRef
<1>5. UidsUsed'
  BY <1>1, <1>2, <1>3, <1>4 DEF Inv, UidsUsed
<1>6. FreshCopies'
  BY <1>2, <1>3 DEF Inv, FreshCopies
<1>7. CopiesAgree'
  <2>1. ASSUME NEW m \in Names PROVE kept(crCache[m])' /\ knows(crCache[m], cr[m])'
    BY <1>1, <1>2, <1>3, <2>1 DEF Inv, CopiesAgree, UidsUsed, kept, knows, sameCR
  <2>2. kept(inst)'
    BY <1>2, <1>3 DEF Inv, CopiesAgree, kept, sameCR
  <2>3. inst' # Absent => knows(inst, crCache[inst.name])' /\ knows(inst, cr[inst.name])'
    BY <1>1, <1>2, <1>3 DEF Inv, CopiesAgree, UidsUsed, knows, sameCR
  <2> QED
    BY <2>1, <2>2, <2>3 DEF CopiesAgree
<1>8. BranchFits' /\ TeardownProgress'
  BY <1>2 DEF Inv, BranchFits, TeardownProgress, owned, controllerRef
<1>9. \A k \in Kinds : obj[k] # Absent => obj[k].owner # controllerRef(new)
  <2> SUFFICES ASSUME NEW k \in Kinds, obj[k] # Absent, obj[k].owner = controllerRef(new)
               PROVE  FALSE
    OBVIOUS
  <2>1. obj[k].owner # Absent
    BY NewObjectType, AbsentAssumption
  <2>2. obj[k].owner.uid = nextUid
    BY <1>1 DEF controllerRef
  <2> QED
    BY <1>3, <2>1, <2>2 DEF Inv, UidsUsed
<1>10. FinalizerGuard'
  <2> SUFFICES ASSUME NEW m \in Names, NEW k \in Kinds, cr'[m] # Absent,
                      obj[k] # Absent, obj[k].owner = controllerRef(cr'[m])
               PROVE  cr'[m].finalizer \/ cr'[m].deleting
    BY <1>2 DEF FinalizerGuard, owned, controllerRef
  <2> QED
    BY <1>2, <1>9 DEF Inv, FinalizerGuard, owned
<1>11. JobAfterTeardown'
  <2> SUFFICES ASSUME obj["pruneJob"] # Absent PROVE JobAfterTeardown'
    BY <1>2 DEF JobAfterTeardown
  <2> DEFINE own == obj["pruneJob"].owner
  <2>1. \A m \in Names : cr'[m] # Absent /\ controllerRef(cr'[m]) = own => cr'[m].deleting
    BY <1>2, <1>9 DEF Inv, JobAfterTeardown, Kinds
  <2> QED
    BY <1>2, <2>1 DEF Inv, JobAfterTeardown, controllerRef
<1>12. SpecsAgree'
  <2> SUFFICES ASSUME "spec" \notin Edits PROVE SpecsAgree'
    BY DEF SpecsAgree
  <2>1. "topologyDS" \in Kinds
    BY DEF Kinds, Components, Workloads, DaemonSets
  <2>2. ASSUME NEW m \in Names
        PROVE  agree(crCache[m], cr[m])' /\ wantsTopology(crCache[m])' /\ wantsTopology(cr[m])'
    <3>1. agree(crCache[m], cr[m])'
      BY <1>1, <1>2, <1>3, <2>2 DEF Inv, SpecsAgree, UidsUsed, agree, sameCR
    <3>2. wantsTopology(crCache[m])'
      BY <1>2, <2>2 DEF Inv, SpecsAgree, wantsTopology, owned, controllerRef
    <3>3. CASE m = n
      <4>1. cr'[m] = new
        BY <1>2, <3>3
      <4>2. obj["topologyDS"] # Absent => obj["topologyDS"].owner # controllerRef(new)
        BY <1>9, <2>1
      <4> QED
        BY <1>2, <3>1, <3>2, <4>1, <4>2 DEF wantsTopology, owned, controllerRef
    <3>4. CASE m # n
      BY <1>2, <2>2, <3>1, <3>2, <3>4 DEF Inv, SpecsAgree, wantsTopology, owned, controllerRef
    <3> QED
      BY <3>3, <3>4
  <2>3. /\ inst' # Absent => agree(inst, crCache[inst.name])' /\ agree(inst, cr[inst.name])'
        /\ wantsTopology(inst)'
    BY <1>1, <1>2, <1>3
       DEF Inv, SpecsAgree, UidsUsed, agree, sameCR, wantsTopology, owned, controllerRef
  <2> QED
    BY <2>2, <2>3 DEF SpecsAgree
<1> QED
  BY <1>5, <1>6, <1>7, <1>8, <1>10, <1>11, <1>12 DEF Inv

\* The updates of the CR by Reconcile: the finalizer set by setFinalizer and
\* taken away by removeFinalizer.
LEMMA UpdateInv ==
  ASSUME Inv, TypeOK',
         \/ pc = "setFinalizer" /\ UpdateEffect([inst EXCEPT !.finalizer = TRUE])
         \/ pc = "removeFinalizer" /\ UpdateEffect(released(inst))
  PROVE  Inv'
<1>1. inst \in NodeFeatureDiscovery /\ inst # Absent /\ inst.name \in Names
  BY DEF Inv, TypeOK, TypeRec, NodeFeatureDiscovery
<1>2. PICK new \in NodeFeatureDiscovery \cup {Absent} :
        /\ UpdateEffect(new)
        /\ new # Absent => /\ new.uid = inst.uid /\ (inst.deleting => new.deleting)
                           /\ new.spec = inst.spec
        /\ \/ pc = "setFinalizer" /\ new # Absent /\ new.finalizer
           \/ pc = "removeFinalizer" /\ inst.deleting
  <2>1. CASE pc = "setFinalizer" /\ UpdateEffect([inst EXCEPT !.finalizer = TRUE])
    <3> DEFINE new == [inst EXCEPT !.finalizer = TRUE]
    <3>1. /\ new \in NodeFeatureDiscovery /\ new.uid = inst.uid /\ new.deleting = inst.deleting
          /\ new.spec = inst.spec /\ new.finalizer = TRUE
      BY <1>1 DEF NodeFeatureDiscovery
    <3>2. new # Absent
      BY <3>1, AbsentAssumption
    <3>3. UpdateEffect(new)
      BY <2>1
    <3> HIDE DEF new
    <3> QED
      BY <2>1, <3>1, <3>2, <3>3
  <2>2. CASE pc = "removeFinalizer" /\ UpdateEffect(released(inst))
    <3>1. inst.deleting
      BY <2>2 DEF Inv, BranchFits, teardownSteps
    <3>2. /\ released(inst) \in NodeFeatureDiscovery \cup {Absent}
          /\ released(inst) # Absent => /\ released(inst).uid = inst.uid
                                        /\ released(inst).deleting = inst.deleting
                                        /\ released(inst).spec = inst.spec
      BY <1>1 DEF released, NodeFeatureDiscovery
    <3> QED
      BY <2>2, <3>1, <3>2
  <2> QED
    BY <2>1, <2>2
<1>3. CASE UNCHANGED <<cr, crFresh>>
  BY <1>2, <1>3, FreshenInv DEF UpdateEffect
<1>4. CASE ~UNCHANGED <<cr, crFresh>>
  <2>1. cr[inst.name] = inst
    BY <1>2, <1>4 DEF UpdateEffect, Inv, FreshCopies
  <2>2. inst.deleting => (sameCR(crCache[inst.name], cr[inst.name]) => crCache[inst.name].deleting)
    BY <1>1, <2>1 DEF Inv, CopiesAgree, knows, sameCR
  <2>3. /\ pc' = "idle" /\ inst' = Absent /\ ~instFresh'
        /\ UNCHANGED <<obj, crCache, nextUid>>
        /\ \A m \in Names : cr'[m] = IF m = inst.name THEN new ELSE cr[m]
        /\ \A m \in Names : crFresh'[m] = IF m = inst.name THEN FALSE ELSE crFresh[m]
    BY <1>2, <1>4 DEF UpdateEffect
  <2>4. RewriteEffect(inst.name, new)
    BY <1>1, <1>2, <2>1, <2>2, <2>3 DEF RewriteEffect
  <2> QED
    BY <1>1, <2>4, RewriteInv
<1> QED
  BY <1>3, <1>4

\* handleStatus writes the conditions of the CR and nothing else.
LEMMA StatusInv ==
  ASSUME Inv, TypeOK', pc = "handleStatus", StatusEffect
  PROVE  Inv'
<1>1. inst.name \in Names
  BY DEF Inv, TypeOK, TypeRec, NodeFeatureDiscovery
<1>2. CASE UNCHANGED <<cr, crFresh>>
  BY <1>2, FreshenInv DEF StatusEffect
<1>3. CASE ~UNCHANGED <<cr, crFresh>>
  <2> DEFINE n == inst.name
  <2>1. PICK c \in SUBSET Condition :
          /\ cr[n] # Absent
          /\ \A m \in Names : cr'[m] = IF m = n THEN [cr[n] EXCEPT !.conditions = c] ELSE cr[m]
          /\ \A m \in Names : crFresh'[m] = IF m = n THEN FALSE ELSE crFresh[m]
    BY <1>3 DEF StatusEffect
  <2> DEFINE new == [cr[n] EXCEPT !.conditions = c]
  <2>2. cr[n] \in NodeFeatureDiscovery
    BY <1>1, <2>1 DEF Inv, TypeOK, TypeCR
  <2>3. /\ new \in NodeFeatureDiscovery /\ new.uid = cr[n].uid
        /\ new.finalizer = cr[n].finalizer /\ new.deleting = cr[n].deleting
        /\ new.spec = cr[n].spec
    BY <2>2 DEF NodeFeatureDiscovery
  <2>4. new # Absent
    BY <2>3, AbsentAssumption
  <2>5. \A m \in Names : cr'[m] = IF m = n THEN new ELSE cr[m]
    BY <2>1
  <2>6. pc' = "idle" /\ inst' = Absent /\ ~instFresh' /\ UNCHANGED <<obj, crCache, nextUid>>
    BY DEF StatusEffect
  <2> HIDE DEF new
  <2>7. RewriteEffect(n, new)
    BY <1>1, <2>1, <2>3, <2>4, <2>5, <2>6 DEF RewriteEffect
  <2> QED
    BY <1>1, <2>3, <2>7, RewriteInv
<1> QED
  BY <1>2, <1>3

\* Users edit and delete CRs.
LEMMA EditInv ==
  ASSUME Inv, TypeOK', NEW n \in Names, EditEffect(n)
  PROVE  Inv'
<1>1. PICK new \in NodeFeatureDiscovery \cup {Absent} : RewriteEffect(n, new)
  BY DEF EditEffect, UserEffect, RewriteEffect
<1> QED
  BY <1>1, RewriteInv

-----------------------------------------------------------------------------
(* The theorems *)

\* Every step keeps the invariant: one case per effect.
LEMMA InvStep ==
  ASSUME Inv, [Next]_vars
  PROVE  Inv'
<1>1. TypeOK' /\ AbstractNext
  BY StepEffect DEF Inv
<1>2. CASE UNCHANGED vars
  BY <1>1, <1>2, FreshenInv DEF vars, crVars, objVars, cacheVars, recVars
<1>3. ASSUME NEW n \in Names, Reconcile(n) PROVE Inv'
  BY <1>1, <1>3, ReconcileInv
<1>4. CASE \/ pc = "setFinalizer" /\ UpdateEffect([inst EXCEPT !.finalizer = TRUE])
           \/ pc = "removeFinalizer" /\ UpdateEffect(released(inst))
  BY <1>1, <1>4, UpdateInv
<1>5. CASE pc \in applySteps /\ \E k \in Components : ApplyEffect(k)
  BY <1>1, <1>5, ApplyInv
<1>6. CASE pc = "handleStatus" /\ StatusEffect
  BY <1>1, <1>6, StatusInv
<1>7. CASE \E k \in Components, s \in {"deleteWorkerCM", "deleteTopologyDS", "deleteMaster", "deleteGC",
                                       "handlePrune"} :
             /\ pc = deletionOf(k) /\ s \in nextAfterDeletion(k) /\ DeleteEffect(k, s)
             /\ k = "workerCM" /\ s = "deleteMaster" => ~inst.spec.topologyUpdater
  BY <1>1, <1>7, DeleteInv
<1>8. CASE pc = "handlePrune" /\ PruneEffect
  BY <1>1, <1>8, PruneInv
<1>9. CASE Restart
  BY <1>1, <1>9, FreshenInv DEF Restart
<1>10. ASSUME NEW g \in SyncGroups, Sync(g) PROVE Inv'
  <2>1. UNCHANGED <<crCache, crFresh>> \/ crCache' = cr
    BY <1>10 DEF Sync
  <2> QED
    BY <1>1, <1>10, <2>1, FreshenInv DEF Sync
<1>11. ASSUME NEW n \in Names, CreateEffect(n) \/ EditEffect(n) PROVE Inv'
  BY <1>1, <1>11, CreateInv, EditInv
<1>12. CASE ForeignEffect
  BY <1>1, <1>12, ForeignInv
<1>13. {"workerDS", "workerCM", "topologyDS", "masterDep", "gcDep"} \subseteq Components
  BY DEF Components, Workloads, DaemonSets, Deployments
<1>14. CASE \/ pc = "deleteWorkerDS" /\ DeleteEffect("workerDS", "deleteWorkerCM")
            \/ /\ pc = "deleteWorkerCM"
               /\ \E s \in {"deleteTopologyDS", "deleteMaster"} :
                    /\ s = "deleteMaster" => ~inst.spec.topologyUpdater
                    /\ DeleteEffect("workerCM", s)
            \/ pc = "deleteTopologyDS" /\ DeleteEffect("topologyDS", "deleteMaster")
            \/ pc = "deleteMaster" /\ DeleteEffect("masterDep", "deleteGC")
            \/ pc = "deleteGC" /\ DeleteEffect("gcDep", "handlePrune")
  BY <1>7, <1>13, <1>14 DEF deletionOf, nextAfterDeletion
<1> QED
  BY <1>1, <1>2, <1>3, <1>4, <1>5, <1>6, <1>8, <1>9, <1>10, <1>11, <1>12, <1>14 DEF AbstractNext

\* Reconcile works on copies, yet what it does agrees with the CR: UIDs are
\* not reused, a copy never knows of a deletion the CR has not, and the
\* teardown is in order.
THEOREM InvCorrect == Spec => []Inv
<1>1. Init => Inv
  <2> SUFFICES ASSUME Init PROVE Inv
    OBVIOUS
  <2>1. TypeOK
    BY InitTypeOK
  <2>2. /\ \A n \in Names : cr[n] = Absent /\ crCache[n] = Absent
        /\ \A k \in Kinds : obj[k] = Absent
        /\ inst = Absent /\ pc = "idle" /\ ~instFresh
    BY DEF Init
  <2>3. UidsUsed /\ FreshCopies /\ CopiesAgree /\ FinalizerGuard
    BY <2>2 DEF UidsUsed, FreshCopies, CopiesAgree, FinalizerGuard, kept, knows, sameCR
  <2>4. BranchFits
    BY <2>2 DEF BranchFits, applySteps, teardownSteps
  <2>5. TeardownProgress /\ JobAfterTeardown
    BY <2>2 DEF TeardownProgress, JobAfterTeardown, owned, Kinds
  <2>6. SpecsAgree
    BY <2>2 DEF SpecsAgree, agree, sameCR, wantsTopology
  <2> QED
    BY <2>1, <2>3, <2>4, <2>5, <2>6 DEF Inv
<1>2. Inv /\ [Next]_vars => Inv'
  BY InvStep
<1> QED
  BY <1>1, <1>2, PTL DEF Spec

\* Whatever is deployed for an existing CR, the CR has the finalizer or is
\* being deleted: no component can be left behind unnoticed.
THEOREM FinalizerGuardCorrect == Spec => []FinalizerGuard
BY InvCorrect, PTL DEF Inv

\* The prune job of a CR and its components (if specs are edited: but for the
\* topology updater) never exist at the same time.
THEOREM TeardownBeforePruneCorrect == Spec => []TeardownBeforePrune
<1>1. Inv => TeardownBeforePrune
  BY DEF Inv, JobAfterTeardown, TeardownBeforePrune, owned, coreComponents, Components, Kinds
<1> QED
  BY <1>1, InvCorrect, PTL

\* Only the last step of the teardown takes the finalizer from a CR, or the
\* CR itself while it has the finalizer, and its copy is then the CR.
LEMMA LetGoStep ==
  ASSUME Inv, [Next]_vars, NEW n \in Names, letGo(n)
  PROVE  pc = "removeFinalizer" /\ cr[n] = inst
<1>1. AbstractNext
  BY StepEffect DEF Inv
<1>2. CASE pc = "removeFinalizer" /\ UpdateEffect(released(inst))
  <2>1. n = inst.name /\ instFresh
    BY <1>2 DEF UpdateEffect, letGo
  <2> QED
    BY <1>2, <2>1 DEF Inv, FreshCopies
<1>3. CASE pc = "setFinalizer" /\ UpdateEffect([inst EXCEPT !.finalizer = TRUE])
  <2>1. n = inst.name /\ instFresh
    BY <1>3 DEF UpdateEffect, letGo
  <2>2. cr[n] = inst /\ ~inst.finalizer
    BY <1>3, <2>1 DEF Inv, FreshCopies, BranchFits
  <2> QED
    BY <2>2 DEF letGo
<1>4. CASE pc = "handleStatus" /\ StatusEffect
  <2> DEFINE m == inst.name
  <2>1. PICK c \in SUBSET Condition : n = m /\ cr'[n] = [cr[n] EXCEPT !.conditions = c]
    BY <1>4 DEF StatusEffect, letGo
  <2>2. cr[n] \in NodeFeatureDiscovery
    BY DEF letGo, Inv, TypeOK, TypeCR
  <2>3. /\ cr'[n] \in NodeFeatureDiscovery
        /\ cr'[n].finalizer = cr[n].finalizer /\ cr'[n].uid = cr[n].uid
    BY <2>1, <2>2 DEF NodeFeatureDiscovery
  <2> QED
    BY <2>3, AbsentAssumption DEF letGo
<1>5. ASSUME NEW m \in Names, CreateEffect(m) \/ EditEffect(m) PROVE FALSE
  BY <1>5 DEF CreateEffect, EditEffect, UserEffect, letGo
<1>6. CASE UNCHANGED cr
  BY <1>6 DEF letGo
<1>7. ASSUME NEW k, NEW s, ApplyEffect(k) \/ DeleteEffect(k, s) \/ PruneEffect \/ ForeignEffect
      PROVE  UNCHANGED cr
  BY <1>7 DEF ApplyEffect, DeleteEffect, PruneEffect, ForeignEffect, notByComponents
<1>8. ASSUME \/ \E m \in Names : Reconcile(m)
             \/ Restart
             \/ \E g \in SyncGroups : Sync(g)
             \/ UNCHANGED vars
      PROVE  UNCHANGED cr
  BY <1>8 DEF Reconcile, Restart, Sync, vars, crVars
<1> QED
  BY <1>1, <1>2, <1>3, <1>4, <1>5, <1>6, <1>7, <1>8 DEF AbstractNext

\* The operator lets go of a CR only when it is being deleted and its
\* components are gone.
THEOREM TornDownBeforeReleaseCorrect == Spec => TornDownBeforeRelease
<1>1. ASSUME Inv, NEW n \in Names, pc = "removeFinalizer", cr[n] = inst
      PROVE  cr[n].deleting /\ \A k \in coreComponents : ~owned(k, cr[n])
  <2>1. inst.deleting
    BY <1>1 DEF Inv, BranchFits, teardownSteps
  <2>2. \A k \in coreComponents : k \in Kinds /\ pc \in stepsAfter(k)
    BY <1>1, CoreDeleted
  <2> QED
    BY <1>1, <2>1, <2>2 DEF Inv, TeardownProgress
<1>2. Inv /\ [Next]_vars =>
        [\A n \in Names :
           letGo(n) => cr[n].deleting /\ \A k \in coreComponents : ~owned(k, cr[n])]_vars
  BY <1>1, LetGoStep
<1> QED
  BY <1>2, InvCorrect, PTL DEF Spec, TornDownBeforeRelease

\* Two values of a CR that agree but for the finalizer and the conditions.
LEMMA OperatorFields ==
  ASSUME NEW c \in NodeFeatureDiscovery, NEW d \in NodeFeatureDiscovery,
         \/ \E f \in BOOLEAN : d = [c EXCEPT !.finalizer = f]
         \/ \E cs \in SUBSET Condition : d = [c EXCEPT !.conditions = cs]
  PROVE  d = [c EXCEPT !.finalizer = d.finalizer, !.conditions = d.conditions]
<1> DEFINE fields == {"name", "uid", "spec", "finalizer", "held", "deleting", "conditions"}
           e == [c EXCEPT !.finalizer = d.finalizer, !.conditions = d.conditions]
<1>1. c = [x \in fields |-> c[x]] /\ d = [x \in fields |-> d[x]] /\ e = [x \in fields |-> e[x]]
  BY DEF NodeFeatureDiscovery
<1>2. ASSUME NEW x \in fields PROVE d[x] = e[x]
  BY DEF NodeFeatureDiscovery
<1> HIDE DEF e, fields
<1>3. d = e
  BY <1>1, <1>2
<1> QED
  BY <1>3 DEF e

\* Of the operator's steps only the two updates and the status patch write a
\* CR, the updates only if the copy they write back is the CR as it is.
LEMMA OperatorWrites ==
  ASSUME Inv, Operator, NEW n \in Names, cr'[n] # cr[n]
  PROVE  /\ cr[n] # Absent
         /\ IF cr'[n] = Absent
              THEN cr[n].deleting /\ ~cr[n].held
              ELSE cr'[n] = [cr[n] EXCEPT !.finalizer = cr'[n].finalizer,
                                          !.conditions = cr'[n].conditions]
<1>0. TypeOK /\ (cr[n] # Absent => cr[n] \in NodeFeatureDiscovery)
  BY DEF Inv, TypeOK, TypeCR
<1>1. CASE setFinalizer
  <2>1. UpdateEffect([inst EXCEPT !.finalizer = TRUE])
    <3>1. inst \in NodeFeatureDiscovery /\ pc # "idle"
      BY <1>0, <1>1 DEF setFinalizer, TypeOK, TypeRec
    <3> DEFINE new == [inst EXCEPT !.finalizer = TRUE]
    <3>2. new \in NodeFeatureDiscovery /\ new.name = inst.name
      BY <3>1 DEF NodeFeatureDiscovery
    <3>3. updateCR(new) /\ UNCHANGED <<nextUid, objVars, cacheVars, edits>>
      BY <1>1 DEF setFinalizer
    <3> HIDE DEF new
    <3>4. UpdateEffect(new)
      BY <1>0, <3>1, <3>2, <3>3, UpdateStep
    <3> QED
      BY <3>4 DEF new
  <2>2. n = inst.name /\ instFresh /\ cr'[n] = [inst EXCEPT !.finalizer = TRUE]
    BY <2>1 DEF UpdateEffect
  <2>3. cr[n] = inst /\ inst # Absent
    BY <2>2 DEF Inv, FreshCopies
  <2>4. cr'[n] \in NodeFeatureDiscovery
    BY <1>0, <2>2, <2>3 DEF NodeFeatureDiscovery
  <2> QED
    BY <1>0, <2>2, <2>3, <2>4, AbsentAssumption, OperatorFields
<1>2. CASE removeFinalizer
  <2>1. pc = "removeFinalizer" /\ updateCR(released(inst))
    BY <1>2 DEF removeFinalizer
  <2>2. n = inst.name /\ instFresh /\ cr'[n] = released(inst)
    <3>1. inst.name \in Names /\ cr = [m \in Names |-> cr[m]]
      BY <1>0, <2>1 DEF TypeOK, TypeCR, TypeRec, NodeFeatureDiscovery
    <3>2. updateAccepted /\ writeCR(inst.name, released(inst))
      BY <2>1 DEF updateCR
    <3> QED
      BY <3>1, <3>2 DEF updateAccepted, writeCR
  <2>3. cr[n] = inst /\ inst # Absent /\ inst.deleting
    BY <2>1, <2>2 DEF Inv, FreshCopies, BranchFits, teardownSteps
  <2>4. CASE inst.held
    <3>1. cr'[n] = [inst EXCEPT !.finalizer = FALSE]
      BY <2>2, <2>4 DEF released
    <3>2. cr'[n] \in NodeFeatureDiscovery
      BY <1>0, <2>3, <3>1 DEF NodeFeatureDiscovery
    <3> QED
      BY <1>0, <2>3, <3>1, <3>2, AbsentAssumption, OperatorFields
  <2>5. CASE ~inst.held
    BY <2>2, <2>3, <2>5 DEF released
  <2> QED
    BY <2>4, <2>5
<1>3. CASE handleStatus
  <2>1. StatusEffect
    BY <1>0, <1>3, StatusStep
  <2>2. PICK c \in SUBSET Condition : cr[n] # Absent /\ cr'[n] = [cr[n] EXCEPT !.conditions = c]
    BY <2>1 DEF StatusEffect
  <2>3. cr'[n] \in NodeFeatureDiscovery
    BY <1>0, <2>2 DEF NodeFeatureDiscovery
  <2> QED
    BY <1>0, <2>2, <2>3, AbsentAssumption, OperatorFields
<1>4. CASE \/ \E m \in Names : Reconcile(m)
           \/ handleMaster \/ handleWorkerCM \/ handleWorkerDS \/ handleTopology \/ handleGC
  BY <1>4 DEF Reconcile, handleMaster, handleWorkerCM, handleWorkerDS, handleTopology, handleGC,
       createOrPatch, crVars
<1>5. CASE finalizeComponents \/ handlePrune
  BY <1>5 DEF finalizeComponents, deleteWorkerDS, deleteWorkerCM, deleteTopologyDS, deleteMaster,
       deleteGC, deleteObject, handlePrune, crVars
<1> QED
  BY <1>1, <1>2, <1>3, <1>4, <1>5 DEF Operator

\* Nothing that others write into a CR is lost by the operator's own writes.
THEOREM EditsSurviveCorrect == Spec => EditsSurvive
<1>1. Inv /\ [Next]_vars =>
        [Operator =>
           \A n \in Names :
             cr'[n] # cr[n] =>
               /\ cr[n] # Absent
               /\ IF cr'[n] = Absent
                    THEN cr[n].deleting /\ ~cr[n].held
                    ELSE cr'[n] = [cr[n] EXCEPT !.finalizer = cr'[n].finalizer,
                                                !.conditions = cr'[n].conditions]]_vars
  BY OperatorWrites
<1> QED
  BY <1>1, InvCorrect, PTL DEF Spec, EditsSurvive
=============================================================================
