--------------------------- MODULE HandoverProofs ---------------------------
(***************************************************************************)
(* What an old leader does after the hand-over does not matter in the end. *)
(* To the new leader it is one more user of the API server: whatever it    *)
(* writes, from copies however outdated, is announced, so that the         *)
(* invariants of QuietProofs hold whoever the steps belong to.             *)
(***************************************************************************)
EXTENDS Handover, QuietProofs

\* The new leader's part of the invariant.
HealInv == TypeOK /\ FreshCopies /\ BranchFits /\ NothingForgotten /\ PruningRemembered

\* The copies the old leader still works on have the right types, and
\* nothing else is known about them.
OldTyped ==
  /\ oldInst \in NodeFeatureDiscovery \cup {Absent}
  /\ oldPc # "idle" => oldInst # Absent
  /\ \A k \in Kinds : oldObjCache[k] \in Object(k) \cup {Absent}

HandoverInv == HealInv /\ OldTyped

-----------------------------------------------------------------------------
(* The new leader's own steps *)

\* A copy marked fresh is the current version of the CR, and Reconcile stays
\* in the branch that fits its copy.  (Inv is more than that, and does not
\* survive an old leader.)
LEMMA FreshStep ==
  ASSUME TypeOK, FreshCopies, BranchFits, [Next]_vars
  PROVE  FreshCopies' /\ BranchFits'
<1>0. TypeOK' /\ AbstractNext
  BY StepEffect
<1>1. ASSUME UNCHANGED crCache, \A n \in Names : crFresh'[n] => crFresh[n] /\ cr'[n] = cr[n],
             instFresh' => instFresh /\ UNCHANGED inst /\ cr'[inst.name] = cr[inst.name]
      PROVE  FreshCopies'
  BY <1>1 DEF FreshCopies
<1>2. ASSUME pc' = "idle" PROVE BranchFits'
  BY <1>2, IdleFits
<1>3. ASSUME UNCHANGED <<pc, inst>> PROVE BranchFits'
  BY <1>3 DEF BranchFits
<1>4. ASSUME NEW n \in Names, Reconcile(n) PROVE FreshCopies' /\ BranchFits'
  <2>1. UNCHANGED <<cr, crFresh, crCache>>
    BY <1>4 DEF Reconcile, crVars, cacheVars
  <2>2. CASE crCache[n] = Absent
    BY <1>1, <1>3, <1>4, <2>1, <2>2 DEF Reconcile
  <2>3. CASE crCache[n] # Absent
    <3>1. /\ pc' = firstStep(crCache[n]) /\ inst' = crCache[n] /\ instFresh' = crFresh[n]
          /\ crCache[n] \in NodeFeatureDiscovery /\ crCache[n].name = n
      BY <1>4, <2>3 DEF Reconcile, TypeOK, TypeCR
    <3>2. FreshCopies'
      BY <2>1, <2>3, <3>1 DEF FreshCopies
    <3>3. BranchFits'
      BY <3>1 DEF BranchFits, firstStep, applySteps, teardownSteps, NodeFeatureDiscovery
    <3> QED
      BY <3>2, <3>3
  <2> QED
    BY <2>2, <2>3
<1>5. ASSUME NEW new, UpdateEffect(new) PROVE FreshCopies' /\ BranchFits'
  <2>1. \A n \in Names : crFresh'[n] => crFresh[n] /\ cr'[n] = cr[n]
    BY <1>5 DEF UpdateEffect
  <2> QED
    BY <1>1, <1>2, <1>5, <2>1 DEF UpdateEffect
<1>6. ASSUME StatusEffect PROVE FreshCopies' /\ BranchFits'
  <2>1. \A n \in Names : crFresh'[n] => crFresh[n] /\ cr'[n] = cr[n]
    BY <1>6 DEF StatusEffect
  <2> QED
    BY <1>1, <1>2, <1>6, <2>1 DEF StatusEffect
<1>7. ASSUME pc \in applySteps, NEW k, ApplyEffect(k) PROVE FreshCopies' /\ BranchFits'
  BY <1>1, <1>7, ApplyFits DEF ApplyEffect, notByComponents
<1>8. ASSUME pc \in teardownSteps, NEW s \in teardownSteps, pc' = s, UNCHANGED inst
      PROVE  BranchFits'
  <2>1. s \notin applySteps /\ s # "setFinalizer"
    BY DEF applySteps, teardownSteps
  <2>2. inst.deleting
    BY <1>8 DEF BranchFits
  <2> QED
    BY <1>8, <2>1, <2>2 DEF BranchFits
<1>9. ASSUME pc \in teardownSteps, NEW k, NEW s \in teardownSteps,
             DeleteEffect(k, s) \/ (s = "removeFinalizer" /\ PruneEffect)
      PROVE  FreshCopies' /\ BranchFits'
  <2>1. FreshCopies'
    BY <1>1, <1>9 DEF DeleteEffect, PruneEffect, notByComponents
  <2>2. pc' = "idle" \/ (pc' = s /\ UNCHANGED inst)
    BY <1>9 DEF DeleteEffect, PruneEffect
  <2> QED
    BY <1>2, <1>8, <1>9, <2>1, <2>2
<1>10. ASSUME Restart \/ \E g \in SyncGroups : Sync(g) PROVE FreshCopies' /\ BranchFits'
  <2>1. CASE Restart
    BY <1>2, <2>1 DEF Restart, FreshCopies
  <2>2. CASE \E g \in SyncGroups : Sync(g)
    BY <1>3, <2>2 DEF Sync, FreshCopies
  <2> QED
    BY <1>10, <2>1, <2>2
<1>11. ASSUME NEW n \in Names, CreateEffect(n) \/ EditEffect(n) PROVE FreshCopies' /\ BranchFits'
  <2>1. PICK new : UserEffect(n, new)
    BY <1>11 DEF CreateEffect, EditEffect
  <2>2. instFresh => inst.name \in Names
    BY DEF FreshCopies, TypeOK, TypeRec, NodeFeatureDiscovery
  <2>3. \A m \in Names : crFresh'[m] => crFresh[m] /\ cr'[m] = cr[m]
    BY <2>1 DEF UserEffect
  <2> QED
    BY <1>1, <1>3, <2>1, <2>2, <2>3 DEF UserEffect
<1>12. CASE ForeignEffect \/ UNCHANGED vars
  BY <1>1, <1>3, <1>12 DEF ForeignEffect, notByComponents, vars, crVars, cacheVars, recVars
<1>13. {"deleteWorkerDS", "deleteWorkerCM", "deleteTopologyDS", "deleteMaster", "deleteGC",
        "handlePrune", "removeFinalizer"} \subseteq teardownSteps
  BY DEF teardownSteps
<1> QED
  BY <1>0, <1>4, <1>5, <1>6, <1>7, <1>9, <1>10, <1>11, <1>12, <1>13 DEF AbstractNext

\* The new leader's steps, those of users and of the cluster, and a restart.
LEMMA OwnStepHeals ==
  ASSUME HealInv, "owner" \notin Edits, \A m, n \in Names : m = n, [Next]_vars
  PROVE  HealInv'
<1>1. TypeOK' /\ FreshCopies' /\ BranchFits'
  BY StepEffect, FreshStep DEF HealInv
<1>2. NothingForgotten'
  BY HandledStep, AppliedStep, ReportedStep, EventsPendingStep DEF HealInv, NothingForgotten
<1>3. PruningRemembered'
  BY HandledStep, PruningStep, JobPendingStep DEF HealInv, PruningRemembered
<1> QED
  BY <1>1, <1>2, <1>3 DEF HealInv

-----------------------------------------------------------------------------
(* The old leader's steps, as the new leader sees them *)

\* Somebody else writes: the types stay, what is written is announced, and
\* the new leader's copy is outdated when its CR is written.
Meddles ==
  /\ TypeOK' /\ Grows /\ Announced /\ Bystander
  /\ instFresh' = stillFresh(instFresh, inst)

\* Such a step leaves nothing forgotten.
LEMMA MeddlingHarmless ==
  ASSUME HealInv, Meddles
  PROVE  HealInv'
<1> USE DEF HealInv
<1>1. ASSUME NEW n \in Names, ~due(n)'
      PROVE  /\ ~due(n) /\ cr'[n] = cr[n]
             /\ serving(n) => serving(n)'
             /\ \A k \in Kinds : obj[k] # Absent /\ obj[k].owner.name = n => obj'[k] = obj[k]
  <2>1. ~due(n) /\ cr'[n] = cr[n]
    BY <1>1, GrowsDue DEF Meddles
  <2>2. serving(n) => serving(n)'
    BY <2>1 DEF Meddles, Bystander, stillFresh, serving
  <2> QED
    BY <1>1, <2>1, <2>2, OwnedStands DEF Meddles
<1>2. UNCHANGED <<pc, inst, failed, crCache, objCache>>
  BY DEF Meddles, Bystander
<1>3. FreshCopies' /\ BranchFits'
  <2>1. FreshCopies'
    BY <1>2 DEF Meddles, Grows, stillFresh, FreshCopies
  <2> QED
    BY <1>2, <2>1 DEF BranchFits
<1>4. \A k \in Kinds : pending(k)'
  <2>1. \A k \in Kinds : pending(k) /\ announced(k)
    BY DEF NothingForgotten, EventsPending, Meddles, Announced
  <2>2. \A i \in Informers : notify[i] \subseteq notify'[i]
    BY DEF Meddles, Announced
  <2> QED
    BY <1>2, <2>1, <2>2, AnnouncedPends
<1>5. ASSUME NEW n \in Names PROVE handledOrDue(n)'
  BY <1>1 DEF NothingForgotten, handledOrDue
<1>6. ASSUME NEW n \in Names, NEW k \in Components, cr[n] # Absent, asDesired(k, cr[n]), ~due(n)'
      PROVE  asDesired(k, cr[n])' /\ obj'[k] = obj[k]
  <2>1. k \in Kinds /\ cr[n].name = n
    BY <1>6, KindFacts DEF TypeOK, TypeCR
  <2>2. obj[k] # Absent /\ obj[k].owner.name = n
    BY <1>6, <2>1 DEF asDesired, owned, controllerRef
  <2>3. obj'[k] = obj[k] /\ cr'[n] = cr[n]
    BY <1>1, <1>6, <2>1, <2>2
  <2> QED
    BY <1>6, <2>3 DEF asDesired, owned, controllerRef, desired
<1>7. ASSUME NEW n \in Names PROVE appliedOrDue(n)'
  <2> SUFFICES ASSUME cr'[n] # Absent, ~cr'[n].deleting, NEW k \in Components,
                      required(k, cr'[n].spec), ~due(n)'
               PROVE  (serving(n) /\ (failed \/ pc \in ahead(k)))' \/ asDesired(k, cr[n])'
    BY DEF appliedOrDue, required
  <2>1. cr'[n] = cr[n] /\ ~due(n) /\ (serving(n) => serving(n)')
    BY <1>1
  <2>2. (serving(n) /\ (failed \/ pc \in ahead(k))) \/ asDesired(k, cr[n])
    BY <2>1 DEF NothingForgotten, appliedOrDue
  <2>3. CASE serving(n) /\ (failed \/ pc \in ahead(k))
    BY <1>2, <2>1, <2>3 DEF ahead
  <2>4. CASE asDesired(k, cr[n])
    BY <1>6, <2>1, <2>4
  <2> QED
    BY <2>2, <2>3, <2>4
<1>8. ASSUME NEW n \in Names PROVE reportedOrDue(n)'
  <2> SUFFICES ASSUME cr'[n] # Absent, ~cr'[n].deleting, ~due(n)', ~serving(n)'
               PROVE  \/ AreConditionsEqual(cr'[n].conditions, conditionsOf(objCache, cr[n].spec)')
                      \/ \E k \in Workloads :
                           required(k, cr'[n].spec) /\ obj'[k] # Absent /\ ~obj'[k].observed
    BY DEF reportedOrDue, required
  <2>1. cr'[n] = cr[n] /\ ~due(n) /\ ~serving(n)
    BY <1>1
  <2>2. ASSUME NEW k \in Workloads, required(k, cr[n].spec) PROVE obj'[k] = obj[k]
    <3>1. k \in Components /\ asDesired(k, cr[n])
      BY <2>1, <2>2, KindFacts DEF NothingForgotten, appliedOrDue
    <3> QED
      BY <1>6, <2>1, <3>1
  <2>3. conditionsOf(objCache, cr[n].spec)' = conditionsOf(objCache, cr[n].spec)
    BY <1>2, <2>1 DEF conditionsOf
  <2> QED
    BY <2>1, <2>2, <2>3 DEF NothingForgotten, reportedOrDue
<1>9. ASSUME NEW n \in Names PROVE pruningOrDue(n)'
  <2> SUFFICES ASSUME cr'[n] # Absent, cr'[n].deleting, cr'[n].finalizer, cr'[n].spec.pruneOnDelete,
                      ~due(n)', ~serving(n)'
               PROVE  /\ ownerName(obj["pruneJob"])' = {n}
                      /\ obj'["pruneJob"].status = zeroStatus("pruneJob")
    BY DEF pruningOrDue, zeroStatus
  <2>1. /\ ownerName(obj["pruneJob"]) = {n}
        /\ obj["pruneJob"].status = zeroStatus("pruneJob")
    BY <1>1 DEF PruningRemembered, pruningOrDue
  <2>2. obj["pruneJob"] # Absent /\ obj["pruneJob"].owner.name = n
    BY <2>1 DEF ownerName
  <2>3. obj'["pruneJob"] = obj["pruneJob"]
    BY <1>1, <2>2, KindFacts
  <2> QED
    BY <2>1, <2>3 DEF ownerName
<1> QED
  BY <1>3, <1>4, <1>5, <1>7, <1>8, <1>9, KindFacts
  DEF Meddles, NothingForgotten, EventsPending, PruningRemembered

\* What a step of the old leader leaves alone, whatever it does.
OldFrame ==
  /\ UNCHANGED <<queue, pc, inst, failed, crCache, objCache, nextUid, edits>>
  /\ faults' \in Nat
  /\ instFresh' = stillFresh(instFresh, inst)

\* A step that writes nothing.
LEMMA IdleMeddles ==
  ASSUME TypeOK, OldFrame, UNCHANGED <<cr, crFresh, objVars>>
  PROVE  Meddles
<1>1. TypeOK'
  BY DEF OldFrame, stillFresh, TypeOK, TypeCR, TypeObj, TypeObjCache, TypeRec, TypeCount, objVars
<1> QED
  BY <1>1, NoneAnnounced DEF OldFrame, Meddles, Grows, Bystander, objVars

\* A write of an object, which takes no owner away.
LEMMA ObjectMeddles ==
  ASSUME TypeOK, Named, OldFrame, UNCHANGED <<cr, crFresh>>, NEW k \in Kinds,
         NEW new \in Object(k) \cup {Absent}, new # Absent => new.owner # Absent,
         obj[k] = Absent /\ new # Absent /\ k \in Workloads => ~new.observed, writeObject(k, new)
  PROVE  Meddles
<1>1. TypeObj'
  BY WriteObjectType DEF TypeOK
<1>2. TypeCR' /\ TypeObjCache' /\ TypeRec' /\ TypeCount'
  BY DEF OldFrame, stillFresh, TypeOK, TypeCR, TypeObjCache, TypeRec, TypeCount
<1>3. Announced
  BY WriteAnnounced DEF Named
<1> QED
  BY <1>1, <1>2, <1>3 DEF OldFrame, Meddles, Announced, Grows, Bystander, TypeOK

\* A write of a CR.
LEMMA CRMeddles ==
  ASSUME TypeOK, OldFrame, UNCHANGED objVars, NEW n \in Names,
         NEW new \in NodeFeatureDiscovery \cup {Absent}, new # Absent => new.name = n, writeCR(n, new)
  PROVE  Meddles
<1>1. /\ TypeCR'
      /\ \A m \in Names : m # n => cr'[m] = cr[m] /\ crFresh'[m] = crFresh[m]
      /\ crFresh'[n] = FALSE
  BY WriteCRType DEF TypeOK, OldFrame
<1>2. TypeObj' /\ TypeObjCache' /\ TypeRec' /\ TypeCount'
  BY DEF OldFrame, stillFresh, TypeOK, TypeObj, TypeObjCache, TypeRec, TypeCount, objVars
<1>3. Grows
  BY <1>1 DEF OldFrame, Grows, objVars
<1> QED
  BY <1>1, <1>2, <1>3, NoneAnnounced DEF OldFrame, Meddles, Bystander, TypeOK, objVars

\* Both leaders run the same code, and write to the same API server.
LEMMA OldOperators ==
  /\ \A k, new : Old!writeObject(k, new) <=> writeObject(k, new)
  /\ \A n, new : Old!writeCR(n, new) <=> writeCR(n, new)
  /\ \A c : Old!controllerRef(c) = controllerRef(c)
  /\ \A k, c : Old!newObject(k, c) = newObject(k, c)
  /\ \A k, s : Old!desired(k, s) = desired(k, s)
<1>1. \A o : Old!ownerName(o) = ownerName(o)
  BY DEF Old!ownerName, ownerName
<1>2. \A k : Old!informerOf(k) = informerOf(k)
  BY DEF Old!informerOf, informerOf, Old!DaemonSets, Old!Deployments, DaemonSets, Deployments
<1>3. \A old, new : Old!watchEvents(old, new) = watchEvents(old, new)
  BY <1>1 DEF Old!watchEvents, watchEvents
<1>4. \A k, new : Old!prunedBy(k, new) = prunedBy(k, new)
  BY DEF Old!prunedBy, prunedBy
<1>5. \A c : Old!controllerRef(c) = controllerRef(c)
  BY DEF Old!controllerRef, controllerRef
<1>6. \A k, s : Old!desired(k, s) = desired(k, s)
  BY DEF Old!desired, desired
<1>7. \A k : Old!zeroStatus(k) = zeroStatus(k)
  BY DEF Old!zeroStatus, zeroStatus, Old!DaemonSets, Old!Deployments, DaemonSets, Deployments
<1>8. Old!Workloads = Workloads
  BY DEF Old!Workloads, Workloads, Old!DaemonSets, Old!Deployments, DaemonSets, Deployments
<1>9. \A k, c : Old!newObject(k, c) = newObject(k, c)
  BY <1>5, <1>6, <1>7, <1>8 DEF Old!newObject, newObject
<1>10. \A k, new : Old!writeObject(k, new) <=> writeObject(k, new)
  BY <1>2, <1>3, <1>4 DEF Old!writeObject, writeObject
<1>11. \A n, new : Old!writeCR(n, new) <=> writeCR(n, new)
  BY DEF Old!writeCR, writeCR
<1> QED
  BY <1>5, <1>6, <1>9, <1>10, <1>11

\* They compute the conditions in the same way.
LEMMA OldConditions ==
  ASSUME NEW view, NEW s
  PROVE  Old!conditionsOf(view, s) = conditionsOf(view, s)
<1>1. \A t : Old!notMet(t) = notMet(t)
  BY DEF Old!notMet, notMet
<1>2. Old!conditionTypes = conditionTypes /\ Old!getAvailableConditions = getAvailableConditions
  BY <1>1 DEF Old!conditionTypes, conditionTypes, Old!getAvailableConditions, getAvailableConditions
<1>3. \A t, r, m : Old!onlyTrue(t, r, m) = onlyTrue(t, r, m)
  BY <1>1, <1>2 DEF Old!onlyTrue, onlyTrue
<1>4. \A r, m : /\ Old!getDegradedConditions(r, m) = getDegradedConditions(r, m)
               /\ Old!getProgressingConditions(r, m) = getProgressingConditions(r, m)
  BY <1>3 DEF Old!getDegradedConditions, getDegradedConditions, Old!getProgressingConditions,
       getProgressingConditions
<1>5. \A x : /\ Old!getDaemonSetConditions(x) = getDaemonSetConditions(x)
            /\ Old!getDeploymentConditions(x) = getDeploymentConditions(x)
  BY DEF Old!getDaemonSetConditions, getDaemonSetConditions, Old!getDeploymentConditions,
     getDeploymentConditions
<1>6. \A v, d, p : Old!notAvailable(v, d, p) = notAvailable(v, d, p)
  BY <1>4 DEF Old!notAvailable, notAvailable
<1>7. \A x, f, d, p :
        /\ Old!getDaemonSetNotAvailableConditions(x, f, d, p)
             = getDaemonSetNotAvailableConditions(x, f, d, p)
        /\ Old!getDeploymentNotAvailableConditions(x, f, d, p)
             = getDeploymentNotAvailableConditions(x, f, d, p)
  BY <1>4, <1>5, <1>6 DEF Old!getDaemonSetNotAvailableConditions, getDaemonSetNotAvailableConditions,
     Old!getDeploymentNotAvailableConditions, getDeploymentNotAvailableConditions
<1>8. \A x : /\ Old!getWorkerNotAvailableConditions(x) = getWorkerNotAvailableConditions(x)
            /\ Old!getTopologyNotAvailableConditions(x) = getTopologyNotAvailableConditions(x)
            /\ Old!getMasterNotAvailableConditions(x) = getMasterNotAvailableConditions(x)
            /\ Old!getGCNotAvailableConditions(x) = getGCNotAvailableConditions(x)
  BY <1>7 DEF Old!getWorkerNotAvailableConditions, getWorkerNotAvailableConditions,
     Old!getTopologyNotAvailableConditions, getTopologyNotAvailableConditions,
     Old!getMasterNotAvailableConditions, getMasterNotAvailableConditions,
     Old!getGCNotAvailableConditions, getGCNotAvailableConditions
<1>9. \A w, m, g, t, u : Old!GetConditions(w, m, g, t, u) = GetConditions(w, m, g, t, u)
  BY <1>2, <1>8 DEF Old!GetConditions, GetConditions
<1>10. \A o : Old!statusOf(o) = statusOf(o)
  BY DEF Old!statusOf, statusOf
<1> QED
  BY <1>9, <1>10 DEF Old!conditionsOf, conditionsOf

\* What CreateOrPatch makes of an object with the old leader's copies: the
\* owner is the one there was, or the CR of the old copy.
LEMMA OldResult ==
  ASSUME TypeOK, Named, OldTyped, oldPc # "idle", NEW k \in Components,
         NEW r \in Old!createOrPatchResults(k)
  PROVE  /\ r.val \in Object(k) \cup {Absent}
         /\ r.val # Absent => r.val.owner # Absent
         /\ obj[k] = Absent /\ r.val # Absent /\ k \in Workloads => ~r.val.observed
<1>1. /\ k \in Kinds /\ oldInst \in NodeFeatureDiscovery
      /\ obj[k] \in Object(k) \cup {Absent} /\ (obj[k] # Absent => obj[k].owner # Absent)
      /\ oldObjCache[k] \in Object(k) \cup {Absent}
  BY KindFacts DEF OldTyped, TypeOK, TypeObj, Named
<1> DEFINE new == newObject(k, oldInst)
           ref == controllerRef(oldInst)
           wanted == desired(k, oldInst.spec)
<1>2. /\ new \in Object(k) /\ new.owner = ref /\ ref \in OwnerRef /\ ref # Absent
      /\ k \in Workloads => ~new.observed
  <2>1. k \in Workloads => ~new.observed
    BY DEF newObject
  <2> QED
    BY <1>1, <2>1, NewObjectType, AbsentAssumption
<1>3. wanted \in Payloads
  BY <1>1, SpecsAssumption DEF desired, NodeFeatureDiscovery, NodeFeatureDiscoverySpec
<1> HIDE DEF new, ref, wanted
<1>4. Old!newObject(k, oldInst) = new /\ Old!controllerRef(oldInst) = ref
      /\ Old!desired(k, oldInst.spec) = wanted
  BY OldOperators DEF new, ref, wanted
<1>5. ASSUME obj[k] # Absent, oldObjCache[k] # Absent,
             NEW d \in Old!patchedData(obj[k].data, oldObjCache[k].data, wanted)
      PROVE  /\ Old!patched(k, d) \in Object(k)
             /\ Old!patched(k, d).owner # Absent
  <2>1. d \in Payloads \cup {Drifted}
    BY <1>1, <1>3, <1>5 DEF Old!patchedData, Object
  <2>2. PICK own \in {ref, obj[k].owner} :
          Old!patched(k, d) = [obj[k] EXCEPT !.owner = own, !.data = d]
    BY <1>4 DEF Old!patched
  <2> QED
    BY <1>1, <1>2, <1>5, <2>1, <2>2 DEF Object
<1>6. \/ r.val \in {new, obj[k], Absent}
      \/ /\ obj[k] # Absent /\ oldObjCache[k] # Absent
         /\ \E d \in Old!patchedData(obj[k].data, oldObjCache[k].data, wanted) :
              r.val = Old!patched(k, d)
  <2>1. CASE oldObjCache[k] = Absent
    BY <1>4, <2>1 DEF Old!createOrPatchResults, Old!result
  <2>2. CASE oldObjCache[k] # Absent /\ Old!alreadyOwned(oldObjCache[k])
    BY <2>2 DEF Old!createOrPatchResults, Old!result
  <2>3. CASE oldObjCache[k] # Absent /\ ~Old!alreadyOwned(oldObjCache[k]) /\ obj[k] = Absent
    <3>1. r \in {Old!result(Absent, TRUE, TRUE), Old!result(Absent, FALSE, FALSE)}
      BY <2>3, Zenon DEF Old!createOrPatchResults
    <3> QED
      BY <3>1 DEF Old!result
  <2>4. CASE oldObjCache[k] # Absent /\ ~Old!alreadyOwned(oldObjCache[k]) /\ obj[k] # Absent
    <3>1. PICK d \in Old!patchedData(obj[k].data, oldObjCache[k].data, Old!desired(k, oldInst.spec)) :
            r = Old!result(Old!patched(k, d), FALSE, TRUE)
      BY <2>4, Zenon DEF Old!createOrPatchResults
    <3>2. r.val = Old!patched(k, d)
      BY <3>1 DEF Old!result
    <3> QED
      BY <1>4, <2>4, <3>1, <3>2
  <2> QED
    BY <2>1, <2>2, <2>3, <2>4
<1> QED
  BY <1>1, <1>2, <1>5, <1>6

\* A step of the old leader leaves the new one's state alone, ...
oldAlone ==
  /\ UNCHANGED <<queue, pc, inst, failed, objCache>>
  /\ instFresh' = stillFresh(instFresh, inst)

\* ... and goes on with its copy of the CR or returns.
oldEnds ==
  /\ UNCHANGED oldObjCache
  /\ UNCHANGED oldInst \/ (oldPc' = "idle" /\ oldInst' = Absent)

\* Either way the old copies keep their types.
LEMMA OldCopies ==
  ASSUME OldTyped, oldPc # "idle", oldEnds
  PROVE  OldTyped'
BY DEF OldTyped, oldEnds

\* A call answered, failed or lost is counted.
LEMMA OldCharge ==
  ASSUME TypeOK, NEW o, Old!charge(o)
  PROVE  faults' \in Nat
BY DEF TypeOK, TypeCount, Old!charge

\* CreateOrPatch by the old leader.
LEMMA OldApply ==
  ASSUME TypeOK, Named, OldTyped, oldPc # "idle", oldAlone, NEW k \in Components, NEW s, NEW t,
         Old!createOrPatch(k, s, t)
  PROVE  Meddles /\ oldEnds
<1>1. PICK o \in Old!Outcome, r \in Old!createOrPatchResults(k) :
        /\ Old!charge(o)
        /\ Old!writeObject(k, IF o = "rejected" THEN obj[k] ELSE r.val)
        /\ \E u, e : Old!continue(u, e)
        /\ UNCHANGED <<Old!crVars, Old!cacheVars, edits>>
  BY DEF Old!createOrPatch
<1>2. UNCHANGED <<cr, crFresh, nextUid, crCache, oldObjCache, edits>>
  BY <1>1 DEF Old!crVars, Old!cacheVars
<1>3. OldFrame
  BY <1>1, <1>2, OldCharge DEF OldFrame, oldAlone
<1> DEFINE new == IF o = "rejected" THEN obj[k] ELSE r.val
<1>4. /\ k \in Kinds /\ new \in Object(k) \cup {Absent} /\ (new # Absent => new.owner # Absent)
      /\ obj[k] = Absent /\ new # Absent /\ k \in Workloads => ~new.observed
  BY <1>1, KindFacts, OldResult DEF TypeOK, TypeObj, Named
<1>5. writeObject(k, new)
  BY <1>1, OldOperators
<1> HIDE DEF new
<1>6. Meddles
  BY <1>2, <1>3, <1>4, <1>5, ObjectMeddles
<1>7. oldEnds
  BY <1>1, <1>2 DEF oldEnds, Old!continue
<1> QED
  BY <1>6, <1>7

\* A deletion by the old leader.
LEMMA OldDelete ==
  ASSUME TypeOK, Named, oldAlone, NEW k \in Components, NEW s, Old!deleteObject(k, s)
  PROVE  Meddles /\ oldEnds
<1>1. PICK o \in Old!Outcome :
        /\ Old!charge(o)
        /\ Old!writeObject(k, IF o = "rejected" THEN obj[k] ELSE Absent)
        /\ Old!continue(s, FALSE) \/ Old!return(TRUE)
        /\ UNCHANGED <<Old!crVars, Old!cacheVars, edits>>
  BY DEF Old!deleteObject
<1>2. UNCHANGED <<cr, crFresh, nextUid, crCache, oldObjCache, edits>>
  BY <1>1 DEF Old!crVars, Old!cacheVars
<1>3. OldFrame
  BY <1>1, <1>2, OldCharge DEF OldFrame, oldAlone
<1> DEFINE new == IF o = "rejected" THEN obj[k] ELSE Absent
<1>4. k \in Kinds /\ new \in Object(k) \cup {Absent} /\ (new # Absent => new.owner # Absent)
      /\ (obj[k] = Absent => new = Absent)
  BY KindFacts DEF TypeOK, TypeObj, Named
<1>5. writeObject(k, new)
  BY <1>1, OldOperators
<1> HIDE DEF new
<1>6. Meddles
  BY <1>2, <1>3, <1>4, <1>5, ObjectMeddles
<1>7. oldEnds
  BY <1>1, <1>2 DEF oldEnds, Old!continue, Old!return
<1> QED
  BY <1>6, <1>7

\* The old leader looks at its prune job, or creates one.
LEMMA OldPrune ==
  ASSUME TypeOK, Named, OldTyped, oldPc # "idle", oldAlone, Old!handlePrune
  PROVE  Meddles /\ oldEnds
<1>1. UNCHANGED <<cr, crFresh, nextUid, crCache, oldObjCache, edits>>
  BY DEF Old!handlePrune, Old!crVars, Old!cacheVars
<1>2. CASE /\ UNCHANGED <<Old!objVars, faults>>
           /\ \E s, e : Old!continue(s, e) \/ Old!return(e)
  <2>1. UNCHANGED objVars /\ OldFrame
    BY <1>1, <1>2 DEF Old!objVars, objVars, OldFrame, oldAlone, TypeOK, TypeCount
  <2>2. Meddles
    BY <1>1, <2>1, IdleMeddles
  <2>3. oldEnds
    BY <1>1, <1>2 DEF oldEnds, Old!continue, Old!return
  <2> QED
    BY <2>2, <2>3
<1>3. CASE Old!createPruneJob
  <2>1. PICK o \in Old!Outcome :
          /\ Old!charge(o)
          /\ Old!writeObject("pruneJob", IF obj["pruneJob"] = Absent /\ o # "rejected"
                               THEN Old!newObject("pruneJob", oldInst) ELSE obj["pruneJob"])
          /\ \E e : Old!return(e)
    BY <1>3 DEF Old!createPruneJob
  <2> DEFINE new == IF obj["pruneJob"] = Absent /\ o # "rejected"
                      THEN newObject("pruneJob", oldInst) ELSE obj["pruneJob"]
  <2>2. writeObject("pruneJob", new)
    BY <2>1, OldOperators
  <2>3. new \in Object("pruneJob") \cup {Absent} /\ (new # Absent => new.owner # Absent)
    <3>1. oldInst \in NodeFeatureDiscovery
      BY DEF OldTyped
    <3>2. /\ newObject("pruneJob", oldInst) \in Object("pruneJob")
          /\ newObject("pruneJob", oldInst).owner # Absent
      BY <3>1, KindFacts, NewObjectType, AbsentAssumption
    <3> QED
      BY <3>2, KindFacts DEF TypeOK, TypeObj
  <2> HIDE DEF new
  <2>4. OldFrame
    BY <1>1, <2>1, OldCharge DEF OldFrame, oldAlone
  <2>5. Meddles
    BY <1>1, <2>2, <2>3, <2>4, KindFacts, ObjectMeddles
  <2>6. oldEnds
    BY <1>1, <2>1 DEF oldEnds, Old!return
  <2> QED
    BY <2>5, <2>6
<1> QED
  BY <1>2, <1>3 DEF Old!handlePrune

\* The old leader updates the CR.
LEMMA OldUpdate ==
  ASSUME TypeOK, OldTyped, oldPc # "idle", oldAlone, NEW new \in NodeFeatureDiscovery \cup {Absent},
         new # Absent => new.name = oldInst.name, Old!updateCR(new),
         UNCHANGED <<nextUid, Old!objVars, Old!cacheVars, edits>>
  PROVE  Meddles /\ oldEnds
<1>1. PICK o \in Old!Outcome :
        /\ Old!charge(o)
        /\ \E e : Old!return(e)
        /\ Old!writeCR(oldInst.name, new) \/ UNCHANGED <<cr, crFresh>>
  BY DEF Old!updateCR
<1>2. UNCHANGED <<crCache, oldObjCache, objVars>> /\ oldInst.name \in Names
  BY DEF Old!objVars, Old!cacheVars, objVars, OldTyped, NodeFeatureDiscovery
<1>3. OldFrame
  BY <1>1, <1>2, OldCharge DEF OldFrame, oldAlone
<1>4. Meddles
  BY <1>1, <1>2, <1>3, OldOperators, CRMeddles, IdleMeddles
<1>5. oldEnds
  BY <1>1, <1>2 DEF oldEnds, Old!return
<1> QED
  BY <1>4, <1>5

\* The old leader writes the status, to whatever the CR has become.
LEMMA OldStatus ==
  ASSUME TypeOK, OldTyped, oldPc # "idle", oldAlone, Old!handleStatus
  PROVE  Meddles /\ oldEnds
<1> DEFINE n == oldInst.name
           c == conditionsOf(oldObjCache, oldInst.spec)
<1>1. c \in SUBSET Condition /\ Old!conditionsOf(oldObjCache, oldInst.spec) = c
  BY ConditionsType, OldConditions, Zenon DEF conditionsOf
<1>2. n \in Names
  BY DEF OldTyped, NodeFeatureDiscovery
<1> HIDE DEF c
<1>3. UNCHANGED <<crCache, oldObjCache, objVars, edits>>
  BY DEF Old!handleStatus, Old!objVars, Old!cacheVars, objVars
<1>4. /\ \E e : Old!return(e)
      /\ \/ UNCHANGED <<cr, crFresh, nextUid, faults>>
         \/ \E o : /\ Old!charge(o)
                   /\ \/ UNCHANGED <<cr, crFresh, nextUid>>
                      \/ /\ cr[n] # Absent /\ UNCHANGED nextUid
                         /\ Old!writeCR(n, [cr[n] EXCEPT !.conditions = c])
  BY <1>1 DEF Old!handleStatus, Old!crVars
<1>5. OldFrame
  BY <1>3, <1>4, OldCharge DEF OldFrame, oldAlone, TypeOK, TypeCount
<1>6. oldEnds
  BY <1>3, <1>4 DEF oldEnds, Old!return
<1>7. CASE UNCHANGED <<cr, crFresh>>
  BY <1>3, <1>5, <1>6, <1>7, IdleMeddles
<1>8. CASE cr[n] # Absent /\ Old!writeCR(n, [cr[n] EXCEPT !.conditions = c])
  <2> DEFINE new == [cr[n] EXCEPT !.conditions = c]
  <2>1. new \in NodeFeatureDiscovery /\ new.name = n
    BY <1>1, <1>2, <1>8 DEF TypeOK, TypeCR, NodeFeatureDiscovery
  <2>2. writeCR(n, new)
    BY <1>8, OldOperators
  <2> HIDE DEF new
  <2> QED
    BY <1>2, <1>3, <1>5, <1>6, <2>1, <2>2, CRMeddles
<1> QED
  BY <1>4, <1>7, <1>8

\* Whatever the old leader does.
LEMMA OldStepMeddles ==
  ASSUME TypeOK, Named, OldTyped, OldStep
  PROVE  Meddles /\ OldTyped'
<1>1. oldPc # "idle" /\ oldAlone
  BY DEF OldStep, oldAlone
<1> SUFFICES Meddles /\ oldEnds
  BY <1>1, OldCopies
<1>2. oldInst \in NodeFeatureDiscovery
  BY <1>1 DEF OldTyped
<1>3. CASE Old!handleMaster \/ Old!handleWorkerCM \/ Old!handleWorkerDS \/ Old!handleGC
  BY <1>1, <1>3, KindFacts, OldApply DEF Old!handleMaster, Old!handleWorkerCM, Old!handleWorkerDS,
     Old!handleGC
<1>4. CASE Old!handleTopology
  <2>1. CASE oldInst.spec.topologyUpdater
    BY <1>1, <1>4, <2>1, KindFacts, OldApply DEF Old!handleTopology
  <2>2. CASE ~oldInst.spec.topologyUpdater
    <3>1. /\ Old!continue("handleGC", FALSE)
          /\ UNCHANGED <<Old!crVars, Old!objVars, Old!cacheVars, faults, edits>>
      BY <1>4, <2>2 DEF Old!handleTopology
    <3>2. /\ UNCHANGED <<cr, crFresh, nextUid, objVars, crCache, oldObjCache, faults, edits>>
          /\ UNCHANGED oldInst
      BY <3>1 DEF Old!continue, Old!crVars, Old!objVars, Old!cacheVars, objVars
    <3>3. OldFrame
      BY <1>1, <3>2 DEF OldFrame, oldAlone, TypeOK, TypeCount
    <3> QED
      BY <3>2, <3>3, IdleMeddles DEF oldEnds
  <2> QED
    BY <2>1, <2>2
<1>5. CASE Old!handleStatus
  BY <1>1, <1>5, OldStatus
<1>6. CASE Old!finalizeComponents
  <2>1. PICK k \in Components : \E s : Old!deleteObject(k, s)
    BY <1>6, KindFacts, Zenon DEF Old!finalizeComponents, Old!deleteWorkerDS, Old!deleteWorkerCM,
       Old!deleteTopologyDS, Old!deleteMaster, Old!deleteGC
  <2> QED
    BY <1>1, <2>1, OldDelete
<1>7. CASE Old!handlePrune
  BY <1>1, <1>7, OldPrune
<1>8. CASE Old!setFinalizer
  <2> DEFINE new == [oldInst EXCEPT !.finalizer = TRUE]
  <2>1. new \in NodeFeatureDiscovery /\ new.name = oldInst.name
    BY <1>2 DEF NodeFeatureDiscovery
  <2>2. Old!updateCR(new) /\ UNCHANGED <<nextUid, Old!objVars, Old!cacheVars, edits>>
    BY <1>8 DEF Old!setFinalizer
  <2> HIDE DEF new
  <2> QED
    BY <1>1, <2>1, <2>2, OldUpdate
<1>9. CASE Old!removeFinalizer
  <2>1. UNCHANGED <<nextUid, Old!objVars, Old!cacheVars, edits>>
    BY <1>9 DEF Old!removeFinalizer
  <2>2. CASE oldInst.finalizer
    <3> DEFINE new == Old!released(oldInst)
    <3>1. new \in NodeFeatureDiscovery \cup {Absent} /\ (new # Absent => new.name = oldInst.name)
      BY <1>2 DEF Old!released, NodeFeatureDiscovery
    <3>2. Old!updateCR(new)
      BY <1>9, <2>2 DEF Old!removeFinalizer
    <3> HIDE DEF new
    <3> QED
      BY <1>1, <2>1, <3>1, <3>2, OldUpdate
  <2>3. CASE ~oldInst.finalizer
    <3>1. Old!return(FALSE) /\ UNCHANGED <<cr, crFresh, faults>>
      BY <1>9, <2>3 DEF Old!removeFinalizer
    <3>2. UNCHANGED <<objVars, crCache, oldObjCache>> /\ oldPc' = "idle" /\ oldInst' = Absent
      BY <2>1, <3>1 DEF Old!return, Old!objVars, Old!cacheVars, objVars
    <3>3. OldFrame
      BY <1>1, <2>1, <3>1, <3>2 DEF OldFrame, oldAlone, TypeOK, TypeCount
    <3> QED
      BY <3>1, <3>2, <3>3, IdleMeddles DEF oldEnds
  <2> QED
    BY <2>2, <2>3
<1>10. ~ \E n \in Names : Old!Reconcile(n)
  BY <1>1 DEF Old!Reconcile
<1> QED
  BY <1>3, <1>4, <1>5, <1>6, <1>7, <1>8, <1>9, <1>10 DEF OldStep, Old!Operator

-----------------------------------------------------------------------------
(* The hand-over *)

\* Every step of the two leaders, of the users and of the cluster.
LEMMA HandoverStep ==
  ASSUME HandoverInv, "owner" \notin Edits, \A m, n \in Names : m = n, [NextHandover]_allVars
  PROVE  HandoverInv'
<1> USE DEF HandoverInv
<1>1. ASSUME [Next]_vars PROVE HealInv'
  BY <1>1, OwnStepHeals
<1>2. CASE Takeover
  <2>1. [Next]_vars
    BY <1>2 DEF Takeover, Next
  <2>2. OldTyped'
    BY <1>2 DEF Takeover, HealInv, TypeOK, TypeRec, TypeObjCache, OldTyped
  <2> QED
    BY <1>1, <2>1, <2>2
<1>3. CASE NewStep
  <2>1. UNCHANGED <<oldPc, oldInst, oldObjCache>> /\ [Next]_vars
    BY <1>3 DEF NewStep
  <2> QED
    BY <1>1, <2>1 DEF OldTyped
<1>4. CASE OldStep
  <2>1. TypeOK /\ Named
    BY DEF HealInv, NothingForgotten, EventsPending, pending, Named
  <2> QED
    BY <1>4, <2>1, OldStepMeddles, MeddlingHarmless
<1>5. CASE OldStops
  <2>1. OldTyped'
    BY <1>5 DEF OldStops, OldTyped, noCache
  <2> QED
    BY <1>1, <1>5, <2>1 DEF OldStops
<1>6. CASE UNCHANGED allVars
  BY <1>1, <1>6 DEF allVars, oldVars, OldTyped
<1> QED
  BY <1>2, <1>3, <1>4, <1>5, <1>6 DEF NextHandover

\* The invariant holds of a CR that has been served.
LEMMA InitHealed ==
  ASSUME InitHandover, Specs # {}, Names # {}, \A m, n \in Names : m = n
  PROVE  HandoverInv
<1> DEFINE n == CHOOSE m \in Names : TRUE
           c == servedCR(n)
<1>1. n \in Names /\ Names = {n}
  OBVIOUS
<1> HIDE DEF n
<1>2. theSpec \in Specs
  BY DEF theSpec
<1>3. newCR(n, 1) \in NodeFeatureDiscovery
  BY <1>1, <1>2 DEF newCR, NodeFeatureDiscovery
<1>4. conditionsOf(served(n), theSpec) \in SUBSET Condition
  BY ConditionsType, Zenon DEF conditionsOf
<1>5. /\ c \in NodeFeatureDiscovery /\ c # Absent /\ c.name = n /\ c.spec = theSpec /\ c.finalizer
      /\ ~c.deleting /\ c.conditions = conditionsOf(served(n), theSpec)
      /\ controllerRef(c) = controllerRef(newCR(n, 1))
  <2>1. c \in NodeFeatureDiscovery
    BY <1>3, <1>4 DEF servedCR, NodeFeatureDiscovery
  <2> QED
    BY <2>1, AbsentAssumption DEF servedCR, newCR, controllerRef
<1>6. ASSUME NEW k \in Kinds, NEW o, o = [newObject(k, newCR(n, 1)) EXCEPT !.observed = TRUE]
      PROVE  /\ o \in Object(k) /\ o # Absent /\ o.owner = controllerRef(c) /\ o.owner # Absent
             /\ o.data = desired(k, theSpec)
  <2>1. /\ newObject(k, newCR(n, 1)) \in Object(k)
        /\ newObject(k, newCR(n, 1)).owner = controllerRef(c)
        /\ controllerRef(c) \in OwnerRef
    BY <1>3, <1>5, NewObjectType
  <2>2. newObject(k, newCR(n, 1)).data = desired(k, theSpec)
    BY DEF newObject, newCR
  <2> QED
    BY <1>6, <2>1, <2>2, AbsentAssumption DEF Object
<1>7. /\ cr = [m \in Names |-> c] /\ crCache = cr /\ objCache = obj /\ obj = served(n)
      /\ crFresh = [m \in Names |-> TRUE] /\ notify = [i \in Informers |-> {}]
      /\ pc = "idle" /\ inst = Absent /\ instFresh = FALSE
      /\ oldPc = "idle" /\ oldInst = Absent /\ oldObjCache = noCache
  BY <1>1 DEF InitHandover, n
<1>8. ASSUME NEW k \in Kinds
      PROVE  /\ obj[k] \in Object(k) \cup {Absent}
             /\ k \in Components /\ required(k, theSpec) => asDesired(k, c)
             /\ obj[k] # Absent => obj[k].owner # Absent
  <2> DEFINE o == [newObject(k, newCR(n, 1)) EXCEPT !.observed = TRUE]
  <2>1. obj[k] = IF k \in Components /\ required(k, theSpec) THEN o ELSE Absent
    BY <1>7 DEF served
  <2> HIDE DEF o
  <2>2. /\ o \in Object(k) /\ o # Absent /\ o.owner = controllerRef(c) /\ o.owner # Absent
        /\ o.data = desired(k, theSpec)
    BY <1>6 DEF o
  <2> QED
    BY <1>5, <2>1, <2>2 DEF asDesired, owned
<1>9. TypeOK
  <2>1. TypeCR
    BY <1>1, <1>5, <1>7 DEF TypeCR
  <2>2. obj = [k \in Kinds |-> obj[k]]
    BY <1>7 DEF served
  <2>3. TypeObj /\ TypeObjCache
    BY <1>8, <1>7, <2>2, KindFacts DEF TypeObj, TypeObjCache, InitHandover
  <2>4. TypeRec /\ TypeCount
    BY DEF InitHandover, TypeRec, TypeCount, applySteps, teardownSteps
  <2> QED
    BY <2>1, <2>3, <2>4 DEF TypeOK
<1>10. FreshCopies /\ BranchFits
  BY <1>7 DEF FreshCopies, BranchFits, applySteps, teardownSteps
<1>11. \A k \in Kinds : pending(k)
  BY <1>8, <1>7 DEF pending
<1>12. ASSUME NEW m \in Names
       PROVE  handledOrDue(m) /\ appliedOrDue(m) /\ reportedOrDue(m) /\ pruningOrDue(m)
  <2>1. cr[m] = c
    BY <1>7
  <2>2. handledOrDue(m) /\ pruningOrDue(m)
    BY <1>5, <2>1 DEF handledOrDue, pruningOrDue
  <2>3. appliedOrDue(m)
    BY <1>5, <1>8, <2>1, KindFacts DEF appliedOrDue
  <2>4. AreConditionsEqual(c.conditions, conditionsOf(objCache, c.spec))
    BY <1>5, <1>7 DEF AreConditionsEqual, sameStatuses
  <2> QED
    BY <2>1, <2>2, <2>3, <2>4 DEF reportedOrDue
<1>13. OldTyped
  BY <1>7 DEF OldTyped, noCache
<1> QED
  BY <1>9, <1>10, <1>11, <1>12, <1>13, KindFacts
  DEF HandoverInv, HealInv, NothingForgotten, EventsPending, PruningRemembered

\* With a single name, and as long as nobody takes owner references away:
\* an old leader that goes on after the hand-over, on copies of any age, can
\* make the new one work, but not make it forget a CR or a deletion.
THEOREM HandoverHealsCorrect ==
  ASSUME Specs # {}, Names # {}, \A m, n \in Names : m = n, "owner" \notin Edits
  PROVE  SpecHandover => []HandoverHeals
<1>1. InitHandover => HandoverInv
  BY InitHealed
<1>2. HandoverInv /\ [NextHandover]_allVars => HandoverInv'
  BY HandoverStep
<1>3. HandoverInv => HandoverHeals
  BY AppliedWhenQuiet, PruningWhenQuiet DEF HandoverInv, HealInv, HandoverHeals
<1> QED
  BY <1>1, <1>2, <1>3, PTL DEF SpecHandover
=============================================================================
