-------------------------- MODULE ReconcilerProofs --------------------------
(***************************************************************************)
(* Proofs about Reconciler, for every set of names, specs and statuses and *)
(* every bound: type correctness, the inductive invariant Inv, and what    *)
(* follows from it.                                                        *)
(***************************************************************************)
EXTENDS Reconciler, StatusProofs

-----------------------------------------------------------------------------
(* Types of the operators *)

\* A new object has the type of its kind and names its owner.
LEMMA NewObjectType ==
  ASSUME NEW k \in Kinds, NEW c \in NodeFeatureDiscovery
  PROVE  /\ newObject(k, c) \in Object(k)
         /\ newObject(k, c).owner = controllerRef(c)
         /\ controllerRef(c) \in OwnerRef
<1>1. controllerRef(c) \in OwnerRef
  BY DEF controllerRef, OwnerRef, NodeFeatureDiscovery
<1>2. desired(k, c.spec) \in Payloads
  BY SpecsAssumption DEF desired, NodeFeatureDiscovery, NodeFeatureDiscoverySpec
<1>3. zeroStatus(k) \in Statuses(k)
  BY DEF zeroStatus, Statuses, Kinds, Components, Workloads, DaemonSets, Deployments,
       DaemonSetStatus, DeploymentStatus, JobStatus, NoStatus
<1> QED
  BY <1>1, <1>2, <1>3 DEF newObject, Object

-----------------------------------------------------------------------------
(* What the shared parts of the actions do *)

\* A write keeps the objects and what their informers remember well typed.
LEMMA WriteObjectType ==
  ASSUME TypeObj, NEW k \in Kinds, NEW new \in Object(k) \cup {Absent},
         k = "pruneJob" /\ new # Absent => new.owner # Absent,
         writeObject(k, new)
  PROVE  TypeObj'
<1>1. obj' = [j \in Kinds |-> IF j = k THEN new ELSE obj[j]]
  BY DEF writeObject, TypeObj
<1>2. informerOf(k) \in Informers
  BY DEF informerOf, Informers, Kinds, Components, Workloads, DaemonSets, Deployments
<1>3. \A o \in Object(k) \cup {Absent} : ownerName(o) \subseteq Names
  BY AbsentAssumption DEF ownerName, Object, OwnerRef
<1>4. watchEvents(obj[k], new) \subseteq Names
  BY <1>3 DEF watchEvents, TypeObj
<1>5. notify' \in [Informers -> SUBSET Names]
  BY <1>2, <1>4 DEF writeObject, TypeObj
<1>6. prunedBy(k, new) \subseteq Nat
  BY AbsentAssumption DEF prunedBy, Object, OwnerRef
<1>7. pruned' \subseteq Nat
  BY <1>6 DEF writeObject, TypeObj
<1>8. /\ obj' = [j \in Kinds |-> obj'[j]]
      /\ \A j \in Kinds : obj'[j] \in Object(j) \cup {Absent}
      /\ obj'["pruneJob"] # Absent => obj'["pruneJob"].owner # Absent
  BY <1>1 DEF TypeObj, Kinds
<1> QED
  BY <1>5, <1>7, <1>8 DEF TypeObj

\* What CreateOrPatch leaves behind belongs to the CR it works for, or to
\* whom it belonged before.
LEMMA CreateOrPatchResult ==
  ASSUME TypeOK, inst # Absent, NEW k \in Components, NEW r \in createOrPatchResults(k)
  PROVE  /\ r.val \in Object(k) \cup {Absent}
         /\ r.err \in BOOLEAN
         /\ r.val # Absent => \/ r.val.owner = controllerRef(inst)
                              \/ obj[k] # Absent /\ r.val.owner = obj[k].owner
<1>1. /\ inst \in NodeFeatureDiscovery
      /\ k \in Kinds
      /\ obj[k] \in Object(k) \cup {Absent}
      /\ objCache[k] \in Object(k) \cup {Absent}
  BY DEF TypeOK, TypeRec, TypeObj, TypeObjCache, Kinds
<1>2. /\ newObject(k, inst) \in Object(k)
      /\ newObject(k, inst).owner = controllerRef(inst)
      /\ controllerRef(inst) \in OwnerRef
  BY <1>1, NewObjectType
<1>3. desired(k, inst.spec) \in Payloads
  BY <1>1, SpecsAssumption DEF desired, NodeFeatureDiscovery, NodeFeatureDiscoverySpec
<1>4. ASSUME obj[k] # Absent, objCache[k] # Absent,
             NEW d \in patchedData(obj[k].data, objCache[k].data, desired(k, inst.spec))
      PROVE  /\ patched(k, d) \in Object(k)
             /\ patched(k, d).owner \in {controllerRef(inst), obj[k].owner}
  <2>1. d \in Payloads \cup {Drifted}
    BY <1>1, <1>3, <1>4 DEF patchedData, Object
  <2> QED
    BY <1>1, <1>2, <1>4, <2>1 DEF patched, Object
<1>5. CASE objCache[k] = Absent
  <2>1. r \in {result(newObject(k, inst), FALSE, TRUE), result(obj[k], TRUE, TRUE)}
    BY <1>5 DEF createOrPatchResults
  <2>2. \/ r.val = newObject(k, inst) /\ r.err = FALSE
        \/ r.val = obj[k] /\ r.err = TRUE
    BY <2>1 DEF result
  <2> QED
    BY <1>1, <1>2, <2>2
<1>6. CASE objCache[k] # Absent /\ alreadyOwned(objCache[k])
  <2>1. r = result(obj[k], TRUE, FALSE)
    BY <1>6 DEF createOrPatchResults
  <2> QED
    BY <1>1, <2>1 DEF result
<1>7. CASE objCache[k] # Absent /\ ~alreadyOwned(objCache[k]) /\ obj[k] = Absent
  <2>1. r \in {result(Absent, TRUE, TRUE), result(Absent, FALSE, FALSE)}
    BY <1>7, Zenon DEF createOrPatchResults
  <2>2. r.val = Absent /\ (r.err = TRUE \/ r.err = FALSE)
    BY <2>1 DEF result
  <2> QED
    BY <2>2
<1>8. CASE objCache[k] # Absent /\ ~alreadyOwned(objCache[k]) /\ obj[k] # Absent
  <2>1. PICK d \in patchedData(obj[k].data, objCache[k].data, desired(k, inst.spec)) :
          r = result(patched(k, d), FALSE, TRUE)
    BY <1>8, Zenon DEF createOrPatchResults
  <2>2. r.val = patched(k, d) /\ r.err = FALSE
    BY <2>1 DEF result
  <2> QED
    BY <1>4, <1>8, <2>2
<1> QED
  BY <1>5, <1>6, <1>7, <1>8

\* Reconcile goes on with a further step.
LEMMA ContinueType ==
  ASSUME TypeRec, pc # "idle", NEW s \in applySteps \cup teardownSteps, NEW e \in BOOLEAN,
         continue(s, e)
  PROVE  TypeRec'
BY DEF TypeRec, continue, applySteps, teardownSteps

\* Reconcile returns, and may queue its own request again.
LEMMA ReturnType ==
  ASSUME TypeRec, pc # "idle", NEW e, return(e)
  PROVE  TypeRec' /\ pc' = "idle" /\ inst' = Absent /\ ~instFresh'
<1>1. inst.name \in Names
  BY DEF TypeRec, NodeFeatureDiscovery
<1> QED
  BY <1>1 DEF TypeRec, return

\* A charged request keeps the counters natural numbers.
LEMMA ChargeType ==
  ASSUME TypeCount, NEW o, charge(o)
  PROVE  faults' \in Nat
BY DEF TypeCount, charge

\* The part of the state the handlers of the components do not touch.
notByComponents == <<cr, crCache, crFresh, objCache, nextUid>>

\* The effect of a handler on the objects: the one of kind k changes, and
\* belongs to the CR of the running Reconcile or to its former owner.  The
\* topology updater is written only for a CR that asks for it.
ApplyEffect(k) ==
  /\ UNCHANGED <<notByComponents, inst, instFresh>>
  /\ pc' \in applySteps
  /\ k = "topologyDS" /\ ~inst.spec.topologyUpdater => UNCHANGED obj
  /\ \E new : /\ obj' = [obj EXCEPT ![k] = new]
              /\ new # Absent => \/ new.owner = controllerRef(inst)
                                 \/ obj[k] # Absent /\ new.owner = obj[k].owner

\* A handler's CreateOrPatch keeps the types and has that effect.
LEMMA ApplyStep ==
  ASSUME TypeOK, pc \in applySteps, NEW k \in Components, NEW s \in applySteps,
         NEW t \in applySteps, createOrPatch(k, s, t),
         k = "topologyDS" => inst.spec.topologyUpdater
  PROVE  TypeOK' /\ ApplyEffect(k)
<1>0. pc # "idle" /\ inst # Absent /\ k \in Kinds /\ k # "pruneJob"
  BY DEF applySteps, TypeOK, TypeRec, Kinds, Components, Workloads, DaemonSets, Deployments
<1>1. PICK o \in Outcome, r \in createOrPatchResults(k) :
        /\ charge(o)
        /\ writeObject(k, IF o = "rejected" THEN obj[k] ELSE r.val)
        /\ IF r.err \/ o # "ok" THEN continue(t, TRUE) ELSE continue(s, FALSE)
        /\ UNCHANGED <<crVars, cacheVars, edits>>
  BY DEF createOrPatch
<1>2. /\ r.val \in Object(k) \cup {Absent}
      /\ r.val # Absent => \/ r.val.owner = controllerRef(inst)
                           \/ obj[k] # Absent /\ r.val.owner = obj[k].owner
  BY <1>0, CreateOrPatchResult
<1> DEFINE new == IF o = "rejected" THEN obj[k] ELSE r.val
<1>3. /\ new \in Object(k) \cup {Absent}
      /\ new # Absent => \/ new.owner = controllerRef(inst)
                         \/ obj[k] # Absent /\ new.owner = obj[k].owner
  BY <1>0, <1>2 DEF TypeOK, TypeObj
<1>4. writeObject(k, new)
  BY <1>1
<1> HIDE DEF new
<1>5. TypeObj'
  BY <1>0, <1>3, <1>4, WriteObjectType DEF TypeOK
<1>6. TypeRec'
  BY <1>0, <1>1, ContinueType DEF TypeOK
<1>7. TypeCR' /\ TypeObjCache' /\ TypeCount'
  BY <1>1, ChargeType DEF TypeOK, TypeCR, TypeObjCache, TypeCount, crVars, cacheVars
<1>8. pc' \in applySteps /\ UNCHANGED <<inst, instFresh>>
  BY <1>1 DEF continue
<1>9. UNCHANGED notByComponents
  BY <1>1 DEF crVars, cacheVars, notByComponents
<1> QED
  BY <1>3, <1>4, <1>5, <1>6, <1>7, <1>8, <1>9 DEF TypeOK, ApplyEffect, writeObject

\* The effect of a deletion by finalizeComponents: the object is gone and
\* finalization goes on with s, or Reconcile returns.
DeleteEffect(k, s) ==
  /\ UNCHANGED notByComponents
  /\ \/ /\ obj' = [obj EXCEPT ![k] = Absent]
        /\ pc' = s
        /\ UNCHANGED <<inst, instFresh>>
     \/ /\ \E new \in {obj[k], Absent} : obj' = [obj EXCEPT ![k] = new]
        /\ pc' = "idle" /\ inst' = Absent /\ ~instFresh'

\* A deletion keeps the types and has that effect.
LEMMA DeleteStep ==
  ASSUME TypeOK, pc \in teardownSteps, NEW k \in Components, NEW s \in teardownSteps,
         deleteObject(k, s)
  PROVE  TypeOK' /\ DeleteEffect(k, s)
<1>0. pc # "idle" /\ k \in Kinds /\ k # "pruneJob"
  BY DEF teardownSteps, Kinds, Components, Workloads, DaemonSets, Deployments
<1>1. PICK o \in Outcome :
        /\ charge(o)
        /\ writeObject(k, IF o = "rejected" THEN obj[k] ELSE Absent)
        /\ IF o = "ok" THEN continue(s, FALSE) ELSE return(TRUE)
        /\ UNCHANGED <<crVars, cacheVars, edits>>
  BY DEF deleteObject
<1> DEFINE new == IF o = "rejected" THEN obj[k] ELSE Absent
<1>2. new \in Object(k) \cup {Absent} /\ new \in {obj[k], Absent} /\ (o = "ok" => new = Absent)
  BY <1>0 DEF TypeOK, TypeObj
<1>3. writeObject(k, new)
  BY <1>1
<1> HIDE DEF new
<1>4. TypeObj'
  BY <1>0, <1>2, <1>3, WriteObjectType DEF TypeOK
<1>5. /\ TypeRec'
      /\ \/ o = "ok" /\ pc' = s /\ UNCHANGED <<inst, instFresh>>
         \/ pc' = "idle" /\ inst' = Absent /\ ~instFresh'
  <2>1. CASE o = "ok"
    <3>1. continue(s, FALSE)
      BY <1>1, <2>1
    <3>2. TypeRec'
      BY <1>0, <3>1, ContinueType DEF TypeOK
    <3>3. pc' = s /\ UNCHANGED <<inst, instFresh>>
      BY <3>1 DEF continue
    <3> QED
      BY <2>1, <3>2, <3>3
  <2>2. CASE o # "ok"
    BY <1>0, <1>1, <2>2, ReturnType DEF TypeOK
  <2> QED
    BY <2>1, <2>2
<1>6. TypeCR' /\ TypeObjCache' /\ TypeCount' /\ UNCHANGED notByComponents
  BY <1>1, ChargeType DEF TypeOK, TypeCR, TypeObjCache, TypeCount, crVars, cacheVars, notByComponents
<1>7. obj' = [obj EXCEPT ![k] = new]
  BY <1>3 DEF writeObject
<1>8. DeleteEffect(k, s)
  BY <1>2, <1>5, <1>6, <1>7 DEF DeleteEffect
<1>9. TypeRec'
  BY <1>5
<1> QED
  BY <1>4, <1>6, <1>8, <1>9 DEF TypeOK

\* The effect of everybody else on the objects: none gets a new owner.
ForeignEffect ==
  /\ UNCHANGED <<notByComponents, pc, inst, instFresh>>
  /\ \E k \in Kinds : \E new :
       /\ obj' = [obj EXCEPT ![k] = new]
       /\ new # Absent => /\ obj[k] # Absent
                          /\ \/ new.owner = obj[k].owner
                             \/ k # "pruneJob" /\ new.owner = Absent

\* A write to an object that leaves the operator's state alone.
LEMMA ForeignWrite ==
  ASSUME TypeOK, NEW k \in Kinds, NEW new \in Object(k) \cup {Absent}, obj[k] # Absent,
         new # Absent => new.owner = obj[k].owner \/ (k # "pruneJob" /\ new.owner = Absent),
         writeObject(k, new), UNCHANGED untouchedByOthers, edits' \in Nat
  PROVE  TypeOK' /\ ForeignEffect
<1>1. TypeObj'
  BY WriteObjectType DEF TypeOK, TypeObj
<1>2. TypeCR' /\ TypeObjCache' /\ TypeRec' /\ TypeCount'
  BY DEF TypeOK, TypeCR, TypeObjCache, TypeRec, TypeCount, untouchedByOthers, crVars, cacheVars,
       recVars
<1> QED
  BY <1>1, <1>2 DEF TypeOK, ForeignEffect, writeObject, untouchedByOthers, notByComponents, crVars,
       cacheVars, recVars

\* The steps of users and controllers on objects.
foreignSteps ==
  \/ \E k \in Components : EditContent(k) \/ RemoveOwner(k)
  \/ \E k \in Kinds : DeleteObject(k) \/ CollectGarbage(k)
  \/ \E k \in Workloads : \E st \in reportable(k) : ObserveWorkload(k, st) \/ ReportStatus(k, st)
  \/ PodSucceeds
  \/ PodFails

\* Edits, status reports, pods and garbage collection are such writes.
LEMMA ForeignStep ==
  ASSUME TypeOK, foreignSteps
  PROVE  TypeOK' /\ ForeignEffect
<1>0. /\ Components \subseteq Kinds /\ Workloads \subseteq Components /\ "pruneJob" \in Kinds
      /\ "pruneJob" \notin Components
      /\ edits \in Nat
      /\ \A k \in Kinds : obj[k] \in Object(k) \cup {Absent}
  BY DEF Kinds, Components, Workloads, DaemonSets, Deployments, TypeOK, TypeObj, TypeCount
<1>1. ASSUME NEW k \in Components, EditContent(k) PROVE TypeOK' /\ ForeignEffect
  <2> DEFINE new == [obj[k] EXCEPT !.data = Drifted]
  <2>1. new \in Object(k) /\ new.owner = obj[k].owner
    BY <1>0, <1>1 DEF EditContent, Object
  <2>2. obj[k] # Absent /\ writeObject(k, new) /\ UNCHANGED untouchedByOthers /\ edits' \in Nat
    BY <1>0, <1>1 DEF EditContent, mayEdit
  <2> HIDE DEF new
  <2> QED
    BY <1>0, <2>1, <2>2, ForeignWrite
<1>2. ASSUME NEW k \in Components, RemoveOwner(k) PROVE TypeOK' /\ ForeignEffect
  <2> DEFINE new == [obj[k] EXCEPT !.owner = Absent]
  <2>1. new \in Object(k) /\ new.owner = Absent
    BY <1>0, <1>2 DEF RemoveOwner, Object
  <2>2. obj[k] # Absent /\ writeObject(k, new) /\ UNCHANGED untouchedByOthers /\ edits' \in Nat
    BY <1>0, <1>2 DEF RemoveOwner, mayEdit
  <2> HIDE DEF new
  <2> QED
    BY <1>0, <2>1, <2>2, ForeignWrite
<1>3. ASSUME NEW k \in Kinds, DeleteObject(k) PROVE TypeOK' /\ ForeignEffect
  BY <1>0, <1>3, ForeignWrite DEF DeleteObject, mayEdit
<1>4. ASSUME NEW k \in Kinds, CollectGarbage(k) PROVE TypeOK' /\ ForeignEffect
  BY <1>0, <1>4, ForeignWrite DEF CollectGarbage
<1>5. ASSUME NEW k \in Workloads, NEW st \in reportable(k) PROVE st \in Statuses(k)
  BY StatusAssumption DEF reportable, Statuses, Workloads, DaemonSets, Deployments
<1>6. ASSUME NEW k \in Workloads, NEW st \in reportable(k), ObserveWorkload(k, st)
      PROVE  TypeOK' /\ ForeignEffect
  <2> DEFINE new == [obj[k] EXCEPT !.status = st, !.observed = TRUE]
  <2>1. new \in Object(k) /\ new.owner = obj[k].owner
    BY <1>0, <1>5, <1>6 DEF ObserveWorkload, Object
  <2> QED
    BY <1>0, <1>6, <2>1, ForeignWrite DEF ObserveWorkload
<1>7. ASSUME NEW k \in Workloads, NEW st \in reportable(k), ReportStatus(k, st)
      PROVE  TypeOK' /\ ForeignEffect
  <2> DEFINE new == [obj[k] EXCEPT !.status = st]
  <2>1. new \in Object(k) /\ new.owner = obj[k].owner
    BY <1>0, <1>5, <1>7 DEF ReportStatus, Object
  <2>2. obj[k] # Absent /\ writeObject(k, new) /\ UNCHANGED untouchedByOthers /\ edits' \in Nat
    BY <1>0, <1>7 DEF ReportStatus, mayEdit
  <2> HIDE DEF new
  <2> QED
    BY <1>0, <2>1, <2>2, ForeignWrite
<1>8. ASSUME PodSucceeds \/ PodFails PROVE TypeOK' /\ ForeignEffect
  <2> DEFINE job == obj["pruneJob"]
  <2>1. job # Absent /\ UNCHANGED untouchedByOthers /\ edits' \in Nat
    BY <1>0, <1>8 DEF PodSucceeds, PodFails
  <2>2. PICK st : st \in JobStatus /\ writeObject("pruneJob", [job EXCEPT !.status = st])
    <3>1. Statuses("pruneJob") = JobStatus
      BY DEF Statuses, DaemonSets, Deployments
    <3>2. job \in Object("pruneJob") /\ job.status \in JobStatus
      BY <1>0, <2>1, <3>1 DEF Object
    <3>3. [job.status EXCEPT !.succeeded = 1] \in JobStatus
      BY <3>2 DEF JobStatus
    <3>4. [job.status EXCEPT !.failed = @ + 1] \in JobStatus
      BY <3>2 DEF JobStatus
    <3> QED
      BY <1>8, <3>3, <3>4 DEF PodSucceeds, PodFails
  <2>3. Statuses("pruneJob") = JobStatus
    BY DEF Statuses, DaemonSets, Deployments
  <2>4. /\ [job EXCEPT !.status = st] \in Object("pruneJob")
        /\ [job EXCEPT !.status = st].owner = job.owner
    BY <1>0, <2>1, <2>2, <2>3 DEF Object
  <2> QED
    BY <1>0, <2>1, <2>2, <2>4, ForeignWrite
<1> QED
  BY <1>1, <1>2, <1>3, <1>4, <1>6, <1>7, <1>8 DEF foreignSteps

\* A write of a CR keeps the CRs well typed.
LEMMA WriteCRType ==
  ASSUME TypeCR, NEW n \in Names, NEW new \in NodeFeatureDiscovery \cup {Absent},
         new # Absent => new.name = n, writeCR(n, new), UNCHANGED crCache
  PROVE  /\ TypeCR'
         /\ \A m \in Names : cr'[m] = IF m = n THEN new ELSE cr[m]
         /\ \A m \in Names : crFresh'[m] = IF m = n THEN FALSE ELSE crFresh[m]
BY DEF TypeCR, writeCR

\* The effect of an update of the CR by Reconcile: refused or failed, or
\* applied to the very version of the CR the copy was taken from.
UpdateEffect(new) ==
  /\ pc' = "idle" /\ inst' = Absent /\ ~instFresh'
  /\ UNCHANGED <<obj, crCache, nextUid>>
  /\ \/ UNCHANGED <<cr, crFresh>>
     \/ /\ instFresh
        /\ \A m \in Names : cr'[m] = IF m = inst.name THEN new ELSE cr[m]
        /\ \A m \in Names : crFresh'[m] = IF m = inst.name THEN FALSE ELSE crFresh[m]

\* client.Update keeps the types and has that effect.
LEMMA UpdateStep ==
  ASSUME TypeOK, pc # "idle", NEW new \in NodeFeatureDiscovery \cup {Absent},
         new # Absent => new.name = inst.name,
         updateCR(new), UNCHANGED <<nextUid, objVars, cacheVars, edits>>
  PROVE  TypeOK' /\ UpdateEffect(new)
<1>0. inst.name \in Names
  BY DEF TypeOK, TypeRec, NodeFeatureDiscovery
<1>1. PICK o \in Outcome :
        /\ charge(o)
        /\ return(o # "ok" \/ ~updateAccepted)
        /\ IF updateAccepted /\ o # "rejected" THEN writeCR(inst.name, new) ELSE UNCHANGED <<cr, crFresh>>
  BY DEF updateCR
<1>2. TypeRec' /\ pc' = "idle" /\ inst' = Absent /\ ~instFresh'
  BY <1>1, ReturnType DEF TypeOK
<1>3. TypeObj' /\ TypeObjCache' /\ TypeCount'
  BY <1>1, ChargeType DEF TypeOK, TypeObj, TypeObjCache, TypeCount, objVars, cacheVars
<1>4. /\ TypeCR'
      /\ \/ UNCHANGED <<cr, crFresh>>
         \/ /\ instFresh
            /\ \A m \in Names : cr'[m] = IF m = inst.name THEN new ELSE cr[m]
            /\ \A m \in Names : crFresh'[m] = IF m = inst.name THEN FALSE ELSE crFresh[m]
  <2>1. CASE updateAccepted /\ o # "rejected"
    BY <1>0, <1>1, <2>1, WriteCRType DEF TypeOK, cacheVars, updateAccepted
  <2>2. CASE ~(updateAccepted /\ o # "rejected")
    BY <1>1, <2>2 DEF TypeOK, TypeCR, cacheVars
  <2> QED
    BY <2>1, <2>2
<1>5. UNCHANGED <<obj, crCache, nextUid>>
  BY DEF objVars, cacheVars
<1>6. UpdateEffect(new)
  BY <1>2, <1>4, <1>5 DEF UpdateEffect
<1>7. TypeCR' /\ TypeRec'
  BY <1>2, <1>4
<1> QED
  BY <1>3, <1>6, <1>7 DEF TypeOK

\* The effect of handleStatus: the CR may get other conditions.
StatusEffect ==
  /\ pc' = "idle" /\ inst' = Absent /\ ~instFresh'
  /\ UNCHANGED <<obj, crCache, nextUid>>
  /\ \/ UNCHANGED <<cr, crFresh>>
     \/ \E c \in SUBSET Condition :
          LET n == inst.name IN
          /\ cr[n] # Absent
          /\ \A m \in Names : cr'[m] = IF m = n THEN [cr[n] EXCEPT !.conditions = c] ELSE cr[m]
          /\ \A m \in Names : crFresh'[m] = IF m = n THEN FALSE ELSE crFresh[m]

\* handleStatus keeps the types and has that effect.
LEMMA StatusStep ==
  ASSUME TypeOK, handleStatus
  PROVE  TypeOK' /\ StatusEffect
<1> DEFINE n == inst.name
           c == conditionsOf(objCache, inst.spec)
<1>0. pc # "idle" /\ n \in Names
  BY DEF handleStatus, TypeOK, TypeRec, NodeFeatureDiscovery
<1>1. c \in SUBSET Condition
  BY ConditionsType, Zenon DEF conditionsOf
<1>2. TypeObj' /\ TypeObjCache' /\ UNCHANGED <<obj, crCache, edits>>
  BY DEF handleStatus, TypeOK, TypeObj, TypeObjCache, objVars, cacheVars
<1>3. CASE AreConditionsEqual(inst.conditions, c)
  <2>1. return(failed) /\ UNCHANGED <<crVars, faults>>
    BY <1>3 DEF handleStatus
  <2>2. TypeRec' /\ pc' = "idle" /\ inst' = Absent /\ ~instFresh'
    BY <1>0, <2>1, ReturnType DEF TypeOK
  <2>3. TypeCR' /\ TypeCount'
    BY <1>2, <2>1 DEF TypeOK, TypeCR, TypeCount, crVars
  <2> QED
    BY <1>2, <2>1, <2>2, <2>3 DEF TypeOK, StatusEffect, crVars
<1>4. CASE ~AreConditionsEqual(inst.conditions, c)
  <2>1. PICK o \in Outcome :
          /\ charge(o)
          /\ return(failed \/ o # "ok" \/ cr[n] = Absent)
          /\ IF o = "rejected" \/ cr[n] = Absent
               THEN UNCHANGED crVars
               ELSE writeCR(n, [cr[n] EXCEPT !.conditions = c]) /\ UNCHANGED nextUid
    BY <1>4 DEF handleStatus
  <2>2. TypeRec' /\ pc' = "idle" /\ inst' = Absent /\ ~instFresh'
    BY <1>0, <2>1, ReturnType DEF TypeOK
  <2>3. TypeCount' /\ UNCHANGED nextUid
    BY <1>2, <2>1, ChargeType DEF TypeOK, TypeCount, crVars
  <2>4. CASE o = "rejected" \/ cr[n] = Absent
    BY <1>2, <2>1, <2>2, <2>3, <2>4 DEF TypeOK, TypeCR, StatusEffect, crVars
  <2>5. CASE ~(o = "rejected" \/ cr[n] = Absent)
    <3> DEFINE new == [cr[n] EXCEPT !.conditions = c]
    <3>1. new \in NodeFeatureDiscovery /\ new.name = n
      BY <1>0, <1>1, <2>5 DEF TypeOK, TypeCR, NodeFeatureDiscovery
    <3>2. /\ TypeCR'
          /\ \A m \in Names : cr'[m] = IF m = n THEN new ELSE cr[m]
          /\ \A m \in Names : crFresh'[m] = IF m = n THEN FALSE ELSE crFresh[m]
      <4> HIDE DEF c
      <4> QED
        BY <1>0, <1>2, <2>1, <2>5, <3>1, WriteCRType DEF TypeOK
    <3> HIDE DEF c
    <3> QED
      BY <1>1, <1>2, <2>2, <2>3, <2>5, <3>2 DEF TypeOK, StatusEffect
  <2> QED
    BY <2>4, <2>5
<1> QED
  BY <1>3, <1>4

\* The effect of handlePrune: the finalizer may go, or Reconcile returns,
\* possibly after the creation of the job.
PruneEffect ==
  /\ UNCHANGED notByComponents
  /\ \/ pc' = "removeFinalizer" /\ UNCHANGED <<inst, instFresh, obj>>
     \/ /\ pc' = "idle" /\ inst' = Absent /\ ~instFresh'
        /\ \/ UNCHANGED obj
           \/ /\ obj["pruneJob"] = Absent
              /\ \E new : /\ new # Absent /\ new.owner = controllerRef(inst)
                          /\ obj' = [obj EXCEPT !["pruneJob"] = new]

\* handlePrune keeps the types and has that effect.
LEMMA PruneStep ==
  ASSUME TypeOK, handlePrune
  PROVE  TypeOK' /\ PruneEffect
<1> DEFINE job == objCache["pruneJob"]
<1>0. /\ pc # "idle" /\ inst \in NodeFeatureDiscovery
      /\ "pruneJob" \in Kinds /\ "removeFinalizer" \in applySteps \cup teardownSteps
  BY DEF handlePrune, TypeOK, TypeRec, Kinds, teardownSteps
<1>1. TypeCR' /\ TypeObjCache' /\ UNCHANGED <<notByComponents, edits>>
  BY DEF handlePrune, TypeOK, TypeCR, TypeObjCache, crVars, cacheVars, notByComponents
<1>2. ASSUME UNCHANGED <<objVars, faults>>, NEW e,
             continue("removeFinalizer", FALSE) \/ return(e)
      PROVE  TypeOK' /\ PruneEffect
  <2>1. TypeObj' /\ TypeCount' /\ UNCHANGED obj
    BY <1>1, <1>2 DEF TypeOK, TypeObj, TypeCount, objVars, notByComponents
  <2>2. CASE continue("removeFinalizer", FALSE)
    <3>1. TypeRec'
      BY <1>0, <2>2, ContinueType DEF TypeOK
    <3> QED
      BY <1>1, <2>1, <2>2, <3>1 DEF TypeOK, PruneEffect, continue
  <2>3. CASE return(e)
    BY <1>0, <1>1, <2>1, <2>3, ReturnType DEF TypeOK, PruneEffect
  <2> QED
    BY <1>2, <2>2, <2>3
<1>3. CASE createPruneJob
  <2>1. PICK o \in Outcome :
          /\ charge(o)
          /\ writeObject("pruneJob", IF obj["pruneJob"] = Absent /\ o # "rejected"
                                       THEN newObject("pruneJob", inst) ELSE obj["pruneJob"])
          /\ return(o # "ok" \/ obj["pruneJob"] # Absent)
    BY <1>3 DEF createPruneJob
  <2>2. TypeRec' /\ pc' = "idle" /\ inst' = Absent /\ ~instFresh'
    BY <1>0, <2>1, ReturnType DEF TypeOK
  <2>3. TypeCount'
    BY <1>1, <2>1, ChargeType DEF TypeOK, TypeCount, notByComponents
  <2> DEFINE created == newObject("pruneJob", inst)
  <2>4. /\ created \in Object("pruneJob") /\ created # Absent
        /\ created.owner = controllerRef(inst) /\ created.owner # Absent
    BY <1>0, NewObjectType, AbsentAssumption
  <2>5. CASE obj["pruneJob"] = Absent /\ o # "rejected"
    <3>1. writeObject("pruneJob", created)
      BY <2>1, <2>5
    <3> HIDE DEF created
    <3>2. TypeObj'
      BY <1>0, <2>4, <3>1, WriteObjectType DEF TypeOK
    <3> QED
      BY <1>1, <2>2, <2>3, <2>4, <2>5, <3>1, <3>2 DEF TypeOK, PruneEffect, writeObject
  <2>6. CASE ~(obj["pruneJob"] = Absent /\ o # "rejected")
    <3>1. writeObject("pruneJob", obj["pruneJob"])
      BY <2>1, <2>6
    <3>2. TypeObj'
      BY <1>0, <3>1, WriteObjectType DEF TypeOK, TypeObj
    <3>3. UNCHANGED obj
      BY <1>0, <3>1 DEF TypeOK, TypeObj, writeObject
    <3> QED
      BY <1>1, <2>2, <2>3, <3>2, <3>3 DEF TypeOK, PruneEffect
  <2> QED
    BY <2>5, <2>6
<1>4. CASE ~inst.spec.pruneOnDelete
  BY <1>2, <1>4 DEF handlePrune
<1>5. CASE inst.spec.pruneOnDelete /\ job # Absent
  BY <1>2, <1>5 DEF handlePrune
<1>6. CASE inst.spec.pruneOnDelete /\ job = Absent
  BY <1>3, <1>6 DEF handlePrune
<1> QED
  BY <1>4, <1>5, <1>6

\* The effect of a user, or of the owner of another finalizer, on the CR n.
UserEffect(n, new) ==
  /\ UNCHANGED <<crCache, obj, pc, inst>>
  /\ instFresh' = (instFresh /\ inst.name # n)
  /\ \A m \in Names : cr'[m] = IF m = n THEN new ELSE cr[m]
  /\ \A m \in Names : crFresh'[m] = IF m = n THEN FALSE ELSE crFresh[m]

\* A user's write of a CR keeps the types and has that effect.
LEMMA UserWrite ==
  ASSUME TypeOK, NEW n \in Names, NEW new \in NodeFeatureDiscovery \cup {Absent},
         new # Absent => new.name = n, writeCR(n, new), outdate(n),
         nextUid' \in Nat, edits' \in Nat,
         UNCHANGED <<objVars, cacheVars, queue, pc, inst, failed, faults>>
  PROVE  TypeOK' /\ UserEffect(n, new)
<1>1. /\ TypeCR'
      /\ \A m \in Names : cr'[m] = IF m = n THEN new ELSE cr[m]
      /\ \A m \in Names : crFresh'[m] = IF m = n THEN FALSE ELSE crFresh[m]
  BY WriteCRType DEF TypeOK, cacheVars
<1>2. TypeObj' /\ TypeObjCache' /\ TypeCount'
  BY DEF TypeOK, TypeObj, TypeObjCache, TypeCount, objVars, cacheVars
<1>3. TypeRec'
  BY DEF TypeOK, TypeRec, outdate
<1> QED
  BY <1>1, <1>2, <1>3 DEF TypeOK, UserEffect, objVars, cacheVars, outdate

\* A CR is created, with a UID of its own.
CreateEffect(n) ==
  /\ nextUid' = nextUid + 1 /\ cr[n] = Absent
  /\ \E new \in NodeFeatureDiscovery :
       /\ UserEffect(n, new)
       /\ new.name = n /\ new.uid = nextUid /\ ~new.finalizer /\ ~new.deleting

\* A CR is edited or deleted: it vanishes only without the operator's
\* finalizer, a deletion is not taken back, and the spec may stay as it is.
EditEffect(n) ==
  /\ UNCHANGED nextUid /\ cr[n] # Absent
  /\ \E new \in NodeFeatureDiscovery \cup {Absent} :
       /\ UserEffect(n, new)
       /\ new = Absent => ~cr[n].finalizer
       /\ new # Absent => /\ new.name = n /\ new.uid = cr[n].uid
                          /\ new.finalizer = cr[n].finalizer
                          /\ cr[n].deleting => new.deleting
                          /\ "spec" \notin Edits => new.spec = cr[n].spec

\* The creation of a CR has the effect CreateEffect.
LEMMA CreateStep ==
  ASSUME TypeOK, NEW n \in Names, NEW s \in Specs, NEW h \in HeldChoices, CreateCR(n, s, h)
  PROVE  TypeOK' /\ CreateEffect(n)
<1> DEFINE new == [name |-> n, uid |-> nextUid, spec |-> s, finalizer |-> FALSE, held |-> h,
                   deleting |-> FALSE, conditions |-> {}]
<1>1. /\ new \in NodeFeatureDiscovery /\ new.name = n /\ new.uid = nextUid
      /\ ~new.finalizer /\ ~new.deleting
  BY BoundAssumption DEF TypeOK, TypeCount, NodeFeatureDiscovery
<1>2. /\ writeCR(n, new) /\ outdate(n) /\ nextUid' = nextUid + 1 /\ cr[n] = Absent
      /\ UNCHANGED <<objVars, cacheVars, queue, pc, inst, failed, faults, edits>>
  BY DEF CreateCR
<1>3. nextUid' \in Nat /\ edits' \in Nat
  BY <1>2 DEF TypeOK, TypeCount
<1> HIDE DEF new
<1> QED
  BY <1>1, <1>2, <1>3, UserWrite DEF CreateEffect

\* An edit, a deletion, a hold and a release of a CR have the effect EditEffect.
LEMMA EditStep ==
  ASSUME TypeOK, NEW n \in Names,
         (\E s \in Specs : UpdateSpec(n, s)) \/ DeleteCR(n) \/ HoldCR(n) \/ ReleaseCR(n)
  PROVE  TypeOK' /\ EditEffect(n)
<1> DEFINE specs == IF "spec" \in Edits THEN Specs ELSE {}
           edited == {[cr[n] EXCEPT !.spec = s] : s \in specs}
                       \cup {[cr[n] EXCEPT !.deleting = TRUE]}
                       \cup {[cr[n] EXCEPT !.held = h] : h \in BOOLEAN}
<1>0. cr[n] # Absent
  BY DEF UpdateSpec, DeleteCR, HoldCR, ReleaseCR
<1>1. cr[n] \in NodeFeatureDiscovery /\ cr[n].name = n
  BY <1>0 DEF TypeOK, TypeCR
<1>2. \A new \in edited : /\ new \in NodeFeatureDiscovery /\ new.name = n
                          /\ new.uid = cr[n].uid /\ new.finalizer = cr[n].finalizer
                          /\ cr[n].deleting => new.deleting
                          /\ "spec" \notin Edits => new.spec = cr[n].spec
  BY <1>1 DEF NodeFeatureDiscovery
<1>3. /\ outdate(n) /\ UNCHANGED <<nextUid, objVars, cacheVars, queue, pc, inst, failed, faults>>
      /\ edits' \in Nat
  <2>1. edits \in Nat
    BY DEF TypeOK, TypeCount
  <2>2. CASE \E s \in Specs : UpdateSpec(n, s)
    BY <2>1, <2>2 DEF UpdateSpec, mayEdit
  <2>3. CASE DeleteCR(n) \/ ReleaseCR(n)
    BY <2>1, <2>3 DEF DeleteCR, ReleaseCR
  <2>4. CASE HoldCR(n)
    BY <2>1, <2>4 DEF HoldCR, mayEdit
  <2> QED
    BY <2>2, <2>3, <2>4
<1>4. \E new \in edited \cup {Absent} : writeCR(n, new) /\ (new = Absent => ~cr[n].finalizer)
  <2>1. ASSUME NEW s \in Specs, UpdateSpec(n, s)
        PROVE  writeCR(n, [cr[n] EXCEPT !.spec = s]) /\ s \in specs
    BY <2>1 DEF UpdateSpec, mayEdit
  <2>2. CASE \E s \in Specs : UpdateSpec(n, s)
    <3>1. PICK s \in Specs : UpdateSpec(n, s)
      BY <2>2
    <3>2. [cr[n] EXCEPT !.spec = s] \in edited
      BY <2>1, <3>1
    <3>3. [cr[n] EXCEPT !.spec = s] # Absent
      BY <1>2, <3>2, AbsentAssumption
    <3> QED
      BY <2>1, <3>1, <3>2, <3>3
  <2>3. CASE DeleteCR(n)
    BY <1>2, <2>3, AbsentAssumption DEF DeleteCR
  <2>4. CASE HoldCR(n) \/ ReleaseCR(n)
    BY <1>2, <2>4, AbsentAssumption DEF HoldCR, ReleaseCR
  <2> QED
    BY <2>2, <2>3, <2>4
<1>5. PICK new \in edited \cup {Absent} : writeCR(n, new) /\ (new = Absent => ~cr[n].finalizer)
  BY <1>4
<1>6. new \in NodeFeatureDiscovery \cup {Absent} /\ (new # Absent => new.name = n)
  BY <1>2
<1>7. nextUid' \in Nat
  BY <1>3 DEF TypeOK, TypeCount
<1>8. TypeOK' /\ UserEffect(n, new)
  BY <1>3, <1>5, <1>6, <1>7, UserWrite
<1> QED
  BY <1>0, <1>2, <1>3, <1>5, <1>6, <1>8 DEF EditEffect

-----------------------------------------------------------------------------
(* Type correctness *)

\* What a step of the specification can be, seen through the effects above.
AbstractNext ==
  \/ UNCHANGED vars
  \/ \E n \in Names : Reconcile(n)
  \/ pc = "setFinalizer" /\ UpdateEffect([inst EXCEPT !.finalizer = TRUE])
  \/ pc \in applySteps /\ \E k \in Components : ApplyEffect(k)
  \/ pc = "handleStatus" /\ StatusEffect
  \/ pc = "deleteWorkerDS" /\ DeleteEffect("workerDS", "deleteWorkerCM")
  \/ /\ pc = "deleteWorkerCM"
     /\ \E s \in {"deleteTopologyDS", "deleteMaster"} :
          (s = "deleteMaster" => ~inst.spec.topologyUpdater) /\ DeleteEffect("workerCM", s)
  \/ pc = "deleteTopologyDS" /\ DeleteEffect("topologyDS", "deleteMaster")
  \/ pc = "deleteMaster" /\ DeleteEffect("masterDep", "deleteGC")
  \/ pc = "deleteGC" /\ DeleteEffect("gcDep", "handlePrune")
  \/ pc = "handlePrune" /\ PruneEffect
  \/ pc = "removeFinalizer" /\ UpdateEffect(released(inst))
  \/ Restart
  \/ \E g \in SyncGroups : Sync(g)
  \/ \E n \in Names : CreateEffect(n) \/ EditEffect(n)
  \/ ForeignEffect

\* Every step keeps the types and has one of these effects.
LEMMA StepEffect ==
  ASSUME TypeOK, [Next]_vars
  PROVE  TypeOK' /\ AbstractNext
<1>0. /\ {"masterDep", "workerCM", "workerDS", "topologyDS", "gcDep"} \subseteq Components
      /\ Components \subseteq Kinds
  BY DEF Components, Kinds, Workloads, DaemonSets, Deployments
<1>1. ASSUME NEW n \in Names, Reconcile(n) PROVE TypeOK' /\ AbstractNext
  <2>1. TypeCR' /\ TypeObj' /\ TypeObjCache' /\ TypeCount'
    BY <1>1 DEF Reconcile, TypeOK, TypeCR, TypeObj, TypeObjCache, TypeCount, crVars, objVars, cacheVars
  <2>2. CASE crCache[n] = Absent
    <3>1. TypeRec'
      BY <1>1, <2>2 DEF Reconcile, TypeOK, TypeRec
    <3> QED
      BY <1>1, <2>1, <3>1 DEF TypeOK, AbstractNext
  <2>3. CASE crCache[n] # Absent
    <3>1. /\ crCache[n] \in NodeFeatureDiscovery /\ crFresh[n] \in BOOLEAN
          /\ firstStep(crCache[n]) \in {"deleteWorkerDS", "setFinalizer", "handleMaster"}
      BY <2>3 DEF TypeOK, TypeCR, firstStep
    <3>2. TypeRec'
      BY <1>1, <2>3, <3>1 DEF Reconcile, TypeOK, TypeRec, applySteps, teardownSteps
    <3> QED
      BY <1>1, <2>1, <3>2 DEF TypeOK, AbstractNext
  <2> QED
    BY <2>2, <2>3
<1>2. ASSUME setFinalizer PROVE TypeOK' /\ AbstractNext
  <2>1. inst \in NodeFeatureDiscovery /\ pc # "idle"
    BY <1>2 DEF setFinalizer, TypeOK, TypeRec
  <2> DEFINE new == [inst EXCEPT !.finalizer = TRUE]
  <2>2. new \in NodeFeatureDiscovery /\ new.name = inst.name
    BY <2>1 DEF NodeFeatureDiscovery
  <2>3. updateCR(new) /\ UNCHANGED <<nextUid, objVars, cacheVars, edits>> /\ pc = "setFinalizer"
    BY <1>2 DEF setFinalizer
  <2>4. TypeOK' /\ UpdateEffect(new)
    <3> HIDE DEF new
    <3> QED BY <2>1, <2>2, <2>3, UpdateStep
  <2> QED
    BY <2>3, <2>4 DEF AbstractNext
<1>3. ASSUME handleMaster \/ handleWorkerCM \/ handleWorkerDS \/ handleGC
      PROVE  TypeOK' /\ AbstractNext
  <2>1. PICK k \in Components \ {"topologyDS"}, s \in applySteps, t \in applySteps :
          pc \in applySteps /\ createOrPatch(k, s, t)
    BY <1>0, <1>3 DEF handleMaster, handleWorkerCM, handleWorkerDS, handleGC, applySteps
  <2>2. TypeOK' /\ ApplyEffect(k)
    BY <2>1, ApplyStep
  <2> QED
    BY <2>1, <2>2 DEF AbstractNext
<1>4. ASSUME handleTopology PROVE TypeOK' /\ AbstractNext
  <2>0. pc \in applySteps /\ "handleGC" \in applySteps /\ pc # "idle" /\ "topologyDS" \in Components
    BY <1>0, <1>4 DEF handleTopology, applySteps
  <2>1. CASE inst.spec.topologyUpdater
    <3>1. createOrPatch("topologyDS", "handleGC", "handleGC")
      BY <1>4, <2>1 DEF handleTopology
    <3>2. TypeOK' /\ ApplyEffect("topologyDS")
      BY <2>0, <2>1, <3>1, ApplyStep
    <3> QED
      BY <2>0, <3>2 DEF AbstractNext
  <2>2. CASE ~inst.spec.topologyUpdater
    <3>1. continue("handleGC", FALSE) /\ UNCHANGED <<crVars, objVars, cacheVars, faults, edits>>
      BY <1>4, <2>2 DEF handleTopology
    <3>2. TypeRec'
      BY <2>0, <3>1, ContinueType DEF TypeOK
    <3>3. TypeCR' /\ TypeObj' /\ TypeObjCache' /\ TypeCount'
      BY <3>1 DEF TypeOK, TypeCR, TypeObj, TypeObjCache, TypeCount, crVars, objVars, cacheVars
    <3>4. obj' = [obj EXCEPT !["topologyDS"] = obj["topologyDS"]]
      BY <3>1 DEF TypeOK, TypeObj, objVars
    <3>5. ApplyEffect("topologyDS")
      BY <2>0, <3>1, <3>4 DEF ApplyEffect, notByComponents, continue, crVars, objVars, cacheVars
    <3> QED
      BY <2>0, <3>2, <3>3, <3>5 DEF TypeOK, AbstractNext
  <2> QED
    BY <2>1, <2>2
<1>5. ASSUME handleStatus PROVE TypeOK' /\ AbstractNext
  <2>1. pc = "handleStatus"
    BY <1>5 DEF handleStatus
  <2> QED
    BY <1>5, <2>1, StatusStep DEF AbstractNext
<1>6. ASSUME finalizeComponents PROVE TypeOK' /\ AbstractNext
  <2>0. /\ {"deleteWorkerDS", "deleteWorkerCM", "deleteTopologyDS", "deleteMaster", "deleteGC",
            "handlePrune"} \subseteq teardownSteps
    BY DEF teardownSteps
  <2>1. CASE deleteWorkerDS
    BY <1>0, <2>0, <2>1, DeleteStep DEF deleteWorkerDS, AbstractNext
  <2>2. CASE deleteWorkerCM
    <3>1. PICK s \in {"deleteTopologyDS", "deleteMaster"} :
            /\ pc = "deleteWorkerCM" /\ deleteObject("workerCM", s)
            /\ s = "deleteMaster" => ~inst.spec.topologyUpdater
      BY <2>2 DEF deleteWorkerCM
    <3>2. TypeOK' /\ DeleteEffect("workerCM", s)
      BY <1>0, <2>0, <3>1, DeleteStep
    <3> QED
      BY <3>1, <3>2 DEF AbstractNext
  <2>3. CASE deleteTopologyDS
    BY <1>0, <2>0, <2>3, DeleteStep DEF deleteTopologyDS, AbstractNext
  <2>4. CASE deleteMaster
    BY <1>0, <2>0, <2>4, DeleteStep DEF deleteMaster, AbstractNext
  <2>5. CASE deleteGC
    BY <1>0, <2>0, <2>5, DeleteStep DEF deleteGC, AbstractNext
  <2> QED
    BY <1>6, <2>1, <2>2, <2>3, <2>4, <2>5 DEF finalizeComponents
<1>7. ASSUME handlePrune PROVE TypeOK' /\ AbstractNext
  <2>1. pc = "handlePrune"
    BY <1>7 DEF handlePrune
  <2> QED
    BY <1>7, <2>1, PruneStep DEF AbstractNext
<1>8. ASSUME removeFinalizer PROVE TypeOK' /\ AbstractNext
  <2>1. inst \in NodeFeatureDiscovery /\ pc = "removeFinalizer"
    BY <1>8 DEF removeFinalizer, TypeOK, TypeRec
  <2>2. CASE inst.finalizer
    <3>1. /\ released(inst) \in NodeFeatureDiscovery \cup {Absent}
          /\ released(inst) # Absent => released(inst).name = inst.name
      BY <2>1 DEF released, NodeFeatureDiscovery
    <3>2. updateCR(released(inst)) /\ UNCHANGED <<nextUid, objVars, cacheVars, edits>>
      BY <1>8, <2>2 DEF removeFinalizer
    <3>3. TypeOK' /\ UpdateEffect(released(inst))
      BY <2>1, <3>1, <3>2, UpdateStep
    <3> QED
      BY <2>1, <3>3 DEF AbstractNext
  <2>3. CASE ~inst.finalizer
    <3>1. /\ return(FALSE)
          /\ UNCHANGED <<cr, crFresh, faults, nextUid, objVars, cacheVars, edits>>
      BY <1>8, <2>3 DEF removeFinalizer
    <3>2. TypeRec' /\ pc' = "idle" /\ inst' = Absent /\ ~instFresh'
      BY <2>1, <3>1, ReturnType DEF TypeOK
    <3>3. TypeCR' /\ TypeObj' /\ TypeObjCache' /\ TypeCount'
      BY <3>1 DEF TypeOK, TypeCR, TypeObj, TypeObjCache, TypeCount, objVars, cacheVars
    <3> QED
      BY <2>1, <3>1, <3>2, <3>3 DEF TypeOK, AbstractNext, UpdateEffect, objVars, cacheVars
  <2> QED
    BY <2>2, <2>3
<1>9. ASSUME Restart PROVE TypeOK' /\ AbstractNext
  <2>1. TypeCR' /\ TypeObj' /\ TypeObjCache'
    BY <1>9 DEF Restart, TypeOK, TypeCR, TypeObj, TypeObjCache
  <2>2. queue' \subseteq Names /\ pc' = "idle" /\ inst' = Absent /\ TypeCount'
    BY <1>9 DEF Restart, TypeOK, TypeCount
  <2>3. instFresh' \in BOOLEAN /\ failed' \in BOOLEAN
    BY <1>9 DEF Restart
  <2>4. TypeRec'
    BY <2>2, <2>3 DEF TypeRec
  <2> QED
    BY <1>9, <2>1, <2>2, <2>4 DEF TypeOK, AbstractNext
<1>10. ASSUME NEW g \in SyncGroups, Sync(g) PROVE TypeOK' /\ AbstractNext
  <2>0. g \subseteq Informers
    BY BoundAssumption
  <2>1. TypeCR' /\ TypeObjCache'
    BY <1>10 DEF Sync, TypeOK, TypeCR, TypeObj, TypeObjCache
  <2>2. TypeObj'
    BY <1>10 DEF Sync, TypeOK, TypeObj
  <2>3. queue' \subseteq Names
    <3> DEFINE events == UNION {notify[i] : i \in g}
    <3>1. events \subseteq Names
      BY <2>0 DEF TypeOK, TypeObj
    <3> DEFINE late == IF "NodeFeatureDiscovery" \in g THEN {n \in Names : ~crFresh[n]} ELSE {}
    <3>2. late \subseteq Names
      OBVIOUS
    <3>3. queue' = queue \cup events \cup late
      BY <1>10 DEF Sync
    <3> HIDE DEF events, late
    <3> QED
      BY <3>1, <3>2, <3>3 DEF TypeOK, TypeRec
  <2>4. TypeRec' /\ TypeCount'
    BY <1>10, <2>3 DEF Sync, TypeOK, TypeRec, TypeCount
  <2> QED
    BY <1>10, <2>1, <2>2, <2>4 DEF TypeOK, AbstractNext
<1>11. ASSUME NEW n \in Names, NEW s \in Specs, NEW h \in HeldChoices, CreateCR(n, s, h)
       PROVE  TypeOK' /\ AbstractNext
  BY <1>11, CreateStep DEF AbstractNext
<1>12. ASSUME NEW n \in Names,
              (\E s \in Specs : UpdateSpec(n, s)) \/ DeleteCR(n) \/ HoldCR(n) \/ ReleaseCR(n)
       PROVE  TypeOK' /\ AbstractNext
  BY <1>12, EditStep DEF AbstractNext
<1>13. ASSUME foreignSteps PROVE TypeOK' /\ AbstractNext
  BY <1>13, ForeignStep DEF AbstractNext
<1>14. ASSUME UNCHANGED vars PROVE TypeOK' /\ AbstractNext
  BY <1>14 DEF vars, crVars, objVars, cacheVars, recVars, TypeOK, TypeCR, TypeObj, TypeObjCache,
       TypeRec, TypeCount, AbstractNext
<1>15. CASE Operator
  BY <1>1, <1>2, <1>3, <1>4, <1>5, <1>6, <1>7, <1>8, <1>15 DEF Operator
<1>16. CASE Users
  BY <1>11, <1>12, <1>13, <1>16 DEF Users, foreignSteps
<1>17. CASE Cluster
  BY <1>13, <1>17 DEF Cluster, foreignSteps
<1> QED
  BY <1>9, <1>10, <1>14, <1>15, <1>16, <1>17 DEF Next, Watches

\* A newly started operator in an empty namespace is well typed.
LEMMA InitTypeOK == Init => TypeOK
<1>1. Init => TypeCR /\ TypeCount
  BY DEF Init, TypeCR, TypeCount
<1>2. Init => TypeObj /\ TypeObjCache
  BY DEF Init, TypeObj, TypeObjCache, Kinds
<1>3. Init => TypeRec
  <2>1. Init => instFresh \in BOOLEAN /\ failed \in BOOLEAN
    BY DEF Init
  <2>2. Init => queue \subseteq Names /\ pc = "idle" /\ inst = Absent
    BY DEF Init
  <2> QED
    BY <2>1, <2>2 DEF TypeRec
<1> QED
  BY <1>1, <1>2, <1>3 DEF TypeOK

\* Whatever the operator, the users and the cluster do, the variables keep
\* their types, and every object names its owner by name and UID.
THEOREM TypeCorrect == Spec => []TypeOK
<1>1. TypeOK /\ [Next]_vars => TypeOK'
  BY StepEffect
<1> QED
  BY <1>1, InitTypeOK, PTL DEF Spec
=============================================================================
