-------------------------- MODULE LifecycleProofs --------------------------
(***************************************************************************)
(* Reconciler implements Lifecycle: every step of Reconciler, with its     *)
(* outdated copies and failed requests, is a step of Lifecycle or leaves   *)
(* its variables alone.  Two invariants are needed: Inv of Reconciler, and *)
(* Promise of Lifecycle itself.                                            *)
(***************************************************************************)
EXTENDS TeardownProofs

\* The variables of Lifecycle.
lifePhase == [n \in Names |-> phaseOf(cr[n])]
lifeParts == [n \in Names |-> ownedBy(n) \cap coreComponents]
lifePruning == {n \in Names : "pruneJob" \in ownedBy(n)}

\* They stay as they are.
Stutter == UNCHANGED <<lifePhase, lifeParts, lifePruning>>

-----------------------------------------------------------------------------
(* Steps on the objects *)

\* A copy of a CR in the cluster names the same owner as that CR and no other.
LEMMA OneOwner ==
  ASSUME TypeOK, NEW m \in Names, NEW c \in NodeFeatureDiscovery, cr[m] # Absent
  PROVE  (controllerRef(cr[m]) = controllerRef(c)) <=> (m = c.name /\ cr[m].uid = c.uid)
<1>1. cr[m].name = m
  BY DEF TypeOK, TypeCR
<1> QED
  BY <1>1 DEF controllerRef

\* When nothing but an object changes, its owners decide.
LEMMA ObjectChange ==
  ASSUME TypeOK, NEW k \in Kinds, NEW new, obj' = [obj EXCEPT ![k] = new], UNCHANGED cr
  PROVE  /\ UNCHANGED lifePhase
         /\ \A n \in Names :
              ownedBy(n)' = IF cr[n] # Absent /\ new # Absent /\ new.owner = controllerRef(cr[n])
                              THEN ownedBy(n) \cup {k}
                              ELSE ownedBy(n) \ {k}
<1>1. UNCHANGED lifePhase
  BY DEF lifePhase
<1>2. \A j \in Kinds : obj'[j] = IF j = k THEN new ELSE obj[j]
  BY DEF TypeOK, TypeObj
<1>3. ASSUME NEW n \in Names
      PROVE  ownedBy(n)' = IF cr[n] # Absent /\ new # Absent /\ new.owner = controllerRef(cr[n])
                             THEN ownedBy(n) \cup {k}
                             ELSE ownedBy(n) \ {k}
  BY <1>2 DEF ownedBy, owned, controllerRef
<1> QED
  BY <1>1, <1>3

\* An object keeps its owner: nothing to see in Lifecycle.
LEMMA SameOwner ==
  ASSUME TypeOK, NEW k \in Kinds, NEW new, obj' = [obj EXCEPT ![k] = new], UNCHANGED cr,
         (new = Absent) <=> (obj[k] = Absent), new # Absent => new.owner = obj[k].owner
  PROVE  Stutter
<1>1. \A n \in Names : ownedBy(n)' = ownedBy(n)
  <2> SUFFICES ASSUME NEW n \in Names PROVE ownedBy(n)' = ownedBy(n)
    OBVIOUS
  <2>1. \A j \in Kinds : obj'[j] = IF j = k THEN new ELSE obj[j]
    BY DEF TypeOK, TypeObj
  <2>2. \A j \in Kinds : owned(j, cr[n])' = owned(j, cr[n])
    BY <2>1 DEF owned, controllerRef
  <2> QED
    BY <2>2 DEF ownedBy
<1>2. UNCHANGED lifePhase
  BY ObjectChange
<1>3. lifeParts' = lifeParts /\ lifePruning' = lifePruning
  BY <1>1 DEF lifeParts, lifePruning
<1> QED
  BY <1>2, <1>3 DEF Stutter

\* An object disappears or loses its owner.
LEMMA LostObject ==
  ASSUME TypeOK, NEW k \in Kinds, NEW new, obj' = [obj EXCEPT ![k] = new], UNCHANGED cr,
         new # Absent => new.owner = Absent
  PROVE  [Life!Next]_(Life!vars)
<1>1. \A n \in Names : cr[n] # Absent => controllerRef(cr[n]) # Absent
  <2>1. \A c \in NodeFeatureDiscovery : controllerRef(c) # Absent
    BY NewObjectType, AbsentAssumption DEF Kinds
  <2> QED
    BY <2>1 DEF TypeOK, TypeCR
<1>2. UNCHANGED lifePhase /\ \A n \in Names : ownedBy(n)' = ownedBy(n) \ {k}
  BY <1>1, ObjectChange
<1>3. CASE k \in coreComponents
  <2>1. k # "pruneJob"
    BY <1>3 DEF coreComponents, Components, Workloads, DaemonSets, Deployments
  <2>2. lifePruning' = lifePruning
    BY <1>2, <2>1 DEF lifePruning
  <2>3. lifeParts' = [m \in Names |-> lifeParts[m] \ {k}]
    BY <1>2 DEF lifeParts
  <2>4. Life!Lose(k)
    BY <1>2, <2>2, <2>3 DEF Life!Lose, lifePhase, lifeParts, lifePruning
  <2> QED
    BY <1>3, <2>4 DEF Life!Next
<1>4. CASE k = "pruneJob"
  <2>1. "pruneJob" \notin coreComponents
    BY DEF coreComponents, Components, Workloads, DaemonSets, Deployments
  <2>2. lifePruning' = {}
    BY <1>2, <1>4 DEF lifePruning
  <2>3. lifeParts' = lifeParts
    BY <1>2, <1>4, <2>1 DEF lifeParts
  <2>4. Life!LoseJob
    BY <1>2, <2>2, <2>3 DEF Life!LoseJob, lifePhase, lifeParts, lifePruning
  <2> QED
    BY <2>4 DEF Life!Next
<1>5. CASE k \notin coreComponents \cup {"pruneJob"}
  <2>1. lifeParts' = lifeParts /\ lifePruning' = lifePruning
    BY <1>2, <1>5 DEF lifeParts, lifePruning
  <2> QED
    BY <1>2, <2>1 DEF Life!vars, lifePhase, lifeParts, lifePruning
<1> QED
  BY <1>3, <1>4, <1>5

\* Nothing of Lifecycle changes: a stuttering step.
LEMMA StutterStep == Stutter => [Life!Next]_(Life!vars)
BY DEF Stutter, Life!vars, lifePhase, lifeParts, lifePruning

\* A handler deploys for the CR its copy was taken from, which is guarded
\* and does not prune.
LEMMA ApplyImplements ==
  ASSUME Inv, pc \in applySteps, NEW k \in Components, ApplyEffect(k)
  PROVE  [Life!Next]_(Life!vars)
<1> DEFINE n == inst.name
<1>1. /\ TypeOK /\ k \in Kinds /\ k # "pruneJob" /\ "pruneJob" \in Kinds
      /\ inst # Absent /\ inst \in NodeFeatureDiscovery /\ n \in Names
  BY DEF Kinds, Components, Workloads, DaemonSets, Deployments, Inv, TypeOK, TypeRec,
       applySteps, NodeFeatureDiscovery
<1>2. PICK new : /\ obj' = [obj EXCEPT ![k] = new]
                 /\ new # Absent => \/ new.owner = controllerRef(inst)
                                    \/ obj[k] # Absent /\ new.owner = obj[k].owner
  BY DEF ApplyEffect
<1>3. UNCHANGED cr
  BY DEF ApplyEffect, notByComponents
<1>4. CASE new = Absent
  BY <1>1, <1>2, <1>3, <1>4, LostObject
<1>5. CASE new # Absent /\ obj[k] # Absent /\ new.owner = obj[k].owner
  BY <1>1, <1>2, <1>3, <1>5, SameOwner, StutterStep
<1>6. CASE new # Absent /\ new.owner = controllerRef(inst)
  <2>1. ~inst.deleting /\ inst.finalizer /\ sameCR(inst, cr[n]) /\ cr[n].finalizer
    BY <1>1 DEF Inv, BranchFits, CopiesAgree, kept
  <2>2. \A m \in Names : cr[m] # Absent => (controllerRef(cr[m]) = controllerRef(inst) <=> m = n)
    BY <1>1, <2>1, OneOwner DEF sameCR
  <2>3. UNCHANGED lifePhase /\ \A m \in Names :
          ownedBy(m)' = IF m = n THEN ownedBy(m) \cup {k} ELSE ownedBy(m) \ {k}
    <3>1. \A m \in Names : (cr[m] # Absent /\ new # Absent /\ new.owner = controllerRef(cr[m]))
                             <=> m = n
      BY <1>1, <1>6, <2>1, <2>2 DEF sameCR
    <3>2. UNCHANGED lifePhase /\ \A m \in Names :
            ownedBy(m)' = IF cr[m] # Absent /\ new # Absent /\ new.owner = controllerRef(cr[m])
                            THEN ownedBy(m) \cup {k} ELSE ownedBy(m) \ {k}
      BY <1>1, <1>2, <1>3, ObjectChange
    <3> QED
      BY <3>1, <3>2
  <2>4. lifePruning' = lifePruning
    BY <1>1, <2>3 DEF lifePruning
  <2>5. CASE k \in coreComponents
    <3>1. lifeParts' = [m \in Names |-> IF m = n THEN lifeParts[m] \cup {k} ELSE lifeParts[m] \ {k}]
      BY <2>3, <2>5 DEF lifeParts
    <3>2. lifePhase[n] \in {"guarded", "leaving"}
      BY <1>1, <2>1 DEF lifePhase, phaseOf, sameCR
    <3>3. n \notin lifePruning
      <4>1. obj["pruneJob"] # Absent => obj["pruneJob"].owner # controllerRef(inst)
        BY <1>1, <2>1 DEF Inv, JobAfterTeardown
      <4> QED
        BY <1>1, <2>1, <2>2, <4>1 DEF lifePruning, ownedBy, owned, sameCR
    <3>4. Life!Deploy(n, k)
      BY <2>3, <2>4, <3>1, <3>2, <3>3 DEF Life!Deploy, lifePhase, lifeParts, lifePruning
    <3> QED
      BY <1>1, <2>5, <3>4 DEF Life!Next
  <2>6. CASE k \notin coreComponents
    <3>1. lifeParts' = lifeParts
      BY <2>3, <2>6 DEF lifeParts
    <3> QED
      BY <2>3, <2>4, <3>1, StutterStep DEF Stutter
  <2> QED
    BY <2>5, <2>6
<1> QED
  BY <1>2, <1>4, <1>5, <1>6

\* finalizeComponents only takes objects away.
LEMMA DeleteImplements ==
  ASSUME Inv, NEW k \in Kinds, NEW s, DeleteEffect(k, s)
  PROVE  [Life!Next]_(Life!vars)
<1>1. UNCHANGED cr /\ TypeOK
  BY DEF DeleteEffect, notByComponents, Inv
<1>2. PICK new \in {obj[k], Absent} : obj' = [obj EXCEPT ![k] = new]
  BY DEF DeleteEffect
<1>3. CASE new = Absent
  BY <1>1, <1>2, <1>3, LostObject
<1>4. CASE new = obj[k]
  BY <1>1, <1>2, <1>4, SameOwner, StutterStep
<1> QED
  BY <1>2, <1>3, <1>4

\* So do users, controllers and the garbage collector.
LEMMA ForeignImplements ==
  ASSUME Inv, ForeignEffect
  PROVE  [Life!Next]_(Life!vars)
<1>1. UNCHANGED cr /\ TypeOK
  BY DEF ForeignEffect, notByComponents, Inv
<1>2a. PICK k \in Kinds : \E new :
         /\ obj' = [obj EXCEPT ![k] = new]
         /\ new # Absent => obj[k] # Absent /\ (new.owner = obj[k].owner \/ new.owner = Absent)
  BY DEF ForeignEffect
<1>2. PICK new :
        /\ obj' = [obj EXCEPT ![k] = new]
        /\ new # Absent => obj[k] # Absent /\ (new.owner = obj[k].owner \/ new.owner = Absent)
  BY <1>2a
<1>3. CASE new # Absent => new.owner = Absent
  BY <1>1, <1>2, <1>3, LostObject
<1>4. CASE new # Absent /\ new.owner = obj[k].owner
  BY <1>1, <1>2, <1>4, SameOwner, StutterStep
<1> QED
  BY <1>2, <1>3, <1>4

\* The prune job is created for a deleted CR without parts, or for one that
\* is gone.
LEMMA PruneImplements ==
  ASSUME Inv, pc = "handlePrune", PruneEffect
  PROVE  [Life!Next]_(Life!vars)
<1> DEFINE n == inst.name
<1>1. /\ TypeOK /\ "pruneJob" \in Kinds /\ "pruneJob" \notin coreComponents
      /\ inst # Absent /\ inst \in NodeFeatureDiscovery /\ n \in Names
      /\ coreComponents \subseteq Kinds
  BY DEF Kinds, coreComponents, Components, Workloads, DaemonSets, Deployments, Inv, TypeOK,
       TypeRec, NodeFeatureDiscovery
<1>2. UNCHANGED cr
  BY DEF PruneEffect, notByComponents
<1>3. CASE UNCHANGED obj
  BY <1>2, <1>3, StutterStep DEF Stutter, lifePhase, lifeParts, lifePruning, ownedBy, owned,
       controllerRef
<1>4. ASSUME NEW new, new # Absent, new.owner = controllerRef(inst), obj["pruneJob"] = Absent,
             obj' = [obj EXCEPT !["pruneJob"] = new]
      PROVE  [Life!Next]_(Life!vars)
  <2>1. UNCHANGED lifePhase /\ \A m \in Names :
          ownedBy(m)' = IF cr[m] # Absent /\ controllerRef(inst) = controllerRef(cr[m])
                          THEN ownedBy(m) \cup {"pruneJob"} ELSE ownedBy(m) \ {"pruneJob"}
    BY <1>1, <1>2, <1>4, ObjectChange
  <2>2. lifeParts' = lifeParts
    BY <1>1, <2>1 DEF lifeParts
  <2>3. lifePruning = {}
    BY <1>4 DEF lifePruning, ownedBy, owned
  <2>4. CASE sameCR(inst, cr[n])
    <3>1. \A m \in Names : (cr[m] # Absent /\ controllerRef(inst) = controllerRef(cr[m])) <=> m = n
      BY <1>1, <2>4, OneOwner DEF sameCR
    <3>2. lifePruning' = {n}
      BY <1>1, <2>1, <3>1 DEF lifePruning
    <3>3. cr[n].deleting
      BY <1>1, <2>4 DEF Inv, BranchFits, teardownSteps, CopiesAgree, knows
    <3>4. lifePhase[n] \in {"leaving", "released"}
      BY <1>1, <2>4, <3>3 DEF lifePhase, phaseOf, sameCR
    <3>5. lifeParts[n] = {}
      <4>1. \A k \in coreComponents : pc \in stepsAfter(k)
        BY DEF coreComponents, Components, Workloads, DaemonSets, Deployments, stepsAfter,
             teardownSteps
      <4>2. \A k \in coreComponents : ~owned(k, inst)
        BY <1>1, <4>1 DEF Inv, TeardownProgress
      <4>3. \A k \in coreComponents : ~owned(k, cr[n])
        BY <1>1, <3>1, <4>2 DEF owned
      <4> QED
        BY <1>1, <4>3 DEF lifeParts, ownedBy
    <3>6. Life!Prune(n)
      BY <2>1, <2>2, <2>3, <3>2, <3>4, <3>5 DEF Life!Prune, lifePhase, lifeParts, lifePruning
    <3> QED
      BY <1>1, <3>6 DEF Life!Next
  <2>5. CASE ~sameCR(inst, cr[n])
    <3>1. \A m \in Names : ~(cr[m] # Absent /\ controllerRef(inst) = controllerRef(cr[m]))
      <4>1. cr[n] # Absent => cr[n].name = n
        BY <1>1 DEF TypeOK, TypeCR
      <4> QED
        BY <1>1, <2>5, <4>1, OneOwner DEF sameCR
    <3>2. lifePruning' = {}
      BY <2>1, <3>1 DEF lifePruning
    <3> QED
      BY <2>1, <2>2, <2>3, <3>2, StutterStep DEF Stutter
  <2> QED
    BY <2>4, <2>5
<1> QED
  BY <1>3, <1>4 DEF PruneEffect

-----------------------------------------------------------------------------
(* Steps on the CRs *)

\* When a CR is rewritten, its phase is that of the new version; with the CR
\* goes what belongs to it.
LEMMA CRChange ==
  ASSUME TypeOK, NEW n \in Names, NEW new, cr[n] # Absent, UNCHANGED obj,
         \A m \in Names : cr'[m] = IF m = n THEN new ELSE cr[m],
         new # Absent => new.name = n /\ new.uid = cr[n].uid
  PROVE  /\ lifePhase' = [lifePhase EXCEPT ![n] = phaseOf(new)]
         /\ lifeParts' = IF new = Absent THEN [lifeParts EXCEPT ![n] = {}] ELSE lifeParts
         /\ lifePruning' = IF new = Absent THEN lifePruning \ {n} ELSE lifePruning
<1>1. cr[n].name = n
  BY DEF TypeOK, TypeCR
<1>2. \A m \in Names : ownedBy(m)' = IF m = n /\ new = Absent THEN {} ELSE ownedBy(m)
  <2>1. \A m \in Names :
          \/ cr'[m] # Absent /\ (cr[m] # Absent => controllerRef(cr'[m]) = controllerRef(cr[m]))
          \/ cr'[m] = Absent /\ (m # n => cr[m] = Absent)
          \/ cr'[m] = cr[m]
    BY <1>1 DEF controllerRef
  <2>2. ASSUME NEW m \in Names, m # n PROVE ownedBy(m)' = ownedBy(m)
    BY <2>2 DEF ownedBy, owned, controllerRef
  <2>3. CASE new = Absent
    <3>1. ownedBy(n)' = {}
      BY <2>3 DEF ownedBy
    <3> QED
      BY <2>2, <2>3, <3>1
  <2>4. CASE new # Absent
    <3>1. controllerRef(cr'[n]) = controllerRef(cr[n]) /\ cr'[n] # Absent
      BY <1>1, <2>4 DEF controllerRef
    <3>2. \A k \in Kinds : owned(k, cr[n])' <=> owned(k, cr[n])
      BY <3>1 DEF owned, controllerRef
    <3>3. ownedBy(n)' = ownedBy(n)
      BY <3>1, <3>2 DEF ownedBy
    <3> QED
      BY <2>2, <2>4, <3>3
  <2> QED
    BY <2>3, <2>4
<1>3. lifePhase' = [lifePhase EXCEPT ![n] = phaseOf(new)]
  BY DEF lifePhase
<1>4. lifeParts' = IF new = Absent THEN [lifeParts EXCEPT ![n] = {}] ELSE lifeParts
  BY <1>2 DEF lifeParts
<1>5. lifePruning' = IF new = Absent THEN lifePruning \ {n} ELSE lifePruning
  BY <1>2 DEF lifePruning
<1> QED
  BY <1>3, <1>4, <1>5

\* The promise, in the variables of Lifecycle.
LifePromise ==
  /\ \A n \in Names : lifePhase[n] \in {"absent", "unguarded", "released"} => lifeParts[n] = {}
  /\ \A n \in lifePruning : lifePhase[n] \in {"leaving", "released"} /\ lifeParts[n] = {}

\* setFinalizer guards the CR.
LEMMA GuardImplements ==
  ASSUME Inv, pc = "setFinalizer", UpdateEffect([inst EXCEPT !.finalizer = TRUE])
  PROVE  [Life!Next]_(Life!vars)
<1> DEFINE n == inst.name
           new == [inst EXCEPT !.finalizer = TRUE]
<1>1. CASE UNCHANGED cr
  BY <1>1, StutterStep DEF Stutter, UpdateEffect, lifePhase, lifeParts, lifePruning, ownedBy, owned,
       controllerRef
<1>2. CASE instFresh /\ \A m \in Names : cr'[m] = IF m = inst.name THEN new ELSE cr[m]
  <2>1. /\ TypeOK /\ inst \in NodeFeatureDiscovery /\ n \in Names
        /\ cr[n] = inst /\ inst # Absent /\ ~inst.deleting /\ ~inst.finalizer
    BY <1>2 DEF Inv, TypeOK, TypeRec, FreshCopies, BranchFits, NodeFeatureDiscovery
  <2>2. /\ new \in NodeFeatureDiscovery /\ new.name = n /\ new.uid = cr[n].uid
        /\ new.finalizer /\ ~new.deleting
    BY <2>1 DEF NodeFeatureDiscovery
  <2>3. new # Absent
    BY <2>2, AbsentAssumption
  <2>4. UNCHANGED obj
    BY DEF UpdateEffect
  <2> HIDE DEF new
  <2>5. /\ lifePhase' = [lifePhase EXCEPT ![n] = phaseOf(new)]
        /\ UNCHANGED <<lifeParts, lifePruning>>
    BY <1>2, <2>1, <2>2, <2>3, <2>4, CRChange
  <2>6. lifePhase[n] = "unguarded" /\ phaseOf(new) = "guarded"
    BY <2>1, <2>2, <2>3 DEF lifePhase, phaseOf
  <2>7. Life!Guard(n)
    BY <2>5, <2>6 DEF Life!Guard, Life!move, lifePhase, lifeParts, lifePruning
  <2> QED
    BY <2>1, <2>7 DEF Life!Next
<1> QED
  BY <1>1, <1>2 DEF UpdateEffect

\* removeFinalizer lets go of a CR that has no parts left; applied to a CR
\* that has lost the finalizer before, it changes nothing or ends its life.
LEMMA ReleaseImplements ==
  ASSUME Inv, LifePromise, pc = "removeFinalizer", UpdateEffect(released(inst))
  PROVE  [Life!Next]_(Life!vars)
<1> DEFINE n == inst.name
           new == released(inst)
<1>1. CASE UNCHANGED cr
  BY <1>1, StutterStep DEF Stutter, UpdateEffect, lifePhase, lifeParts, lifePruning, ownedBy, owned,
       controllerRef
<1>2. CASE instFresh /\ \A m \in Names : cr'[m] = IF m = inst.name THEN new ELSE cr[m]
  <2>1. /\ TypeOK /\ inst \in NodeFeatureDiscovery /\ n \in Names
        /\ cr[n] = inst /\ inst # Absent /\ inst.deleting
    BY <1>2 DEF Inv, TypeOK, TypeRec, FreshCopies, BranchFits, teardownSteps, NodeFeatureDiscovery
  <2>2. \/ new = Absent
        \/ /\ new \in NodeFeatureDiscovery /\ new.name = n /\ new.uid = cr[n].uid
           /\ ~new.finalizer /\ new.deleting
    BY <2>1 DEF NodeFeatureDiscovery, released
  <2>3. UNCHANGED obj
    BY DEF UpdateEffect
  <2> HIDE DEF new
  <2>4. /\ lifePhase' = [lifePhase EXCEPT ![n] = phaseOf(new)]
        /\ lifeParts' = IF new = Absent THEN [lifeParts EXCEPT ![n] = {}] ELSE lifeParts
        /\ lifePruning' = IF new = Absent THEN lifePruning \ {n} ELSE lifePruning
    BY <1>2, <2>1, <2>2, <2>3, CRChange
  <2>5. lifePhase[n] = IF inst.finalizer THEN "leaving" ELSE "released"
    BY <2>1 DEF lifePhase, phaseOf
  <2>6. phaseOf(new) = IF new = Absent THEN "absent" ELSE "released"
    BY <2>2, AbsentAssumption DEF phaseOf
  <2>7. lifeParts[n] = {}
    <3>1. \A k \in coreComponents : k \in Kinds /\ pc \in stepsAfter(k)
      BY DEF coreComponents, Kinds, Components, Workloads, DaemonSets, Deployments, stepsAfter,
           teardownSteps
    <3>2. \A k \in coreComponents : ~owned(k, inst)
      BY <3>1 DEF Inv, TeardownProgress
    <3> QED
      BY <2>1, <3>2 DEF lifeParts, ownedBy
  <2>8. lifeParts' = lifeParts
    BY <2>4, <2>7 DEF lifeParts
  <2>9. CASE inst.finalizer
    <3>1. Life!Release(n)
      <4>1. CASE new = Absent
        BY <2>4, <2>5, <2>6, <2>7, <2>8, <2>9, <4>1
             DEF Life!Release, Life!move, lifePhase, lifeParts, lifePruning
      <4>2. CASE new # Absent
        BY <2>4, <2>5, <2>6, <2>7, <2>8, <2>9, <4>2
             DEF Life!Release, Life!move, lifePhase, lifeParts, lifePruning
      <4> QED
        BY <4>1, <4>2
    <3> QED
      BY <2>1, <3>1 DEF Life!Next
  <2>10. CASE ~inst.finalizer /\ new = Absent
    <3>1. Life!Vanish(n)
      BY <2>4, <2>5, <2>6, <2>8, <2>10 DEF Life!Vanish, Life!move, lifePhase, lifeParts, lifePruning
    <3> QED
      BY <2>1, <3>1 DEF Life!Next
  <2>11. CASE ~inst.finalizer /\ new # Absent
    <3>1. lifePhase' = lifePhase
      BY <2>4, <2>5, <2>6, <2>11 DEF lifePhase
    <3> QED
      BY <2>4, <2>11, <3>1, StutterStep DEF Stutter
  <2> QED
    BY <2>9, <2>10, <2>11
<1> QED
  BY <1>1, <1>2 DEF UpdateEffect

\* handleStatus writes conditions only.
LEMMA StatusImplements ==
  ASSUME Inv, pc = "handleStatus", StatusEffect
  PROVE  [Life!Next]_(Life!vars)
<1> DEFINE n == inst.name
<1>1. CASE UNCHANGED cr
  BY <1>1, StutterStep DEF Stutter, StatusEffect, lifePhase, lifeParts, lifePruning, ownedBy, owned,
       controllerRef
<1>2. ASSUME NEW c \in SUBSET Condition, cr[n] # Absent,
             \A m \in Names : cr'[m] = IF m = n THEN [cr[n] EXCEPT !.conditions = c] ELSE cr[m]
      PROVE  [Life!Next]_(Life!vars)
  <2> DEFINE new == [cr[n] EXCEPT !.conditions = c]
  <2>1. /\ TypeOK /\ n \in Names /\ cr[n] \in NodeFeatureDiscovery /\ cr[n].name = n
        /\ UNCHANGED obj
    <3>1. inst \in NodeFeatureDiscovery
      BY DEF Inv, TypeOK, TypeRec
    <3> QED
      BY <1>2, <3>1 DEF Inv, TypeOK, TypeCR, NodeFeatureDiscovery, StatusEffect
  <2>2. /\ new \in NodeFeatureDiscovery /\ new.name = n /\ new.uid = cr[n].uid
        /\ new.finalizer = cr[n].finalizer /\ new.deleting = cr[n].deleting
    BY <2>1 DEF NodeFeatureDiscovery
  <2>3. new # Absent
    BY <2>2, AbsentAssumption
  <2>4. \A m \in Names : cr'[m] = IF m = n THEN new ELSE cr[m]
    BY <1>2
  <2> HIDE DEF new
  <2>5. /\ lifePhase' = [lifePhase EXCEPT ![n] = phaseOf(new)]
        /\ UNCHANGED <<lifeParts, lifePruning>>
    BY <1>2, <2>1, <2>2, <2>3, <2>4, CRChange
  <2>6. lifePhase[n] = phaseOf(new)
    BY <1>2, <2>1, <2>2, <2>3 DEF lifePhase, phaseOf
  <2>7. lifePhase' = lifePhase
    BY <2>5, <2>6 DEF lifePhase
  <2> QED
    BY <2>5, <2>7, StutterStep DEF Stutter
<1> QED
  BY <1>1, <1>2 DEF StatusEffect

\* A new CR owns nothing: its UID is new.
LEMMA CreateImplements ==
  ASSUME Inv, NEW n \in Names, CreateEffect(n)
  PROVE  [Life!Next]_(Life!vars)
<1>1. PICK new \in NodeFeatureDiscovery :
        /\ UserEffect(n, new)
        /\ new.name = n /\ new.uid = nextUid /\ ~new.finalizer /\ ~new.deleting
  BY DEF CreateEffect
<1>2. /\ TypeOK /\ cr[n] = Absent /\ new # Absent /\ UNCHANGED obj
      /\ \A m \in Names : cr'[m] = IF m = n THEN new ELSE cr[m]
  BY <1>1, AbsentAssumption DEF Inv, CreateEffect, UserEffect
<1>3. \A k \in Kinds : obj[k] # Absent => obj[k].owner # controllerRef(new)
  <2>1. controllerRef(new) # Absent
    BY NewObjectType, AbsentAssumption DEF Kinds
  <2>2. \A k \in Kinds : obj[k] # Absent /\ obj[k].owner # Absent => obj[k].owner.uid # new.uid
    BY <1>1 DEF Inv, UidsUsed, TypeOK, TypeCount
  <2>3. controllerRef(new).uid = new.uid
    BY DEF controllerRef
  <2> QED
    BY <2>1, <2>2, <2>3
<1>4. \A m \in Names : ownedBy(m)' = ownedBy(m)
  <2>1. ownedBy(n)' = {} /\ ownedBy(n) = {}
    BY <1>2, <1>3 DEF ownedBy, owned, controllerRef
  <2>2. ASSUME NEW m \in Names, m # n PROVE ownedBy(m)' = ownedBy(m)
    BY <1>2, <2>2 DEF ownedBy, owned, controllerRef
  <2> QED
    BY <2>1, <2>2
<1>5. lifeParts' = lifeParts /\ lifePruning' = lifePruning
  BY <1>4 DEF lifeParts, lifePruning
<1>6. lifePhase[n] = "absent" /\ phaseOf(new) = "unguarded"
  BY <1>1, <1>2 DEF lifePhase, phaseOf
<1>7. lifePhase' = [lifePhase EXCEPT ![n] = phaseOf(new)]
  BY <1>2 DEF lifePhase
<1>8. Life!Create(n)
  BY <1>5, <1>6, <1>7 DEF Life!Create, Life!move, lifePhase, lifeParts, lifePruning
<1> QED
  BY <1>8 DEF Life!Next

\* Users edit or delete a CR, and other parties remove their finalizers: a
\* guarded CR stays.
LEMMA EditImplements ==
  ASSUME Inv, LifePromise, NEW n \in Names, EditEffect(n)
  PROVE  [Life!Next]_(Life!vars)
<1>1. PICK new \in NodeFeatureDiscovery \cup {Absent} :
        /\ UserEffect(n, new)
        /\ new = Absent => ~cr[n].finalizer
        /\ new # Absent => /\ new.name = n /\ new.uid = cr[n].uid
                           /\ new.finalizer = cr[n].finalizer
                           /\ cr[n].deleting => new.deleting
  BY DEF EditEffect
<1>2. /\ TypeOK /\ cr[n] # Absent /\ cr[n] \in NodeFeatureDiscovery /\ UNCHANGED obj
      /\ \A m \in Names : cr'[m] = IF m = n THEN new ELSE cr[m]
  BY <1>1 DEF Inv, TypeOK, TypeCR, EditEffect, UserEffect
<1>3. /\ lifePhase' = [lifePhase EXCEPT ![n] = phaseOf(new)]
      /\ lifeParts' = IF new = Absent THEN [lifeParts EXCEPT ![n] = {}] ELSE lifeParts
      /\ lifePruning' = IF new = Absent THEN lifePruning \ {n} ELSE lifePruning
  BY <1>1, <1>2, CRChange
<1>4. lifePhase[n] = phaseOf(cr[n])
  BY DEF lifePhase
<1>5. CASE new # Absent /\ (new.deleting <=> cr[n].deleting)
  <2>1. phaseOf(new) = phaseOf(cr[n])
    BY <1>1, <1>2, <1>5 DEF phaseOf
  <2>2. lifePhase' = lifePhase
    BY <1>3, <1>4, <2>1 DEF lifePhase
  <2> QED
    BY <1>3, <1>5, <2>2, StutterStep DEF Stutter
<1>6. CASE new # Absent /\ ~cr[n].deleting /\ new.deleting
  <2>1. \/ lifePhase[n] = "guarded" /\ phaseOf(new) = "leaving"
        \/ lifePhase[n] = "unguarded" /\ phaseOf(new) = "released"
    BY <1>1, <1>2, <1>4, <1>6 DEF phaseOf
  <2>2. Life!Delete(n)
    BY <1>3, <1>6, <2>1 DEF Life!Delete, Life!move, lifePhase, lifeParts, lifePruning
  <2> QED
    BY <2>2 DEF Life!Next
<1>7. CASE new = Absent
  <2>1. lifePhase[n] \in {"unguarded", "released"} /\ phaseOf(new) = "absent"
    BY <1>1, <1>2, <1>4, <1>7 DEF phaseOf
  <2>2. lifeParts' = lifeParts
    BY <1>3, <2>1 DEF LifePromise, lifeParts
  <2>3. CASE lifePhase[n] = "unguarded"
    <3>1. lifePruning' = lifePruning
      BY <1>3, <2>3 DEF LifePromise, lifePruning
    <3>2. Life!Delete(n)
      BY <1>3, <2>1, <2>2, <2>3, <3>1
           DEF Life!Delete, Life!move, lifePhase, lifeParts, lifePruning
    <3> QED
      BY <3>2 DEF Life!Next
  <2>4. CASE lifePhase[n] = "released"
    <3>1. Life!Vanish(n)
      BY <1>3, <1>7, <2>1, <2>2, <2>4
           DEF Life!Vanish, Life!move, lifePhase, lifeParts, lifePruning
    <3> QED
      BY <3>1 DEF Life!Next
  <2> QED
    BY <2>1, <2>3, <2>4
<1>8. new # Absent => new \in NodeFeatureDiscovery /\ new.deleting \in BOOLEAN
  BY DEF NodeFeatureDiscovery
<1>9. cr[n].deleting \in BOOLEAN
  BY <1>2 DEF NodeFeatureDiscovery
<1> QED
  BY <1>1, <1>5, <1>6, <1>7, <1>8, <1>9

-----------------------------------------------------------------------------
(* The theorems *)

\* Every step is one of Lifecycle, or none.
LEMMA ImplementationStep ==
  ASSUME Inv, LifePromise, [Next]_vars
  PROVE  [Life!Next]_(Life!vars)
<1>1. AbstractNext
  BY StepEffect DEF Inv
<1>2. CASE UNCHANGED <<cr, obj>>
  BY <1>2, StutterStep DEF Stutter, lifePhase, lifeParts, lifePruning, ownedBy, owned, controllerRef
<1>3. ASSUME \/ \E n \in Names : Reconcile(n)
             \/ Restart
             \/ \E g \in SyncGroups : Sync(g)
             \/ UNCHANGED vars
      PROVE  UNCHANGED <<cr, obj>>
  BY <1>3 DEF Reconcile, Restart, Sync, vars, crVars, objVars
<1>4. ASSUME NEW k \in Kinds, NEW s, DeleteEffect(k, s) PROVE [Life!Next]_(Life!vars)
  BY <1>4, DeleteImplements
<1>5. {"workerDS", "workerCM", "topologyDS", "masterDep", "gcDep"} \subseteq Kinds
  BY DEF Kinds, Components, Workloads, DaemonSets, Deployments
<1> QED
  BY <1>1, <1>2, <1>3, <1>4, <1>5, GuardImplements, ReleaseImplements, ApplyImplements,
     StatusImplements, PruneImplements, CreateImplements, EditImplements, ForeignImplements
     DEF AbstractNext

\* The variables of Lifecycle are functions of the names.
LEMMA LifeFunctions ==
  /\ lifePhase = [n \in Names |-> lifePhase[n]]
  /\ lifeParts = [n \in Names |-> lifeParts[n]]
  /\ lifePruning \subseteq Names
BY DEF lifePhase, lifeParts, lifePruning

\* Lifecycle keeps its promise: the parts of a CR are gone before pruning
\* starts and before the guard is given up, and none comes later.
LEMMA PromiseStep ==
  ASSUME LifePromise, [Life!Next]_(Life!vars)
  PROVE  LifePromise'
<1> DEFINE moved(n, from, to) == lifePhase[n] \in from /\ lifePhase' = [lifePhase EXCEPT ![n] = to]
<1>1. CASE UNCHANGED Life!vars
  BY <1>1 DEF Life!vars, LifePromise, lifePhase, lifeParts, lifePruning
<1>2. ASSUME NEW n \in Names, Life!Create(n) \/ Life!Guard(n) \/ Life!Delete(n) PROVE LifePromise'
  <2>1. /\ \/ moved(n, {"absent"}, "unguarded")
           \/ moved(n, {"unguarded"}, "guarded")
           \/ moved(n, {"guarded"}, "leaving")
           \/ moved(n, {"unguarded"}, "released")
           \/ moved(n, {"unguarded"}, "absent")
        /\ lifeParts' = lifeParts /\ lifePruning' = lifePruning
    BY <1>2 DEF Life!Create, Life!Guard, Life!Delete, Life!move, lifePhase, lifeParts, lifePruning
  <2> QED
    BY <2>1, LifeFunctions DEF LifePromise
<1>3. ASSUME NEW n \in Names, Life!Prune(n) PROVE LifePromise'
  <2>1. /\ lifePhase[n] \in {"leaving", "released"} /\ lifeParts[n] = {}
        /\ lifePruning' = {n} /\ lifePhase' = lifePhase /\ lifeParts' = lifeParts
    BY <1>3 DEF Life!Prune, lifePhase, lifeParts, lifePruning
  <2> QED
    BY <2>1 DEF LifePromise
<1>4. ASSUME NEW n \in Names, Life!Release(n) \/ Life!Vanish(n) PROVE LifePromise'
  <2>1. /\ \/ moved(n, {"leaving"}, "released") /\ lifePruning' = lifePruning
           \/ moved(n, {"leaving", "released"}, "absent") /\ lifePruning' = lifePruning \ {n}
        /\ lifeParts' = lifeParts
    BY <1>4 DEF Life!Release, Life!Vanish, Life!move, lifePhase, lifeParts, lifePruning
  <2>2. lifeParts[n] = {}
    BY <1>4 DEF Life!Release, Life!Vanish, Life!move, LifePromise, lifePhase, lifeParts
  <2> QED
    BY <2>1, <2>2, LifeFunctions DEF LifePromise
<1>5. ASSUME NEW n \in Names, NEW k \in coreComponents, Life!Deploy(n, k) PROVE LifePromise'
  <2>1. /\ lifePhase[n] \in {"guarded", "leaving"} /\ n \notin lifePruning
        /\ lifeParts' = [m \in Names |-> IF m = n THEN lifeParts[m] \cup {k} ELSE lifeParts[m] \ {k}]
        /\ lifePhase' = lifePhase /\ lifePruning' = lifePruning
    BY <1>5 DEF Life!Deploy, lifePhase, lifeParts, lifePruning
  <2> QED
    BY <2>1, LifeFunctions DEF LifePromise
<1>6. ASSUME NEW k \in coreComponents, Life!Lose(k) PROVE LifePromise'
  <2>1. /\ lifeParts' = [m \in Names |-> lifeParts[m] \ {k}]
        /\ lifePhase' = lifePhase /\ lifePruning' = lifePruning
    BY <1>6 DEF Life!Lose, lifePhase, lifeParts, lifePruning
  <2> QED
    BY <2>1, LifeFunctions DEF LifePromise
<1>7. CASE Life!LoseJob
  <2>1. lifePruning' = {} /\ lifePhase' = lifePhase /\ lifeParts' = lifeParts
    BY <1>7 DEF Life!LoseJob, lifePhase, lifeParts, lifePruning
  <2> QED
    BY <2>1 DEF LifePromise
<1> QED
  BY <1>1, <1>2, <1>3, <1>4, <1>5, <1>6, <1>7 DEF Life!Next

\* The steps of the operator, however outdated its copies and whatever
\* requests fail, are those Lifecycle allows: a CR is guarded before anything
\* is deployed for it, its parts go before it is pruned for and let go of.
THEOREM LifecycleImplemented == Spec => ImplementsLifecycle
<1>1. Init => Life!Init
  <2> SUFFICES ASSUME Init PROVE Life!Init
    OBVIOUS
  <2>1. \A n \in Names : cr[n] = Absent
    BY DEF Init
  <2> QED
    BY <2>1 DEF Life!Init, phaseOf, ownedBy
<1>2. Life!Init => LifePromise
  BY DEF Life!Init, LifePromise, lifePhase, lifeParts, lifePruning
<1>3. Inv /\ LifePromise /\ [Next]_vars => [Life!Next]_(Life!vars)
  BY ImplementationStep
<1>4. LifePromise /\ [Life!Next]_(Life!vars) => LifePromise'
  BY PromiseStep
<1> QED
  BY <1>1, <1>2, <1>3, <1>4, InvCorrect, PTL DEF Spec, ImplementsLifecycle, Life!Spec

\* The same, step by step, for specifications that start elsewhere.
THEOREM LifecycleStepsCorrect == Spec => LifecycleSteps
BY LifecycleImplemented, PTL DEF ImplementsLifecycle, LifecycleSteps, Life!Spec

\* Nothing belongs to a CR the operator has not guarded or has let go of, and
\* nothing is left of a CR that prunes.
THEOREM PromiseKept == Spec => []Life!Promise
<1>1. Life!Init => LifePromise
  BY DEF Life!Init, LifePromise, lifePhase, lifeParts, lifePruning
<1>2. LifePromise /\ [Life!Next]_(Life!vars) => LifePromise'
  BY PromiseStep
<1>3. LifePromise => Life!Promise
  BY DEF LifePromise, Life!Promise, lifePhase, lifeParts, lifePruning
<1> QED
  BY <1>1, <1>2, <1>3, LifecycleImplemented, PTL DEF ImplementsLifecycle, Life!Spec
=============================================================================
