---------------------------- MODULE StatusProofs ----------------------------
(***************************************************************************)
(* What Status computes, for every status of the four workloads.           *)
(***************************************************************************)
EXTENDS Status, TLAPS

\* GetConditions returns conditions, whatever it is given.
LEMMA ConditionsType ==
  ASSUME NEW w, NEW m, NEW g, NEW t, NEW u
  PROVE  GetConditions(w, m, g, t, u) \in SUBSET Condition
<1>0. \A x \in conditionTypes : notMet(x) \in Condition
  BY DEF notMet, Condition, conditionReasons, conditionMessages
<1>1. ASSUME NEW ty \in conditionTypes, NEW r \in conditionReasons, NEW s \in conditionMessages
      PROVE  onlyTrue(ty, r, s) \in SUBSET Condition
  <2>1. [type |-> ty, status |-> TRUE, reason |-> r, message |-> s] \in Condition
    BY DEF Condition
  <2> QED
    BY <1>0, <2>1 DEF onlyTrue
<1>2. getAvailableConditions \in SUBSET Condition
  <2>1. /\ [type |-> "Available", status |-> TRUE,
            reason |-> "AllInstanceComponentsAreDeployedSuccessfuly", message |-> ""] \in Condition
        /\ [type |-> "Upgradeable", status |-> TRUE,
            reason |-> "CanBeUpgraded", message |-> ""] \in Condition
    BY DEF Condition, conditionTypes, conditionReasons, conditionMessages
  <2> QED
    BY <1>0, <2>1 DEF getAvailableConditions, conditionTypes
<1>3. ASSUME NEW ds, NEW x \in conditionReasons, NEW y \in conditionReasons,
             NEW z \in conditionReasons
      PROVE  getDaemonSetNotAvailableConditions(ds, x, y, z) \in SUBSET Condition
  BY <1>1 DEF getDaemonSetNotAvailableConditions, notAvailable, getDaemonSetConditions,
       getDegradedConditions, getProgressingConditions, conditionTypes, conditionMessages
<1>4. ASSUME NEW dep, NEW x \in conditionReasons, NEW y \in conditionReasons,
             NEW z \in conditionReasons
      PROVE  getDeploymentNotAvailableConditions(dep, x, y, z) \in SUBSET Condition
  BY <1>1 DEF getDeploymentNotAvailableConditions, notAvailable, getDeploymentConditions,
       getDegradedConditions, getProgressingConditions, conditionTypes, conditionMessages
<1>5. /\ getWorkerNotAvailableConditions(w) \in SUBSET Condition
      /\ getTopologyNotAvailableConditions(t) \in SUBSET Condition
  BY <1>3 DEF getWorkerNotAvailableConditions, getTopologyNotAvailableConditions,
       conditionReasons
<1>6. /\ getMasterNotAvailableConditions(m) \in SUBSET Condition
      /\ getGCNotAvailableConditions(g) \in SUBSET Condition
  BY <1>4 DEF getMasterNotAvailableConditions, getGCNotAvailableConditions,
       conditionReasons
<1> QED
  BY <1>2, <1>5, <1>6, Zenon DEF GetConditions

\* A list of conditions has exactly one entry per type.
oneEach(conditions) ==
  /\ conditions \subseteq Condition
  /\ \A t \in conditionTypes : \E c \in conditions : c.type = t
  /\ \A c, d \in conditions : c.type = d.type => c = d

\* The lists the code builds are such lists.
LEMMA OneTrue ==
  ASSUME NEW t \in conditionTypes, NEW r \in conditionReasons, NEW s \in conditionMessages
  PROVE  oneEach(onlyTrue(t, r, s))
<1> DEFINE c == [type |-> t, status |-> TRUE, reason |-> r, message |-> s]
<1>1. \A u \in conditionTypes : notMet(u) \in Condition /\ notMet(u).type = u
  BY DEF notMet, Condition, conditionReasons, conditionMessages
<1>2. c \in Condition /\ c.type = t
  BY DEF Condition
<1>3. onlyTrue(t, r, s) = {notMet(u) : u \in conditionTypes \ {t}} \cup {c}
  BY DEF onlyTrue
<1> HIDE DEF c
<1>4. \A d \in onlyTrue(t, r, s) : d = c \/ \E u \in conditionTypes \ {t} : d = notMet(u)
  BY <1>3
<1>5. \A u \in conditionTypes : \E d \in onlyTrue(t, r, s) : d.type = u
  BY <1>1, <1>2, <1>3
<1>6. \A d, e \in onlyTrue(t, r, s) : d.type = e.type => d = e
  BY <1>1, <1>2, <1>4
<1>7. onlyTrue(t, r, s) \subseteq Condition
  BY <1>1, <1>2, <1>4
<1> QED
  BY <1>5, <1>6, <1>7 DEF oneEach

\* So is the list for the case that all is up.
LEMMA AllMet == oneEach(getAvailableConditions)
<1> DEFINE a == [type |-> "Available", status |-> TRUE,
                 reason |-> "AllInstanceComponentsAreDeployedSuccessfuly", message |-> ""]
           b == [type |-> "Upgradeable", status |-> TRUE, reason |-> "CanBeUpgraded", message |-> ""]
<1>1. getAvailableConditions = {notMet("Progressing"), notMet("Degraded"), a, b}
  BY DEF getAvailableConditions
<1>2. /\ notMet("Progressing") \in Condition /\ notMet("Progressing").type = "Progressing"
      /\ notMet("Degraded") \in Condition /\ notMet("Degraded").type = "Degraded"
      /\ a \in Condition /\ a.type = "Available"
      /\ b \in Condition /\ b.type = "Upgradeable"
  BY DEF notMet, Condition, conditionTypes, conditionReasons, conditionMessages
<1> HIDE DEF a, b
<1> QED
  BY <1>1, <1>2 DEF oneEach, conditionTypes

\* What a workload that is not available gives: one true condition, Degraded
\* or Progressing.
problem(conditions) ==
  \E t \in {"Degraded", "Progressing"}, r \in conditionReasons, s \in conditionMessages :
    conditions = onlyTrue(t, r, s)

\* A list of conditions that reports a problem is not the nil list.
LEMMA ProblemNotNil == ASSUME NEW C, problem(C) PROVE C # {}
BY DEF problem, onlyTrue

daemonSetAvailable(ds) == ds # Absent /\ ds.desired # 0 /\ ds.current # 0 /\ ds.ready = ds.desired
deploymentAvailable(dep) == dep # Absent /\ dep.available # 0

\* The verdict on a DaemonSet is nil when it is available, else a problem.
LEMMA DaemonSetVerdict ==
  ASSUME NEW ds, NEW f \in conditionReasons, NEW d \in conditionReasons, NEW p \in conditionReasons
  PROVE  LET C == getDaemonSetNotAvailableConditions(ds, f, d, p)
         IN  IF daemonSetAvailable(ds) THEN C = {} ELSE problem(C)
BY DEF getDaemonSetNotAvailableConditions, daemonSetAvailable, notAvailable, getDaemonSetConditions,
   getDegradedConditions, getProgressingConditions, problem, conditionMessages

\* The verdict on a Deployment.
LEMMA DeploymentVerdict ==
  ASSUME NEW dep, NEW f \in conditionReasons, NEW d \in conditionReasons, NEW p \in conditionReasons
  PROVE  LET C == getDeploymentNotAvailableConditions(dep, f, d, p)
         IN  IF deploymentAvailable(dep) THEN C = {} ELSE problem(C)
BY DEF getDeploymentNotAvailableConditions, deploymentAvailable, notAvailable,
   getDeploymentConditions, getDegradedConditions, getProgressingConditions, problem,
   conditionMessages

\* GetConditions reports that all is up when it is, else one problem.
LEMMA ConditionsVerdict ==
  ASSUME NEW w, NEW m, NEW g, NEW t, NEW u
  PROVE  IF /\ daemonSetAvailable(w) /\ deploymentAvailable(m) /\ deploymentAvailable(g)
            /\ u => daemonSetAvailable(t)
           THEN GetConditions(w, m, g, t, u) = getAvailableConditions
           ELSE problem(GetConditions(w, m, g, t, u))
<1> DEFINE W == getWorkerNotAvailableConditions(w)
           M == getMasterNotAvailableConditions(m)
           G == getGCNotAvailableConditions(g)
           T == getTopologyNotAvailableConditions(t)
<1>1. IF daemonSetAvailable(w) THEN W = {} ELSE problem(W) /\ W # {}
  BY DaemonSetVerdict, ProblemNotNil DEF getWorkerNotAvailableConditions, conditionReasons
<1>2. IF deploymentAvailable(m) THEN M = {} ELSE problem(M) /\ M # {}
  BY DeploymentVerdict, ProblemNotNil DEF getMasterNotAvailableConditions, conditionReasons
<1>3. IF deploymentAvailable(g) THEN G = {} ELSE problem(G) /\ G # {}
  BY DeploymentVerdict, ProblemNotNil DEF getGCNotAvailableConditions, conditionReasons
<1>4. IF daemonSetAvailable(t) THEN T = {} ELSE problem(T) /\ T # {}
  BY DaemonSetVerdict, ProblemNotNil DEF getTopologyNotAvailableConditions, conditionReasons
<1>5. GetConditions(w, m, g, t, u) =
        IF W # {} THEN W
        ELSE IF M # {} THEN M
        ELSE IF G # {} THEN G
        ELSE IF u /\ T # {} THEN T
        ELSE getAvailableConditions
  BY DEF GetConditions
<1> HIDE DEF W, M, G, T
<1> QED
  BY <1>1, <1>2, <1>3, <1>4, <1>5

\* The list it returns has one entry per type.
LEMMA ConditionsOneEach ==
  ASSUME NEW w, NEW m, NEW g, NEW t, NEW u
  PROVE  oneEach(GetConditions(w, m, g, t, u))
<1>1. \A C : problem(C) => oneEach(C)
  BY OneTrue DEF problem, conditionTypes
<1> QED
  BY <1>1, AllMet, ConditionsVerdict

\* Lists with one entry per type that AreConditionsEqual finds equal are the
\* same, although it looks only for the new entries among the old ones.
LEMMA EqualMeansSame ==
  ASSUME NEW p, NEW c, oneEach(p), oneEach(c), AreConditionsEqual(p, c)
  PROVE  p = c
<1>1. ASSUME NEW x \in Condition, NEW y \in Condition, x.type = y.type, x.status = y.status,
             x.reason = y.reason, x.message = y.message
      PROVE  x = y
  BY <1>1 DEF Condition
<1>2. c \subseteq p
  BY <1>1 DEF oneEach, AreConditionsEqual
<1>3. ASSUME NEW x \in p PROVE x \in c
  <2>1. x.type \in conditionTypes
    BY DEF oneEach, Condition
  <2>2. PICK y \in c : y.type = x.type
    BY <2>1 DEF oneEach
  <2> QED
    BY <1>2, <2>2 DEF oneEach
<1> QED
  BY <1>2, <1>3
=============================================================================
