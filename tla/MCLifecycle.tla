---------------------------- MODULE MCLifecycle ----------------------------
(* Reconciler with small constants.  Each .cfg chooses the budgets. *)
EXTENDS Reconciler, TLC

CONSTANTS p1, p2     \* two payloads

spec(topology, prune, settings) ==
  [topologyUpdater |-> topology, pruneOnDelete |-> prune, operand |-> settings,
   workerConfig |-> settings]

OneSpec == {spec(TRUE, TRUE, p1)}
PruneSpecs == {spec(TRUE, p, p1) : p \in BOOLEAN}
BareSpec == {spec(FALSE, FALSE, p1)}
OperandSpecs == {spec(FALSE, FALSE, p) : p \in {p1, p2}}

PrunedOperandSpecs == {spec(FALSE, TRUE, p) : p \in {p1, p2}}

\* The two payloads are interchangeable where OperandSpecs is used.
PayloadSymmetry == Permutations({p1, p2})

PlainSpec == {spec(FALSE, TRUE, p1)}

dsUp == [desired |-> 1, current |-> 1, ready |-> 1]
dsStarting == [desired |-> 1, current |-> 1, ready |-> 0]
depUp == [available |-> 1]
depDown == [available |-> 0]

DSUp == {dsUp}
DepUp == {depUp}
DSMixed == {dsUp, dsStarting}
DepMixed == {depUp, depDown}

\* A state Reconciler reaches from its own Init: the CR n has been served,
\* and every workload was noticed by its controller.
theSpec == CHOOSE s \in Specs : TRUE

newCR(n, u) ==
  [name |-> n, uid |-> u, spec |-> theSpec, finalizer |-> FALSE, held |-> FALSE,
   deleting |-> FALSE, conditions |-> {}]

served(n) ==
  [k \in Kinds |->
     IF k \in Components /\ required(k, theSpec)
       THEN [newObject(k, newCR(n, 1)) EXCEPT !.observed = TRUE]
       ELSE Absent]

servedCR(n) == [newCR(n, 1) EXCEPT !.finalizer = TRUE, !.conditions = conditionsOf(served(n), theSpec)]
=============================================================================
