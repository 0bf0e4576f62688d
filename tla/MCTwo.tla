------------------------------- MODULE MCTwo -------------------------------
(***************************************************************************)
(* Two CRs in one namespace, which share the names of all objects.  The    *)
(* behaviours start when a has been served and b has just been created, a  *)
(* state Reconciler reaches from its own Init.                             *)
(***************************************************************************)
EXTENDS MCLifecycle

CONSTANTS a, b

InitTwo ==
  /\ cr = (a :> servedCR(a) @@ b :> newCR(b, 2))
  /\ obj = served(a)
  /\ crCache = (a :> servedCR(a) @@ b :> Absent)
  /\ crFresh = (a :> TRUE @@ b :> FALSE)
  /\ objCache = served(a)
  /\ notify = [i \in Informers |-> {}]
  /\ queue = {} /\ pc = "idle" /\ inst = Absent /\ instFresh = FALSE /\ failed = FALSE
  /\ nextUid = 3 /\ faults = 0 /\ edits = 0 /\ pruned = {}

SpecTwo == InitTwo /\ [][Next]_vars
FairSpecTwo == SpecTwo /\ Fairness
=============================================================================
