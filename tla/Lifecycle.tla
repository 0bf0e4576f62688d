----------------------------- MODULE Lifecycle -----------------------------
(***************************************************************************)
(* What the operator promises for the NodeFeatureDiscovery objects (CRs)   *)
(* of a namespace, without caches, requests, failures or an order of work. *)
(* A CR is deployed for only once it is guarded by the operator's          *)
(* finalizer; pruning starts, and the CR is let go of, only after its      *)
(* parts are gone; and neither a part nor the guard comes back then.       *)
(***************************************************************************)
CONSTANTS
  Names,      \* the CRs' names
  Parts       \* the objects deployed for a CR; two CRs share their names

VARIABLES
  phase,      \* where each CR is in its life
  parts,      \* the parts each CR owns
  pruning     \* the CRs that own a prune job

vars == <<phase, parts, pruning>>

Phases == {"absent", "unguarded", "guarded", "leaving", "released"}

Init ==
  /\ phase = [n \in Names |-> "absent"]
  /\ parts = [n \in Names |-> {}]
  /\ pruning = {}

move(n, from, to) ==
  /\ phase[n] \in from
  /\ phase' = [phase EXCEPT ![n] = to]

Create(n) ==
  /\ move(n, {"absent"}, "unguarded")
  /\ UNCHANGED <<parts, pruning>>

Guard(n) ==
  /\ move(n, {"unguarded"}, "guarded")
  /\ UNCHANGED <<parts, pruning>>

\* A guarded CR stays when it is deleted; an unguarded one goes at once, or
\* waits for somebody else.
Delete(n) ==
  /\ \/ move(n, {"guarded"}, "leaving")
     \/ move(n, {"unguarded"}, "released")
     \/ move(n, {"unguarded"}, "absent")
  /\ UNCHANGED <<parts, pruning>>

\* A CR gets a part, perhaps from another one.  The deletion of the CR may
\* not be known yet, but once it prunes nothing is deployed for it.
Deploy(n, k) ==
  /\ phase[n] \in {"guarded", "leaving"}
  /\ n \notin pruning
  /\ parts' = [m \in Names |-> IF m = n THEN parts[m] \cup {k} ELSE parts[m] \ {k}]
  /\ UNCHANGED <<phase, pruning>>

\* A part is deleted or loses its owner.
Lose(k) ==
  /\ parts' = [m \in Names |-> parts[m] \ {k}]
  /\ UNCHANGED <<phase, pruning>>

\* There is one prune job; it is created for a deleted CR without parts.
Prune(n) ==
  /\ phase[n] \in {"leaving", "released"}
  /\ parts[n] = {}
  /\ pruning = {}
  /\ pruning' = {n}
  /\ UNCHANGED <<phase, parts>>

LoseJob ==
  /\ pruning' = {}
  /\ UNCHANGED <<phase, parts>>

\* The guard is given up.
Release(n) ==
  /\ parts[n] = {}
  /\ \/ move(n, {"leaving"}, "released") /\ UNCHANGED pruning
     \/ move(n, {"leaving"}, "absent") /\ pruning' = pruning \ {n}
  /\ UNCHANGED parts

\* Nobody else holds the CR any more.
Vanish(n) ==
  /\ move(n, {"released"}, "absent")
  /\ pruning' = pruning \ {n}
  /\ UNCHANGED parts

Next ==
  \/ \E n \in Names :
       Create(n) \/ Guard(n) \/ Delete(n) \/ Prune(n) \/ Release(n) \/ Vanish(n)
  \/ \E n \in Names, k \in Parts : Deploy(n, k)
  \/ \E k \in Parts : Lose(k)
  \/ LoseJob

Spec == Init /\ [][Next]_vars

-----------------------------------------------------------------------------
\* The promise as an invariant: nothing belongs to a CR the operator has not
\* guarded or has let go of, and nothing is left of a CR that prunes.
Promise ==
  /\ \A n \in Names : phase[n] \in {"absent", "unguarded", "released"} => parts[n] = {}
  /\ \A n \in pruning : phase[n] \in {"leaving", "released"} /\ parts[n] = {}
=============================================================================
