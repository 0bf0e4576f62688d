------------------------------ MODULE Handover ------------------------------
(***************************************************************************)
(* The operator runs with leader election (main.go, --leader-elect in      *)
(* config/manager/manager.yaml).  A leader that is cut off loses its lease *)
(* to a new one, but until it notices and exits it goes on with the        *)
(* Reconcile it was running: on its copy of the CR, with caches that no    *)
(* longer receive events.  The variables of Reconciler are the new         *)
(* leader's; those below are what is left of the old one.                  *)
(***************************************************************************)
EXTENDS MCLifecycle

VARIABLES oldQueue, oldPc, oldInst, oldInstFresh, oldFailed, oldObjCache

oldVars == <<oldQueue, oldPc, oldInst, oldInstFresh, oldFailed, oldObjCache>>
allVars == <<vars, oldVars>>

\* The old leader takes no further request: its queue holds at most the one
\* that failed.
Old == INSTANCE Reconciler WITH
         pc <- oldPc, inst <- oldInst, instFresh <- oldInstFresh, failed <- oldFailed,
         objCache <- oldObjCache, queue <- oldQueue

noCache == [k \in Kinds |-> Absent]

\* A copy of a CR somebody has written since is outdated.
stillFresh(fresh, c) == fresh /\ cr'[c.name] = cr[c.name]

\* A CR has been served.
InitHandover ==
  /\ cr = [n \in Names |-> servedCR(n)] /\ obj = served(CHOOSE n \in Names : TRUE)
  /\ crCache = cr /\ objCache = obj /\ crFresh = [n \in Names |-> TRUE]
  /\ notify = [i \in Informers |-> {}]
  /\ queue = {} /\ pc = "idle" /\ inst = Absent /\ instFresh = FALSE /\ failed = FALSE
  /\ nextUid = 2 /\ faults = 0 /\ edits = 0 /\ pruned = {}
  /\ oldPc = "idle" /\ oldInst = Absent /\ oldInstFresh = FALSE /\ oldFailed = FALSE
  /\ oldObjCache = noCache /\ oldQueue = {}

\* The lease passes to a new process while a Reconcile is running.
Takeover ==
  /\ oldPc = "idle" /\ pc # "idle"
  /\ Restart
  /\ oldPc' = pc /\ oldInst' = inst /\ oldInstFresh' = instFresh /\ oldFailed' = failed
  /\ oldObjCache' = objCache /\ UNCHANGED oldQueue

\* The new leader, the users or the cluster: as in Reconciler.
NewStep ==
  /\ Next
  /\ oldInstFresh' = stillFresh(oldInstFresh, oldInst)
  /\ UNCHANGED <<oldQueue, oldPc, oldInst, oldFailed, oldObjCache>>

\* The old leader's next request.
OldStep ==
  /\ oldPc # "idle"
  /\ Old!Operator
  /\ instFresh' = stillFresh(instFresh, inst)
  /\ UNCHANGED <<queue, pc, inst, failed, objCache>>

\* It notices the loss of the lease, and the process exits.
OldStops ==
  /\ oldPc # "idle"
  /\ oldPc' = "idle" /\ oldInst' = Absent /\ oldInstFresh' = FALSE /\ oldFailed' = FALSE
  /\ oldObjCache' = noCache /\ oldQueue' = {}
  /\ UNCHANGED vars

NextHandover == Takeover \/ NewStep \/ OldStep \/ OldStops

SpecHandover == InitHandover /\ [][NextHandover]_allVars

-----------------------------------------------------------------------------
\* What an old leader does after the hand-over, on whatever outdated copies,
\* is repaired by the new one: once the new leader has nothing left to do and
\* no event is under way, a CR has what it asks for and a deleted one waits
\* only for its prune job, even if the old process is still there.
HandoverHeals == QuietMeansApplied /\ QuietMeansPruning
=============================================================================
