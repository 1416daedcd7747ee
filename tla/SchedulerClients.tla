-------------------------- MODULE SchedulerClients --------------------------
(***************************************************************************)
(* The scheduler of pkg/orchestrator/scheduler.go used by concurrent       *)
(* callers in the way its comments describe: Schedule, then Allocate on    *)
(* the GPU it returned, then, if Allocate returned true, Release once.     *)
(* (ControlPlane models what the HTTP handlers make of it.)                *)
(*                                                                         *)
(* A Schedule call looks at the GPUs one after the other while others      *)
(* allocate and release, so what it returns need not be true of any one    *)
(* moment.  History variables record what was true during the call.        *)
(***************************************************************************)
EXTENDS Scheduler

CONSTANT NoGPU     \* nil

ASSUME NoGPUAssumption == NoGPU \notin GPU

VARIABLES
  pc,        \* where each caller is
  choice,    \* the GPU that Schedule returned to it
  steady,    \* GPUs with room for the caller ever since it called Schedule
  warmAtCall,\* GPUs that had its model loaded when it called Schedule
  touched,   \* GPUs allocated on or released since it called Schedule
  sawFull    \* callers for which, at some moment of the call, no GPU had room

historyVars == <<steady, warmAtCall, touched, sawFull>>
vars == <<schedulerVars, pc, choice, historyVars>>

PC == {"idle", "schedule", "allocate", "held", "exhausted", "refused", "released"}

Init ==
  /\ SchedulerInit
  /\ pc = [w \in Worker |-> "idle"]
  /\ choice = [w \in Worker |-> NoGPU]
  /\ steady = [w \in Worker |-> {}]
  /\ warmAtCall = [w \in Worker |-> {}]
  /\ touched = [w \in Worker |-> {}]
  /\ sawFull = {}

TypeOK ==
  /\ SchedulerTypeOK
  /\ pc \in [Worker -> PC]
  /\ choice \in [Worker -> GPU \union {NoGPU}]
  /\ steady \in [Worker -> SUBSET GPU]
  /\ warmAtCall \in [Worker -> SUBSET GPU]
  /\ touched \in [Worker -> SUBSET GPU]
  /\ sawFull \subseteq Worker

Room(w) == {g \in GPU : Fits(g, w)}

\* What the callers inside Schedule witness of a change of what is kept on g.
Witness(g) ==
  /\ steady' = [w \in Worker |->
       IF pc[w] = "schedule" THEN steady[w] \intersect Room(w)' ELSE steady[w]]
  /\ sawFull' = sawFull \union {w \in Worker : pc[w] = "schedule" /\ Room(w)' = {}}
  /\ touched' = [w \in Worker |->
       IF pc[w] = "schedule" THEN touched[w] \union {g} ELSE touched[w]]
  /\ UNCHANGED warmAtCall

Goto(w, from, to) == pc[w] = from /\ pc' = [pc EXCEPT ![w] = to]

-----------------------------------------------------------------------------
CallSchedule(w) ==
  /\ Goto(w, "idle", "schedule")
  /\ steady' = [steady EXCEPT ![w] = Room(w)]
  /\ warmAtCall' = [warmAtCall EXCEPT ![w] =
                      {g \in GPU : ModelOf[w] \in loadedModels[g]}]
  /\ sawFull' = IF Room(w) = {} THEN sawFull \union {w} ELSE sawFull
  /\ UNCHANGED <<schedulerVars, choice, touched>>

Look(w, g) ==
  /\ pc[w] = "schedule"
  /\ ScanGPU(w, g) \/ CompareGPU(w, g)
  /\ UNCHANGED <<pc, choice, historyVars>>

Found(w, g) ==
  /\ Goto(w, "schedule", "allocate")
  /\ ScheduleReturns(w, g)
  /\ choice' = [choice EXCEPT ![w] = g]
  /\ touched' = [touched EXCEPT ![w] = {}]
  /\ UNCHANGED <<steady, warmAtCall, sawFull>>

Exhausted(w) ==
  /\ Goto(w, "schedule", "exhausted")
  /\ ScheduleReturnsNil(w)
  /\ touched' = [touched EXCEPT ![w] = {}]
  /\ UNCHANGED <<choice, steady, warmAtCall, sawFull>>

Allocated(w) ==
  /\ Goto(w, "allocate", "held")
  /\ AllocateSucceeds(choice[w], w)
  /\ Witness(choice[w])
  /\ UNCHANGED choice

Refused(w) ==
  /\ Goto(w, "allocate", "refused")
  /\ AllocateFails(choice[w], w)
  /\ UNCHANGED <<choice, historyVars>>

Released(w) ==
  /\ Goto(w, "held", "released")
  /\ Release(choice[w], w)
  /\ Witness(choice[w])
  /\ UNCHANGED choice

Next ==
  \E w \in Worker :
    \/ CallSchedule(w)
    \/ \E g \in GPU : Look(w, g) \/ Found(w, g)
    \/ Exhausted(w) \/ Allocated(w) \/ Refused(w) \/ Released(w)

Spec == Init /\ [][Next]_vars

-----------------------------------------------------------------------------
\* Schedule does not return nil past a GPU that had room during the whole
\* call, whatever other callers did to the others meanwhile.
NilOverlooksNothing ==
  \A w \in Worker : pc[w] = "exhausted" => steady[w] = {}

\* Schedule prefers a warm GPU: if one that had the model loaded when the call
\* began had room during the whole call, the GPU it returns has the model.
WarmPreferred ==
  \A w \in Worker :
    pc[w] = "allocate" /\ steady[w] \intersect warmAtCall[w] # {}
      => ModelOf[w] \in loadedModels[choice[w]]

\* "Finds the best GPU": if nobody allocated on the candidates, nor released
\* there, between the call of Schedule and its return, the GPU it returns is
\* the freest of the warm GPUs with room, or of all with room if there is no
\* such; whatever happened on other GPUs, and those are not compared with.
Freest(g, S) == g \in S /\ \A h \in S : Available(h) <= Available(g)

UntouchedRoom(w) == Room(w) \ touched[w]
WarmRoom(w) == {g \in UntouchedRoom(w) : ModelOf[w] \in loadedModels[g]}

FreestIfUndisturbed ==
  [][\A w \in Worker, g \in GPU :
       Found(w, g) /\ Candidates(w) \intersect touched[w] = {} =>
         Freest(g, IF WarmRoom(w) # {} THEN WarmRoom(w) ELSE UntouchedRoom(w))]_vars

\* Why they hold: a GPU that has had room since the call began is either still
\* to be looked at or among the candidates, and among the warm ones if it had
\* the model from the start.
CallInv(w) ==
  /\ pc[w] = "idle" => scan[w].todo = GPU /\ scan[w].warm = {}
  /\ pc[w] = "schedule" =>
       /\ steady[w] \subseteq Room(w)
       /\ steady[w] \subseteq scan[w].todo \union scan[w].warm \union scan[w].cold
       /\ steady[w] \intersect warmAtCall[w] \subseteq scan[w].todo \union scan[w].warm
       /\ \A g \in scan[w].warm \union warmAtCall[w] : ModelOf[w] \in loadedModels[g]
       /\ scan[w].warm \union scan[w].cold \subseteq GPU
  /\ pc[w] \in {"allocate", "held"} => choice[w] \in GPU

\* Why the last holds: each call begins afresh; a GPU that nobody has touched
\* since is on the list where the call's look at it put it; and once the sort
\* has begun a candidate is at most as free as the contender it stands behind.
SortInv(w) ==
  /\ pc[w] = "idle" =>
       scan[w].cold = {} /\ scan[w].head = Unsorted /\ touched[w] = {}
  /\ pc[w] = "schedule" =>
       /\ \A g \in GPU \ (scan[w].todo \union touched[w]) :
            /\ g \in scan[w].warm <=> Fits(g, w) /\ ModelOf[w] \in loadedModels[g]
            /\ g \in scan[w].cold <=> Fits(g, w) /\ ModelOf[w] \notin loadedModels[g]
       /\ scan[w].todo # {} => scan[w].head = Unsorted
       /\ (scan[w].warm \union scan[w].cold) \intersect scan[w].todo = {}
       /\ \A g \in Candidates(w) : scan[w].head[g] \in Contenders(w)
       /\ Candidates(w) \intersect touched[w] = {} =>
            \A g \in Candidates(w) : Available(g) <= Available(scan[w].head[g])

ClientInv ==
  /\ TypeOK
  /\ \A w \in Worker : CallInv(w)
  /\ NilOverlooksNothing
  /\ WarmPreferred

\* "Returns nil if no suitable GPU is available": at some moment of a call
\* that returns nil no GPU had room.
NilMeansExhausted == \A w \in Worker : pc[w] = "exhausted" => w \in sawFull
=============================================================================
