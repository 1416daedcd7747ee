--------------------------- MODULE WorkerSelection ---------------------------
(***************************************************************************)
(* Finding a worker for a request: SelectWorker and SelectWorkerForModel   *)
(* of the scheduler, FindIdleWorker of the pool.  They hold no lock from   *)
(* one look to the next, while workers join, change status and leave and   *)
(* VRAM is allocated and released.  The calls change nothing, so that one  *)
(* of them at a time shows what any number of them may return.             *)
(*                                                                         *)
(* PENDING and STARTING are RUNNING here: to these calls they are not      *)
(* IDLE.  The list that ListWorkers returns is a set: both passes may take *)
(* it in any order.                                                        *)
(***************************************************************************)
EXTENDS Integers, WorkerStatus

CONSTANTS
  Worker, GPU, Tenant, Model,
  TenantOf, ModelOf,   \* WorkerState.TenantID and .Model.Name
  MemoryAllocatedMB,   \* WorkerState.GPUAssignment.MemoryAllocatedMB, or Nil
  TotalVRAM,           \* of every GPU
  DefaultVRAM,         \* vramRequired of SelectWorker (8000)
  Requirement,         \* vramRequirement of SelectWorkerForModel
  NoTenant,            \* "", with which ListWorkers lists all workers
  NoWorker             \* nil

Nil == -1   \* no GPUAssignment

ASSUME SelectionAssumption ==
  /\ TenantOf \in [Worker -> Tenant]
  /\ ModelOf \in [Worker -> Model]
  /\ MemoryAllocatedMB \in [Worker -> Nat \union {Nil}]
  /\ NoTenant \notin Tenant
  /\ TotalVRAM \in Nat /\ DefaultVRAM \in Nat /\ Requirement \subseteq Nat
  /\ NoWorker \notin Worker

VARIABLES
  workers, joined,   \* keys of the sync.Map, now and ever
  status,            \* WorkerState.Status
  free,              \* TotalVRAMMB - AllocatedVRAM of each GPU
  call,              \* the call in progress: where it is, and its arguments
  list,              \* workers listed
  todo, todoGPU,     \* what the current loop has still to look at
  chosen,            \* SelectWorkerResult.Worker, or found
  \* history
  steady,            \* workers registered and IDLE since the call began
  steadyGPU          \* GPUs with room for the request since the call began

poolVars   == <<workers, joined, status, free>>
localVars  == <<call, list, todo, todoGPU, chosen>>
steadyVars == <<steady, steadyGPU>>
vars == <<poolVars, localVars, steadyVars>>

Operation == {"SelectWorker", "SelectWorkerForModel", "FindIdleWorker"}
Loop   == {"list", "warm", "repurpose", "gpu", "find"}
Result == {"WARM_HIT", "REPURPOSE", "COLD_START", "RESOURCE_EXHAUSTED", "nil"}

Idling == [at |-> "off"]

TypeOK ==
  /\ workers \subseteq joined /\ joined \subseteq Worker
  /\ status \in [Worker -> {StatusRunning, StatusIdle, StatusTerminating}]
  /\ free \in [GPU -> 0..TotalVRAM]
  /\ call \in [at: Loop \union Result, op: Operation, tenant: Tenant \union {NoTenant},
               model: Model, vram: Nat] \union {Idling}
  /\ list \subseteq Worker /\ todo \subseteq Worker /\ todoGPU \subseteq GPU
  /\ chosen \in Worker \union {NoWorker}
  /\ steady \subseteq workers /\ steadyGPU \subseteq GPU

Init ==
  /\ workers = {} /\ joined = {}
  /\ status = [w \in Worker |-> StatusRunning]
  /\ free = [g \in GPU |-> TotalVRAM]
  /\ call = Idling
  /\ list = {} /\ todo = {} /\ todoGPU = {} /\ chosen = NoWorker
  /\ steady = {} /\ steadyGPU = {}

-----------------------------------------------------------------------------
(***************************************************************************)
(* What goes on meanwhile.                                                 *)
(***************************************************************************)
AddWorker(w) ==
  /\ w \notin joined
  /\ workers' = workers \union {w} /\ joined' = joined \union {w}
  /\ UNCHANGED <<status, free, localVars, steadyVars>>

\* The idle callback removes a worker whose status stays IDLE.
RemoveWorker(w) ==
  /\ w \in workers
  /\ workers' = workers \ {w} /\ steady' = steady \ {w}
  /\ UNCHANGED <<joined, status, free, localVars, steadyGPU>>

\* Mutant: transitions are not validated.
TransitionToUnchecked(w, s) ==
  /\ w \in joined
  /\ status' = [status EXCEPT ![w] = s]
  /\ steady' = steady \ {w}
  /\ UNCHANGED <<workers, joined, free, localVars, steadyGPU>>

TransitionTo(w, s) ==
  /\ w \in joined /\ isValidTransition(status[w], s)
  /\ status' = [status EXCEPT ![w] = s]
  /\ steady' = steady \ {w}
  /\ UNCHANGED <<workers, joined, free, localVars, steadyGPU>>

\* Allocate or Release.
ChangeVRAM(g, v) ==
  /\ v # free[g]
  /\ free' = [free EXCEPT ![g] = v]
  /\ steadyGPU' = IF call # Idling /\ v < call.vram THEN steadyGPU \ {g} ELSE steadyGPU
  /\ UNCHANGED <<workers, joined, status, localVars, steady>>

-----------------------------------------------------------------------------
Goto(at) == call' = [call EXCEPT !.at = at]

\* A loop over the workers starts.
Over(at, set) == Goto(at) /\ todo' = set /\ UNCHANGED <<list, todoGPU, chosen>>

Returns(result, w) ==
  /\ Goto(result) /\ chosen' = w
  /\ list' = {} /\ todo' = {} /\ todoGPU' = {}

Skip(w) == todo' = todo \ {w} /\ UNCHANGED <<call, list, todoGPU, chosen>>

Matches(w) == status[w] = StatusIdle /\ ModelOf[w] = call.model

\* Whether w is of the tenant asked for; FindIdleWorker has no wildcard.
Asked(w) ==
  \/ TenantOf[w] = call.tenant
  \/ call.tenant = NoTenant /\ call.op # "FindIdleWorker"

HasVRAM(w) == MemoryAllocatedMB[w] >= call.vram

\* SPEC.md demands of a worker to repurpose that it has the VRAM.  Of the two
\* calls only SelectWorkerForModel does; SelectWorker takes any IDLE worker.
Suffices(w) == call.op = "SelectWorker" \/ HasVRAM(w)

Calls(op, t, m, v) ==
  /\ call = Idling
  /\ v \in IF op = "SelectWorkerForModel" THEN Requirement ELSE {DefaultVRAM}
  /\ call' = [at |-> IF op = "FindIdleWorker" THEN "find" ELSE "list",
              op |-> op, tenant |-> t, model |-> m, vram |-> v]
  /\ todo' = Worker
  /\ steady' = {w \in workers : status[w] = StatusIdle}
  /\ steadyGPU' = {g \in GPU : free[g] >= v}
  /\ UNCHANGED <<poolVars, list, todoGPU, chosen>>

\* One key of the Range in ListWorkers.
ListKey(w) ==
  /\ call.at = "list" /\ w \in todo
  /\ list' = IF w \in workers /\ Asked(w) THEN list \union {w} ELSE list
  /\ todo' = todo \ {w}
  /\ UNCHANGED <<poolVars, steadyVars, call, todoGPU, chosen>>

ListDone ==
  /\ call.at = "list" /\ todo = {} /\ Over("warm", list)
  /\ UNCHANGED <<poolVars, steadyVars>>

\* Mutant: one pass for both, which takes the first IDLE worker.
LookWarmOrIdle(w) ==
  /\ call.at = "warm" /\ w \in todo
  /\ IF Matches(w) THEN Returns("WARM_HIT", w)
     ELSE IF status[w] = StatusIdle /\ Suffices(w) THEN Returns("REPURPOSE", w)
     ELSE Skip(w)
  /\ UNCHANGED <<poolVars, steadyVars>>

\* First pass: IDLE with the model.
LookWarm(w) ==
  /\ call.at = "warm" /\ w \in todo
  /\ IF Matches(w) THEN Returns("WARM_HIT", w) ELSE Skip(w)
  /\ UNCHANGED <<poolVars, steadyVars>>

WarmDone ==
  /\ call.at = "warm" /\ todo = {} /\ Over("repurpose", list)
  /\ UNCHANGED <<poolVars, steadyVars>>

\* Mutant: a worker with just enough VRAM is passed over.
LookIdleStrict(w) ==
  /\ call.at = "repurpose" /\ w \in todo
  /\ IF status[w] = StatusIdle /\ (call.op = "SelectWorker" \/ MemoryAllocatedMB[w] > call.vram)
       THEN Returns("REPURPOSE", w) ELSE Skip(w)
  /\ UNCHANGED <<poolVars, steadyVars>>

\* Second pass: any IDLE worker, with enough VRAM for SelectWorkerForModel.
LookIdle(w) ==
  /\ call.at = "repurpose" /\ w \in todo
  /\ IF status[w] = StatusIdle /\ Suffices(w) THEN Returns("REPURPOSE", w) ELSE Skip(w)
  /\ UNCHANGED <<poolVars, steadyVars>>

IdleDone ==
  /\ call.at = "repurpose" /\ todo = {}
  /\ Goto("gpu") /\ todoGPU' = GPU
  /\ UNCHANGED <<poolVars, steadyVars, list, todo, chosen>>

\* Mutant: a GPU that the request would fill does not count.
LookGPUStrict(g) ==
  /\ call.at = "gpu" /\ g \in todoGPU
  /\ IF free[g] > call.vram
       THEN Returns("COLD_START", NoWorker)
       ELSE todoGPU' = todoGPU \ {g} /\ UNCHANGED <<call, list, todo, chosen>>
  /\ UNCHANGED <<poolVars, steadyVars>>

\* HasAvailableGPU, one GPU's lock at a time.
LookGPU(g) ==
  /\ call.at = "gpu" /\ g \in todoGPU
  /\ IF free[g] >= call.vram
       THEN Returns("COLD_START", NoWorker)
       ELSE todoGPU' = todoGPU \ {g} /\ UNCHANGED <<call, list, todo, chosen>>
  /\ UNCHANGED <<poolVars, steadyVars>>

GPUDone ==
  /\ call.at = "gpu" /\ todoGPU = {} /\ Returns("RESOURCE_EXHAUSTED", NoWorker)
  /\ UNCHANGED <<poolVars, steadyVars>>

\* One key of the Range in FindIdleWorker.
FindKey(w) ==
  /\ call.at = "find" /\ w \in todo
  /\ IF w \in workers /\ Asked(w) /\ Matches(w)
       THEN Returns("WARM_HIT", w) ELSE Skip(w)
  /\ UNCHANGED <<poolVars, steadyVars>>

FindDone ==
  /\ call.at = "find" /\ todo = {} /\ Returns("nil", NoWorker)
  /\ UNCHANGED <<poolVars, steadyVars>>

CallStep ==
  \/ \E w \in Worker : ListKey(w) \/ LookWarm(w) \/ LookIdle(w) \/ FindKey(w)
  \/ \E g \in GPU : LookGPU(g)
  \/ ListDone \/ WarmDone \/ IdleDone \/ GPUDone \/ FindDone

Next ==
  \/ \E op \in Operation, t \in Tenant \union {NoTenant}, m \in Model :
       \E v \in Requirement \union {DefaultVRAM} : Calls(op, t, m, v)
  \/ call # Idling /\ CallStep
  \/ \E w \in Worker : AddWorker(w) \/ RemoveWorker(w) \/ \E s \in Status : TransitionTo(w, s)
  \/ \E g \in GPU, v \in 0..TotalVRAM : ChangeVRAM(g, v)

Spec == Init /\ [][Next]_vars

-----------------------------------------------------------------------------
Returned(result) == call # Idling /\ call.at \in result

\* "WARM HIT: find IDLE worker with exact model match": a worker of the tenant
\* that had the model and was IDLE during the whole call is not passed over,
\* neither for one to be repurposed nor for a cold start.
WarmHitIfSteady ==
  Returned(Result \ {"WARM_HIT"}) =>
    ~ \E w \in steady : Asked(w) /\ ModelOf[w] = call.model

\* A cold start is asked for only if no worker of the tenant that would do, as
\* the call judges that, was IDLE during the whole call; in particular none that
\* SPEC.md would reload.
ColdOnlyIfNoneSteady ==
  Returned({"COLD_START", "RESOURCE_EXHAUSTED"}) =>
    ~ \E w \in steady : Asked(w) /\ Suffices(w)

\* RESOURCE_EXHAUSTED is not the answer if one GPU had room during the whole
\* call.
ExhaustedIsReal == Returned({"RESOURCE_EXHAUSTED"}) => steadyGPU = {}

\* SPEC.md 4.1: of the IDLE workers, "If worker has sufficient VRAM -> RELOAD";
\* the one that is returned to be repurposed has it.
RepurposedHasRoom == Returned({"REPURPOSE"}) => HasVRAM(chosen)

\* The worker that is returned for "instant routing" is still registered.
WarmHitIsRegistered == Returned({"WARM_HIT"}) => chosen \in workers

-----------------------------------------------------------------------------
(***************************************************************************)
(* Why they hold.                                                          *)
(***************************************************************************)
\* What the history says of the pool.
SteadyInv ==
  /\ \A w \in steady : status[w] = StatusIdle
  /\ call = Idling => steady = {} /\ steadyGPU = {}
  /\ call # Idling => \A g \in steadyGPU : free[g] >= call.vram

\* What each loop has still to look at, of what was steady: whom it passed over
\* would not do.
LoopInv ==
  call # Idling =>
    /\ \A w \in steady : Asked(w) =>
         /\ call.at = "list" => w \in list \union todo
         /\ call.at = "warm" => w \in list
         /\ call.at \in {"warm", "find"} /\ ModelOf[w] = call.model => w \in todo
         /\ call.at = "repurpose" /\ Suffices(w) => w \in todo
         /\ call.at \in {"repurpose", "gpu"} => ModelOf[w] # call.model
         /\ call.at = "gpu" => ~ Suffices(w)
    /\ call.at = "gpu" => steadyGPU \subseteq todoGPU

SelectionInv ==
  TypeOK /\ SteadyInv /\ LoopInv /\ WarmHitIfSteady /\ ColdOnlyIfNoneSteady /\ ExhaustedIsReal
=============================================================================
