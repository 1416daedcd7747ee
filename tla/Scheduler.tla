------------------------------ MODULE Scheduler ------------------------------
(***************************************************************************)
(* The residency-aware scheduler of pkg/orchestrator/scheduler.go: what it *)
(* records of each GPU, and the three operations that the HTTP handlers    *)
(* call: Schedule, Allocate and Release.                                   *)
(*                                                                         *)
(* A worker id is created by one request (uuid.New), so a worker also      *)
(* stands for the request that asks for it: ModelOf[w] and                 *)
(* VRAMRequirement[w] are that request's model.                            *)
(*                                                                         *)
(* Allocate and Release hold the GPU's mutex from their first read to      *)
(* their last write and are one step each.  Schedule takes the mutex of    *)
(* one GPU at a time, so other calls' Allocate and Release run between the *)
(* GPUs it looks at: it is one step per GPU, in any order (Go's map        *)
(* iteration order is random), one step per comparison of the sort, which  *)
(* locks the two GPUs it compares, and one step for the choice.            *)
(*                                                                         *)
(* A definition marked "Mutant" is a wrong variant of the one after it,    *)
(* which the properties must tell apart; nothing else refers to it.        *)
(***************************************************************************)
EXTENDS Integers, FiniteSets

CONSTANTS
  GPU,             \* UUIDs registered with RegisterGPU at startup
  Worker,          \* worker ids, one per POST /v1/workers
  Model,           \* model names
  TotalVRAM,       \* GPUResidency.TotalVRAMMB of each GPU
  ModelOf,         \* the model named by the request
  VRAMRequirement  \* the VRAM asked for by the request, in MB; not validated

ASSUME SchedulerAssumption ==
  /\ TotalVRAM \in [GPU -> Nat]
  /\ ModelOf \in [Worker -> Model]
  /\ VRAMRequirement \in [Worker -> Int]

VARIABLES
  allocatedVRAM,   \* GPUResidency.AllocatedVRAM
  loadedModels,    \* GPUResidency.LoadedModels
  activeWorkers,   \* GPUResidency.ActiveWorkers (its order is never read)
  scan             \* locals of the Schedule call made for each worker

schedulerVars == <<allocatedVRAM, loadedModels, activeWorkers, scan>>
ledgerVars == <<allocatedVRAM, loadedModels, activeWorkers>>

\* The head of the sorted list that each candidate stands in, at first its own.
Unsorted == [g \in GPU |-> g]

\* RegisterGPU for every GPU; each Schedule call starts with all of them to
\* look at and two empty candidate lists.
SchedulerInit ==
  /\ allocatedVRAM = [g \in GPU |-> 0]
  /\ loadedModels  = [g \in GPU |-> {}]
  /\ activeWorkers = [g \in GPU |-> {}]
  /\ scan = [w \in Worker |-> [todo |-> GPU, warm |-> {}, cold |-> {}, head |-> Unsorted]]

SchedulerTypeOK ==
  /\ allocatedVRAM \in [GPU -> Int]
  /\ loadedModels  \in [GPU -> SUBSET Model]
  /\ activeWorkers \in [GPU -> SUBSET Worker]
  /\ scan \in [Worker -> [todo: SUBSET GPU, warm: SUBSET GPU, cold: SUBSET GPU,
                          head: [GPU -> GPU]]]

-----------------------------------------------------------------------------
\* TotalVRAMMB - AllocatedVRAM
Available(g) == TotalVRAM[g] - allocatedVRAM[g]

Fits(g, w) == Available(g) >= VRAMRequirement[w]

\* Mutant: > for >= when a GPU is looked at.
ScanGPUStrict(w, g) ==
  LET Exceeds == Available(g) > VRAMRequirement[w] IN
  /\ g \in scan[w].todo
  /\ scan' = [scan EXCEPT ![w] =
       [todo   |-> @.todo \ {g},
        warm   |-> IF Exceeds /\ ModelOf[w] \in loadedModels[g]
                     THEN @.warm \union {g} ELSE @.warm,
        cold   |-> IF Exceeds /\ ModelOf[w] \notin loadedModels[g]
                     THEN @.cold \union {g} ELSE @.cold,
        head   |-> @.head]]
  /\ UNCHANGED ledgerVars

\* One iteration of Schedule's loop over the GPUs, under that GPU's RLock.
ScanGPU(w, g) ==
  /\ g \in scan[w].todo
  /\ scan' = [scan EXCEPT ![w] =
       [todo   |-> @.todo \ {g},
        warm   |-> IF Fits(g, w) /\ ModelOf[w] \in loadedModels[g]
                     THEN @.warm \union {g} ELSE @.warm,
        cold   |-> IF Fits(g, w) /\ ModelOf[w] \notin loadedModels[g]
                     THEN @.cold \union {g} ELSE @.cold,
        head   |-> @.head]]
  /\ UNCHANGED ledgerVars

\* Mutant: the two lists are sorted as one.
CandidatesMerged(w) == scan[w].warm \union scan[w].cold

\* Warm candidates are returned before any cold one is looked at.
Candidates(w) == IF scan[w].warm # {} THEN scan[w].warm ELSE scan[w].cold

\* Candidates that may still end up first in the sorted list.
Contenders(w) == {g \in Candidates(w) : scan[w].head[g] = g}

\* Mutant: < for > in the comparator.
CompareGPUAscending(w, g) ==
  /\ scan[w].todo = {}
  /\ g \in Contenders(w)
  /\ \E h \in Candidates(w) :
       /\ scan[w].head[h] # g /\ Available(h) <= Available(g)
       /\ scan' = [scan EXCEPT ![w].head =
            [x \in GPU |-> IF @[x] = g THEN @[h] ELSE @[x]]]
  /\ UNCHANGED ledgerVars

\* A comparison of the sort by descending availability that keeps g from being
\* first: g comes to stand behind h, and everyone behind g with it.  It reads
\* again the two availabilities, under both RLocks.  Equally free GPUs are not
\* swapped and start in map order, so either may lose; and h may itself have
\* lost before, to a GPU that has filled up since.  But who stands behind g is
\* not compared with it again (the sort inserts one GPU after the other).
CompareGPU(w, g) ==
  /\ scan[w].todo = {}
  /\ g \in Contenders(w)
  /\ \E h \in Candidates(w) :
       /\ scan[w].head[h] # g /\ Available(g) <= Available(h)
       /\ scan' = [scan EXCEPT ![w].head =
            [x \in GPU |-> IF @[x] = g THEN @[h] ELSE @[x]]]
  /\ UNCHANGED ledgerVars

\* The locals of w's Schedule call die with it.
EndSchedule(w) ==
  /\ scan' = [scan EXCEPT ![w] =
                [todo |-> {}, warm |-> {}, cold |-> {}, head |-> Unsorted]]
  /\ UNCHANGED ledgerVars

\* Schedule returns the head of the sorted list, or nil.
ScheduleReturns(w, g) ==
  scan[w].todo = {} /\ Contenders(w) = {g} /\ EndSchedule(w)
ScheduleReturnsNil(w) ==
  scan[w].todo = {} /\ Candidates(w) = {} /\ EndSchedule(w)

\* Mutant: the GPU's id is appended for the worker's.
AllocateSwapsIDs(g, w) ==
  /\ Fits(g, w)
  /\ allocatedVRAM' = [allocatedVRAM EXCEPT ![g] = @ + VRAMRequirement[w]]
  /\ loadedModels'  = [loadedModels  EXCEPT ![g] = @ \union {ModelOf[w]}]
  /\ activeWorkers' = [activeWorkers EXCEPT ![g] = @ \union {g}]
  /\ UNCHANGED scan

\* Allocate returns true ...
AllocateSucceeds(g, w) ==
  /\ Fits(g, w)
  /\ allocatedVRAM' = [allocatedVRAM EXCEPT ![g] = @ + VRAMRequirement[w]]
  /\ loadedModels'  = [loadedModels  EXCEPT ![g] = @ \union {ModelOf[w]}]
  /\ activeWorkers' = [activeWorkers EXCEPT ![g] = @ \union {w}]
  /\ UNCHANGED scan

\* Mutant: the VRAM is taken before the room is looked at.
AllocateFailsLate(g, w) ==
  /\ ~Fits(g, w)
  /\ allocatedVRAM' = [allocatedVRAM EXCEPT ![g] = @ + VRAMRequirement[w]]
  /\ UNCHANGED <<loadedModels, activeWorkers, scan>>

\* ... or false, when the room that Schedule saw is gone.
AllocateFails(g, w) == ~Fits(g, w) /\ UNCHANGED schedulerVars

\* Mutant: no clamp at zero.
ReleaseUnclamped(g, w) ==
  /\ allocatedVRAM' = [allocatedVRAM EXCEPT ![g] = @ - VRAMRequirement[w]]
  /\ activeWorkers' = [activeWorkers EXCEPT ![g] = @ \ {w}]
  /\ UNCHANGED <<loadedModels, scan>>

\* Mutant: the worker stays in the active list.
ReleaseKeepsWorker(g, w) ==
  /\ allocatedVRAM' = [allocatedVRAM EXCEPT ![g] =
       IF @ - VRAMRequirement[w] < 0 THEN 0 ELSE @ - VRAMRequirement[w]]
  /\ UNCHANGED <<activeWorkers, loadedModels, scan>>

\* Release subtracts without looking whether w is in the active list; the
\* result is clamped at zero and the model stays in LoadedModels.
Release(g, w) ==
  /\ allocatedVRAM' = [allocatedVRAM EXCEPT ![g] =
       IF @ - VRAMRequirement[w] < 0 THEN 0 ELSE @ - VRAMRequirement[w]]
  /\ activeWorkers' = [activeWorkers EXCEPT ![g] = @ \ {w}]
  /\ UNCHANGED <<loadedModels, scan>>

-----------------------------------------------------------------------------
\* VRAM that a set of workers asked for, as the number of the megabytes that it
\* consists of.  (A cardinality can be reasoned about in proofs, a fold over a
\* set cannot; MCSchedulerClients compares it with the sum.)
Megabytes(S) == UNION {{w} \X (1..VRAMRequirement[w]) : w \in S}

VRAMOf(S) == Cardinality(Megabytes(S))

\* The two views that a GPUResidency keeps of its load agree: the counter is
\* the sum of what the workers in the active list asked for.
ExactOn(g) == allocatedVRAM[g] = VRAMOf(activeWorkers[g])

LedgerExact == \A g \in GPU : ExactOn(g)
=============================================================================
