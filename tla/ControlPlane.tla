---------------------------- MODULE ControlPlane ----------------------------
(***************************************************************************)
(* The control plane of cmd/aether: the life of every worker, from the     *)
(* POST that asks for it to its removal from the registry, as the          *)
(* goroutines of pkg/api/handlers.go and cmd/aether/main.go drive it over  *)
(* the scheduler, the worker pool and Docker.                              *)
(*                                                                         *)
(* Goroutines, each with its own program counter:                          *)
(*   - the POST handler of each worker (create);                           *)
(*   - startWorkerContainer, spawned by it (start);                        *)
(*   - terminateWorker, one per accepted DELETE and one called by          *)
(*     startWorkerContainer on failure (term);                             *)
(*   - the idle checker, one for the whole process (idle).                 *)
(* A step is a stretch of code that touches shared state once: a critical  *)
(* section, a sync.Map operation or a Docker call.                         *)
(*                                                                         *)
(* Docker is seen through the outcomes of the calls of pkg/docker, all of  *)
(* which return: they run under contexts with a timeout.                   *)
(*                                                                         *)
(* A definition marked "Mutant" is a wrong variant of the one after it,    *)
(* which the properties must tell apart; nothing else refers to it.        *)
(***************************************************************************)
EXTENDS Scheduler, WorkerStatus

CONSTANTS
  Delete,           \* DELETE /v1/workers/{id} requests each worker may get
  MaxWorkers,       \* AETHER_MAX_WORKERS
  TrafficReported,  \* whether anything reports RUNNING <-> IDLE (cmd/demo
                    \* does, nothing in cmd/aether does)
  NoGPU, NoWorker   \* nil

Starter == "startWorkerContainer"
Caller  == Delete \union {Starter}     \* who runs terminateWorker

ASSUME ControlPlaneAssumption ==
  /\ MaxWorkers \in Int
  /\ TrafficReported \in BOOLEAN
  /\ Starter \notin Delete
  /\ NoGPU \notin GPU
  /\ NoWorker \notin Worker

VARIABLES
  \* WorkerState objects
  status,           \* WorkerState.Status
  gpuAssignment,    \* WorkerState.GPUAssignment (its UUID)
  containerID,      \* whether WorkerState.ContainerID is set
  \* WorkerPool
  workers,          \* keys of the sync.Map
  totalCreated, totalTerminated,
  \* goroutines
  create,           \* where CreateWorker is
  choice,           \* its scheduleResult
  start,            \* where startWorkerContainer is
  term,             \* where each terminateWorker is
  idle,             \* where the idle checker is, and on which worker
  \* Docker daemon
  container,        \* the container labelled with each worker's id
  \* history
  lost,             \* workers with a Docker call that failed and left a container
  unmatched,        \* workers released while not in the GPU's active list
  reaped            \* workers that the idle checker decided to terminate

stateVars   == <<status, gpuAssignment, containerID>>
poolVars    == <<workers, totalCreated, totalTerminated>>
createVars  == <<create, choice>>
dockerVars  == <<container, lost>>
vars == <<schedulerVars, stateVars, poolVars, createVars, start, term, idle,
          dockerVars, unmatched, reaped>>

CreatePC == {"new", "schedule", "count", "store", "allocate", "assign",
             "respond", "accepted", "exhausted", "quota"}
StartPC  == {"off", "transition", "pull", "launch", "setID", "health", "run",
             "done"}
TermPC   == {"off", "transition", "container", "release", "remove", "done"}
IdlePC   == {"tick", "lookup", "container", "release", "remove"}

Sleeping == [at |-> "tick", worker |-> NoWorker]

Init ==
  /\ SchedulerInit
  /\ status        = [w \in Worker |-> NoStatus]
  /\ gpuAssignment = [w \in Worker |-> NoGPU]
  /\ containerID   = [w \in Worker |-> FALSE]
  /\ workers = {} /\ totalCreated = 0 /\ totalTerminated = 0
  /\ create = [w \in Worker |-> "new"]
  /\ choice = [w \in Worker |-> NoGPU]
  /\ start  = [w \in Worker |-> "off"]
  /\ term   = [w \in Worker |-> [t \in Caller |-> "off"]]
  /\ idle   = Sleeping
  /\ container = [w \in Worker |-> "none"]
  /\ lost = {} /\ unmatched = {} /\ reaped = {}

TypeOK ==
  /\ SchedulerTypeOK
  /\ status        \in [Worker -> Status \union {NoStatus}]
  /\ gpuAssignment \in [Worker -> GPU \union {NoGPU}]
  /\ containerID   \in [Worker -> BOOLEAN]
  /\ workers \subseteq Worker
  /\ totalCreated \in Nat /\ totalTerminated \in Nat
  /\ create \in [Worker -> CreatePC]
  /\ choice \in [Worker -> GPU \union {NoGPU}]
  /\ start  \in [Worker -> StartPC]
  /\ term   \in [Worker -> [Caller -> TermPC]]
  /\ idle   \in [at: IdlePC, worker: Worker \union {NoWorker}]
  /\ container \in [Worker -> {"none", "up", "removed"}]
  /\ lost \subseteq Worker /\ unmatched \subseteq Worker /\ reaped \subseteq Worker

-----------------------------------------------------------------------------
(***************************************************************************)
(* WorkerState.TransitionTo: one critical section.  On an invalid          *)
(* transition it returns an error and changes nothing.                     *)
(***************************************************************************)

\* Mutant: transitions are not validated.
CanTransitionUnchecked(w, s) == status[w] # NoStatus

CanTransition(w, s) == isValidTransition(status[w], s)

TransitionTo(w, s) == status' = [status EXCEPT ![w] = s]

Goto(pc, w, from, to) == pc[w] = from /\ pc' = [pc EXCEPT ![w] = to]

(***************************************************************************)
(* CreateWorker.  Requests that fail validation return before touching     *)
(* any state and are not modelled.                                         *)
(***************************************************************************)
CreateWorker(w) ==
  /\ Goto(create, w, "new", "schedule")
  /\ UNCHANGED <<schedulerVars, stateVars, poolVars, choice, start, term, idle,
                 dockerVars, unmatched, reaped>>

Schedule(w) ==
  /\ create[w] = "schedule"
  /\ \E g \in GPU : ScanGPU(w, g) \/ CompareGPU(w, g)
  /\ UNCHANGED <<stateVars, poolVars, createVars, start, term, idle,
                 dockerVars, unmatched, reaped>>

\* A GPU was found; NewWorkerState.
ScheduleFound(w) ==
  /\ Goto(create, w, "schedule", "count")
  /\ \E g \in GPU : ScheduleReturns(w, g) /\ choice' = [choice EXCEPT ![w] = g]
  /\ status' = [status EXCEPT ![w] = StatusPending]
  /\ UNCHANGED <<gpuAssignment, containerID, poolVars, start, term, idle,
                 dockerVars, unmatched, reaped>>

\* RESOURCE_EXHAUSTED
ScheduleExhausted(w) ==
  /\ Goto(create, w, "schedule", "exhausted")
  /\ ScheduleReturnsNil(w)
  /\ UNCHANGED <<stateVars, poolVars, choice, start, term, idle,
                 dockerVars, unmatched, reaped>>

\* The first half of AddWorker: Count, compared with the capacity.  The
\* second half runs later, and no lock is held in between.
AddWorkerCheck(w) ==
  /\ Goto(create, w, "count",
          IF Cardinality(workers) >= MaxWorkers THEN "quota" ELSE "store")
  /\ UNCHANGED <<schedulerVars, stateVars, poolVars, choice, start, term, idle,
                 dockerVars, unmatched, reaped>>

AddWorkerStore(w) ==
  /\ Goto(create, w, "store", "allocate")
  /\ workers' = workers \union {w}
  /\ totalCreated' = totalCreated + 1
  /\ UNCHANGED <<schedulerVars, stateVars, totalTerminated, choice, start, term,
                 idle, dockerVars, unmatched, reaped>>

\* The result of Allocate is not looked at.
AllocateGPU(w) ==
  /\ Goto(create, w, "allocate", "assign")
  /\ AllocateSucceeds(choice[w], w) \/ AllocateFails(choice[w], w)
  /\ UNCHANGED <<stateVars, poolVars, choice, start, term, idle,
                 dockerVars, unmatched, reaped>>

\* SetGPUAssignment, then the go statement.
AssignAndSpawn(w) ==
  /\ Goto(create, w, "assign", "respond")
  /\ gpuAssignment' = [gpuAssignment EXCEPT ![w] = choice[w]]
  /\ start' = [start EXCEPT ![w] = "transition"]
  /\ UNCHANGED <<schedulerVars, status, containerID, poolVars, choice, term,
                 idle, dockerVars, unmatched, reaped>>

\* 202 with the literal status STARTING.
RespondAccepted(w) ==
  /\ Goto(create, w, "respond", "accepted")
  /\ UNCHANGED <<schedulerVars, stateVars, poolVars, choice, start, term, idle,
                 dockerVars, unmatched, reaped>>

CreateStep(w) ==
  \/ Schedule(w) \/ ScheduleFound(w) \/ ScheduleExhausted(w)
  \/ AddWorkerCheck(w) \/ AddWorkerStore(w)
  \/ AllocateGPU(w) \/ AssignAndSpawn(w) \/ RespondAccepted(w)

(***************************************************************************)
(* startWorkerContainer.                                                   *)
(***************************************************************************)

\* A failure after STARTING: the goroutine goes on as terminateWorker.
StartFails(w) ==
  /\ start' = [start EXCEPT ![w] = "done"]
  /\ term'  = [term  EXCEPT ![w][Starter] = "transition"]

\* Mutant: STARTING is asked for by whoever reports on the start, so not here.
StartTransitionSkipped(w) ==
  /\ IF CanTransition(w, StatusStarting)
       THEN Goto(start, w, "transition", "pull") ELSE Goto(start, w, "transition", "done")
  /\ UNCHANGED <<schedulerVars, stateVars, poolVars, createVars, term, idle,
                 dockerVars, unmatched, reaped>>

\* If the worker is already TERMINATING the goroutine returns at once.
StartTransition(w) ==
  /\ IF CanTransition(w, StatusStarting)
       THEN TransitionTo(w, StatusStarting) /\ Goto(start, w, "transition", "pull")
       ELSE UNCHANGED status /\ Goto(start, w, "transition", "done")
  /\ UNCHANGED <<schedulerVars, gpuAssignment, containerID, poolVars, createVars,
                 term, idle, dockerVars, unmatched, reaped>>

\* Mutant: a failed pull returns without terminateWorker.
PullImageReturns(w) ==
  /\ \/ Goto(start, w, "pull", "launch") \/ Goto(start, w, "pull", "done")
  /\ UNCHANGED <<schedulerVars, stateVars, poolVars, createVars, term, idle,
                 dockerVars, unmatched, reaped>>

PullImage(w) ==
  /\ start[w] = "pull"
  /\ \/ Goto(start, w, "pull", "launch") /\ UNCHANGED term
     \/ StartFails(w)
  /\ UNCHANGED <<schedulerVars, stateVars, poolVars, createVars, idle,
                 dockerVars, unmatched, reaped>>

\* LaunchContainer returns an ID, fails leaving nothing, or fails leaving the
\* container it made (the inspection after the start failed, or the removal
\* after a failed start did).
LaunchContainer(w) ==
  /\ start[w] = "launch"
  /\ \/ /\ Goto(start, w, "launch", "setID")
        /\ container' = [container EXCEPT ![w] = "up"]
        /\ UNCHANGED <<term, lost>>
     \/ StartFails(w) /\ UNCHANGED dockerVars
     \/ /\ StartFails(w)
        /\ container' = [container EXCEPT ![w] = "up"]
        /\ lost' = lost \union {w}
  /\ UNCHANGED <<schedulerVars, stateVars, poolVars, createVars, idle,
                 unmatched, reaped>>

SetContainerID(w) ==
  /\ Goto(start, w, "setID", "health")
  /\ containerID' = [containerID EXCEPT ![w] = TRUE]
  /\ UNCHANGED <<schedulerVars, status, gpuAssignment, poolVars, createVars,
                 term, idle, dockerVars, unmatched, reaped>>

\* WaitForHealthy may succeed although a terminateWorker has removed the
\* container by the time it returns, and may fail on any container (exit,
\* timeout, failed inspection).
WaitForHealthy(w) ==
  /\ start[w] = "health"
  /\ \/ Goto(start, w, "health", "run") /\ UNCHANGED term
     \/ StartFails(w)
  /\ UNCHANGED <<schedulerVars, stateVars, poolVars, createVars, idle,
                 dockerVars, unmatched, reaped>>

\* Mutant: a refused transition to RUNNING returns without terminateWorker.
StartRunningReturns(w) ==
  /\ Goto(start, w, "run", "done")
  /\ IF CanTransition(w, StatusRunning)
       THEN TransitionTo(w, StatusRunning) ELSE UNCHANGED status
  /\ UNCHANGED <<schedulerVars, gpuAssignment, containerID, poolVars, createVars,
                 term, idle, dockerVars, unmatched, reaped>>

StartRunning(w) ==
  /\ start[w] = "run"
  /\ IF CanTransition(w, StatusRunning)
       THEN /\ TransitionTo(w, StatusRunning)
            /\ Goto(start, w, "run", "done")
            /\ UNCHANGED term
       ELSE StartFails(w) /\ UNCHANGED status
  /\ UNCHANGED <<schedulerVars, gpuAssignment, containerID, poolVars, createVars,
                 idle, dockerVars, unmatched, reaped>>

StartStep(w) ==
  \/ StartTransition(w) \/ PullImage(w) \/ LaunchContainer(w)
  \/ SetContainerID(w) \/ WaitForHealthy(w) \/ StartRunning(w)

(***************************************************************************)
(* What terminateWorker and the idle checker's callback share.             *)
(***************************************************************************)

\* Stop and remove the container, if the worker knows one.  The error is not
\* looked at; when the call fails the container stays.
TerminateContainer(w) ==
  \/ /\ containerID[w] /\ container[w] = "up"
     /\ \/ container' = [container EXCEPT ![w] = "removed"] /\ UNCHANGED lost
        \/ lost' = lost \union {w} /\ UNCHANGED container
  \/ ~(containerID[w] /\ container[w] = "up") /\ UNCHANGED dockerVars

\* Mutant: nothing is released if the container is still there.
ReleaseGPUIfStopped(w) ==
  IF gpuAssignment[w] = NoGPU \/ container[w] = "up"
    THEN UNCHANGED <<schedulerVars, unmatched>>
    ELSE /\ Release(gpuAssignment[w], w)
         /\ unmatched' = IF w \in activeWorkers[gpuAssignment[w]]
                           THEN unmatched ELSE unmatched \union {w}

\* Release, if the worker has a GPU.  GPUAssignment is read without the mutex
\* that SetGPUAssignment holds: the read sees nil or the whole assignment.
ReleaseGPU(w) ==
  IF gpuAssignment[w] = NoGPU
    THEN UNCHANGED <<schedulerVars, unmatched>>
    ELSE /\ Release(gpuAssignment[w], w)
         /\ unmatched' = IF w \in activeWorkers[gpuAssignment[w]]
                           THEN unmatched ELSE unmatched \union {w}

\* Mutant: the counter of terminated workers goes down.
RemoveWorkerMiscounts(w) ==
  /\ workers' = workers \ {w}
  /\ totalTerminated' = totalTerminated - 1
  /\ UNCHANGED totalCreated

\* Mutant: the worker is counted and not deleted.
RemoveWorkerKeeps(w) ==
  /\ totalTerminated' = totalTerminated + 1
  /\ UNCHANGED <<workers, totalCreated>>

\* The counter moves whether or not the worker was still there.
RemoveWorker(w) ==
  /\ workers' = workers \ {w}
  /\ totalTerminated' = totalTerminated + 1
  /\ UNCHANGED totalCreated

(***************************************************************************)
(* DeleteWorker and terminateWorker.                                       *)
(***************************************************************************)
TermGoto(w, t, from, to) ==
  term[w][t] = from /\ term' = [term EXCEPT ![w][t] = to]

\* GetWorker finds the worker and a terminateWorker goroutine is spawned; an
\* unknown worker is a 404 and changes nothing.
DeleteWorker(w, d) ==
  /\ w \in workers
  /\ TermGoto(w, d, "off", "transition")
  /\ UNCHANGED <<schedulerVars, stateVars, poolVars, createVars, start, idle,
                 dockerVars, unmatched, reaped>>

\* Mutant: terminateWorker does not ask for TERMINATING.
TermTransitionSkipped(w, t) ==
  /\ TermGoto(w, t, "transition", "container")
  /\ UNCHANGED <<schedulerVars, stateVars, poolVars, createVars, start, idle,
                 dockerVars, unmatched, reaped>>

TermTransition(w, t) ==
  /\ TermGoto(w, t, "transition", "container")
  /\ IF CanTransition(w, StatusTerminating)
       THEN TransitionTo(w, StatusTerminating) ELSE UNCHANGED status
  /\ UNCHANGED <<schedulerVars, gpuAssignment, containerID, poolVars, createVars,
                 start, idle, dockerVars, unmatched, reaped>>

TermContainer(w, t) ==
  /\ TermGoto(w, t, "container", "release")
  /\ TerminateContainer(w)
  /\ UNCHANGED <<schedulerVars, stateVars, poolVars, createVars, start, idle,
                 unmatched, reaped>>

TermRelease(w, t) ==
  /\ TermGoto(w, t, "release", "remove")
  /\ ReleaseGPU(w)
  /\ UNCHANGED <<stateVars, poolVars, createVars, start, idle, dockerVars, reaped>>

TermRemove(w, t) ==
  /\ TermGoto(w, t, "remove", "done")
  /\ RemoveWorker(w)
  /\ UNCHANGED <<schedulerVars, stateVars, createVars, start, idle, dockerVars,
                 unmatched, reaped>>

TermStep(w, t) ==
  \/ TermTransition(w, t) \/ TermContainer(w, t)
  \/ TermRelease(w, t) \/ TermRemove(w, t)

(***************************************************************************)
(* The idle checker: checkIdleWorkers of the pool and the callback that    *)
(* main passes to StartIdleChecker.  The callback does not call            *)
(* TransitionTo.  How long a worker has been idle is left open: any IDLE   *)
(* worker may be found to have exceeded the timeout.                       *)
(***************************************************************************)
IdleGoto(from, to) == idle.at = from /\ idle' = [idle EXCEPT !.at = to]

\* GetStatus returned IDLE and the timeout has passed.
IdleFound(w) ==
  /\ idle.at = "tick"
  /\ w \in workers /\ status[w] = StatusIdle
  /\ idle' = [at |-> "lookup", worker |-> w]
  /\ reaped' = reaped \union {w}
  /\ UNCHANGED <<schedulerVars, stateVars, poolVars, createVars, start, term,
                 dockerVars, unmatched>>

\* The callback's own GetWorker.
IdleLookup ==
  /\ idle.at = "lookup"
  /\ idle' = IF idle.worker \in workers THEN [idle EXCEPT !.at = "container"]
                                         ELSE Sleeping
  /\ UNCHANGED <<schedulerVars, stateVars, poolVars, createVars, start, term,
                 dockerVars, unmatched, reaped>>

IdleContainer ==
  /\ IdleGoto("container", "release")
  /\ TerminateContainer(idle.worker)
  /\ UNCHANGED <<schedulerVars, stateVars, poolVars, createVars, start, term,
                 unmatched, reaped>>

IdleRelease ==
  /\ IdleGoto("release", "remove")
  /\ ReleaseGPU(idle.worker)
  /\ UNCHANGED <<stateVars, poolVars, createVars, start, term, dockerVars, reaped>>

\* Mutant: the callback does not remove the worker from the pool.
IdleRemoveKeeps ==
  /\ idle.at = "remove" /\ idle' = Sleeping
  /\ UNCHANGED <<schedulerVars, stateVars, poolVars, createVars, start, term,
                 dockerVars, unmatched, reaped>>

IdleRemove ==
  /\ idle.at = "remove" /\ idle' = Sleeping
  /\ RemoveWorker(idle.worker)
  /\ UNCHANGED <<schedulerVars, stateVars, createVars, start, term, dockerVars,
                 unmatched, reaped>>

IdleStep == IdleLookup \/ IdleContainer \/ IdleRelease \/ IdleRemove

(***************************************************************************)
(* Whoever holds a *WorkerState and reports its traffic through            *)
(* TransitionTo.                                                           *)
(***************************************************************************)
\* Its requests are done, as cmd/demo reports.
ReportIdle(w) ==
  /\ status[w] = StatusRunning /\ TransitionTo(w, StatusIdle)
  /\ UNCHANGED <<schedulerVars, gpuAssignment, containerID, poolVars, createVars,
                 start, term, idle, dockerVars, unmatched, reaped>>

\* It gets a request: a transition that validTransitions is there for and that
\* no code in the repository asks for.
ReportBusy(w) ==
  /\ status[w] = StatusIdle /\ TransitionTo(w, StatusRunning)
  /\ UNCHANGED <<schedulerVars, gpuAssignment, containerID, poolVars, createVars,
                 start, term, idle, dockerVars, unmatched, reaped>>

ReportTraffic(w) == TrafficReported /\ (ReportIdle(w) \/ ReportBusy(w))

-----------------------------------------------------------------------------
Next ==
  \/ \E w \in Worker :
       \/ CreateWorker(w) \/ CreateStep(w) \/ StartStep(w)
       \/ \E d \in Delete : DeleteWorker(w, d)
       \/ \E t \in Caller : TermStep(w, t)
       \/ IdleFound(w) \/ ReportTraffic(w)
  \/ IdleStep

Spec == Init /\ [][Next]_vars

\* Goroutines that have work to do are scheduled, and the Docker calls they
\* wait for return; the ticker of the idle checker keeps firing.  Nothing
\* obliges clients to send requests or workers to report traffic.
Fairness ==
  /\ \A w \in Worker :
       /\ WF_vars(CreateStep(w)) /\ WF_vars(StartStep(w)) /\ WF_vars(IdleFound(w))
       /\ \A t \in Caller : WF_vars(TermStep(w, t))
  /\ WF_vars(IdleStep)

FairSpec == Spec /\ Fairness

-----------------------------------------------------------------------------
(***************************************************************************)
(* Containers.                                                             *)
(***************************************************************************)

\* No goroutine of pkg/api is working on w any more.
Settled(w) ==
  /\ start[w] \in {"off", "done"}
  /\ \A t \in Caller : term[w][t] \in {"off", "done"}

\* A worker that has left the registry leaves no container behind, however
\* its DELETEs, its start and the idle checker interleave, unless a Docker
\* call failed.  It rests on startWorkerContainer storing the container id
\* before it asks for RUNNING, and terminateWorker asking for TERMINATING
\* before it reads the id: whichever comes second sees the other.
NoOrphanContainer ==
  \A w \in Worker :
    w \notin workers /\ Settled(w) /\ container[w] = "up" => w \in lost

\* A worker reported as RUNNING or IDLE is registered, knows its GPU and its
\* container, and the container is there, until the idle checker has
\* decided to terminate it.
ServingIsBacked ==
  \A w \in Worker :
    status[w] \in {StatusRunning, StatusIdle} /\ w \notin reaped =>
      /\ w \in workers
      /\ gpuAssignment[w] # NoGPU
      /\ containerID[w] /\ container[w] = "up"

(***************************************************************************)
(* The inductive invariant behind the two.                                 *)
(***************************************************************************)

\* AddWorker has stored the worker, which may have been removed since.
Stored(w) == create[w] \in {"allocate", "assign", "respond", "accepted"}

\* How far the POST handler is bounds what the others can have done.
CreateInv(w) ==
  /\ status[w] = NoStatus <=> create[w] \in {"new", "schedule", "exhausted"}
  /\ ~Stored(w) => /\ w \notin workers
                   /\ status[w] \in {NoStatus, StatusPending}
                   /\ \A t \in Caller : term[w][t] = "off"
  /\ create[w] \in {"count", "store", "allocate", "assign"} => choice[w] \in GPU
  /\ create[w] \in {"respond", "accepted"} <=> start[w] # "off"
  /\ start[w] # "off" => gpuAssignment[w] \in GPU

\* The status follows startWorkerContainer and terminateWorker, and a worker
\* is removed from PENDING or STARTING by nobody.
StatusInv(w) ==
  /\ start[w] \in {"off", "transition"} =>
       status[w] \in {NoStatus, StatusPending, StatusTerminating}
  /\ start[w] \in {"pull", "launch", "setID", "health", "run"} =>
       status[w] \in {StatusStarting, StatusTerminating}
  /\ start[w] = "done" => status[w] # StatusPending
  /\ \A t \in Caller : term[w][t] \in {"container", "release", "remove", "done"} =>
       status[w] = StatusTerminating
  /\ Stored(w) /\ status[w] \in {StatusPending, StatusStarting} => w \in workers

\* A container that is up and not lost has someone who will remove it: the
\* goroutine that is starting it, a terminateWorker that has not come to it
\* and knows its id, or whoever terminates the registered worker later.
ContainerInv(w) ==
  /\ start[w] \in {"off", "transition", "pull", "launch"} => container[w] = "none"
  /\ start[w] \in {"health", "run"} => containerID[w]
  /\ containerID[w] => start[w] \in {"health", "run", "done"}
  /\ start[w] \in {"setID", "health", "run"} /\ status[w] = StatusStarting =>
       container[w] = "up"
  /\ container[w] = "up" /\ w \notin lost =>
       \/ start[w] \in {"setID", "health", "run"}
       \/ /\ containerID[w]
          /\ \/ \E t \in Caller : term[w][t] \in {"transition", "container"}
             \/ w \in workers /\ status[w] \in {StatusRunning, StatusIdle}

ServingInv(w) ==
  status[w] \in {StatusRunning, StatusIdle} =>
    /\ containerID[w]
    /\ w \notin reaped => w \in workers /\ container[w] = "up"

\* The idle checker works on a worker that has started, and is past its
\* container only when that is gone or lost.
IdleInv ==
  idle.at # "tick" =>
    /\ idle.worker \in reaped
    /\ start[idle.worker] = "done" /\ containerID[idle.worker]
    /\ status[idle.worker] \in {StatusRunning, StatusIdle, StatusTerminating}
    /\ idle.at \in {"release", "remove"} =>
         container[idle.worker] # "up" \/ idle.worker \in lost

WorkerInv(w) ==
  CreateInv(w) /\ StatusInv(w) /\ ContainerInv(w) /\ ServingInv(w)

ControlInv == TypeOK /\ (\A w \in Worker : WorkerInv(w)) /\ IdleInv

(***************************************************************************)
(* The scheduler's ledger, as the handlers use it.                         *)
(***************************************************************************)

\* Nobody who asked for less than nothing, which CreateWorker does not check,
\* has been scheduled on g.
NobodyNegative(g) == \A w \in Worker : choice[w] = g => VRAMRequirement[w] >= 0

\* What GET /v1/gpus reports of a GPU is physically possible, unless a request
\* for a negative amount was scheduled on it: between nothing and all of its
\* memory is allocated, whatever sequence of Allocates, refused ones and
\* Releases, unmatched ones included, led there.
VRAMWithinTotal ==
  \A g \in GPU : NobodyNegative(g) => allocatedVRAM[g] \in 0..TotalVRAM[g]

\* Without that proviso it is not what GET /v1/gpus reports: CreateWorker takes
\* the amount as it comes, though ValidateWorkerState of wire.go wants
\* "vram_requirement_mb" to be "a positive integer".
ReportedVRAMPossible == \A g \in GPU : allocatedVRAM[g] \in 0..TotalVRAM[g]

\* Nobody's VRAM stays allocated who has left the active list: a second Release
\* of a worker may make the counter too low, nothing makes it too high.
CounterNeverOverstates ==
  \A g \in GPU : NobodyNegative(g) => allocatedVRAM[g] <= VRAMOf(activeWorkers[g])

\* As long as every Release on a GPU undoes an Allocate that took place, the
\* counter is the sum over the active list, whatever the interleaving, and
\* whatever happens on the other GPUs.
Matched(g) == \A w \in unmatched : choice[w] # g

LedgerExactWhenMatched ==
  \A g \in GPU : NobodyNegative(g) /\ Matched(g) => ExactOn(g)

\* Why: a worker is allocated and released on the GPU that was chosen for it,
\* once, and the sums are finite.
ChoiceInv(w) ==
  /\ create[w] \in {"new", "schedule", "exhausted"} => choice[w] = NoGPU
  /\ gpuAssignment[w] \in {NoGPU, choice[w]}

GPUInv(g) ==
  /\ allocatedVRAM[g] \in 0..TotalVRAM[g]
  /\ IsFiniteSet(Megabytes(activeWorkers[g]))
  /\ allocatedVRAM[g] <= VRAMOf(activeWorkers[g])
  /\ Matched(g) => ExactOn(g)

LedgerInv ==
  /\ \A w \in Worker : ChoiceInv(w)
  /\ \A g \in GPU : NobodyNegative(g) => GPUInv(g)

\* Release frees VRAM when a worker terminates: a worker that has left the
\* registry, with no goroutine working on it, is in no GPU's active list.
RemovedFreesVRAM ==
  \A w \in Worker, g \in GPU :
    /\ create[w] = "accepted" /\ w \notin workers /\ Settled(w)
    => w \notin activeWorkers[g]

\* What holds of it: a worker whose container was launched has its VRAM freed
\* when it leaves, whichever of its DELETEs, its start and the idle checker
\* come to it first and whether or not Docker removes the container.  A DELETE
\* that reads a nil assignment keeps startWorkerContainer from launching.
StartedWorkerFreesVRAM ==
  \A w \in Worker, g \in GPU :
    /\ containerID[w] /\ w \notin workers /\ Settled(w)
    => w \notin activeWorkers[g]

(***************************************************************************)
(* The inductive invariant behind it: from STARTING on, whoever has passed *)
(* its Release has found the GPU that the worker was allocated on.         *)
(***************************************************************************)
Freed(w) == \A g \in GPU : w \notin activeWorkers[g]

LaunchUnderWay(w) ==
  start[w] \in {"pull", "launch", "setID", "health", "run"} \/ containerID[w]

FreesInv(w) ==
  /\ \A g \in GPU : w \in activeWorkers[g] =>
       create[w] \in {"assign", "respond", "accepted"} /\ g = choice[w]
  /\ start[w] # "off" => gpuAssignment[w] = choice[w]
  /\ LaunchUnderWay(w) =>
       /\ w \notin workers => Freed(w)
       /\ \A t \in Caller : term[w][t] \in {"remove", "done"} => Freed(w)

ReleasesInv ==
  /\ \A w \in Worker : FreesInv(w)
  /\ idle.at = "remove" => Freed(idle.worker)

\* Workers that run on a GPU fit on it together.
NoOvercommit ==
  \A g \in GPU :
    VRAMOf({w \in Worker : status[w] = StatusRunning /\ gpuAssignment[w] = g})
      <= TotalVRAM[g]

(***************************************************************************)
(* The registry.                                                           *)
(***************************************************************************)

\* AETHER_MAX_WORKERS is the number of concurrent workers.
PoolWithinCapacity == Cardinality(workers) <= MaxWorkers

\* A worker is TERMINATING before it leaves the registry.
TerminatingBeforeRemoval ==
  [][\A w \in Worker :
       w \in workers /\ w \notin workers' => status[w] = StatusTerminating]_vars

\* What an observer of the registry sees of each worker.
Observed ==
  [w \in Worker |->
     IF w \in workers THEN status[w]
     ELSE IF create[w] \in {"allocate", "assign", "respond", "accepted"}
       THEN "removed" ELSE "absent"]

Machine == INSTANCE WorkerMachine WITH state <- Observed

\* The goroutines together drive every worker along the state machine of
\* WorkerMachine: PENDING first, validTransitions only, out of the registry
\* from TERMINATING and never back; but for the workers that the idle checker
\* decided on while they were IDLE, which leave as they are.
ImplementsMachine == Machine!Spec

\* Where the code departs from SPEC.md's machine: a terminateWorker of a DELETE
\* that finds its worker PENDING, and the idle checker.
KnownDeparture ==
  \/ \E w \in Worker, d \in Delete : status[w] = StatusPending /\ TermTransition(w, d)
  \/ IdleRemove \/ \E w \in Worker : IdleFound(w)

\* Nothing else departs from it; in particular no failure of a start takes a
\* worker out of PENDING.
DepartsOnlyAsKnown ==
  [][Machine!Documented \/ UNCHANGED Machine!machineVars \/ KnownDeparture]_vars

\* SPEC.md 3.1: "PENDING ... -> STARTING", and nothing else.
PendingOnlyStarts ==
  [][\A w \in Worker :
       w \in workers /\ status[w] = StatusPending =>
         status'[w] \in {StatusPending, StatusStarting}]_vars

\* api/openapi.yaml:29, of POST /v1/workers: "the worker will be in STARTING
\* status when the response is returned".
AcceptedIsStarting ==
  [][\A w \in Worker : RespondAccepted(w) => status[w] = StatusStarting]_vars

(***************************************************************************)
(* Progress.                                                               *)
(***************************************************************************)

\* Nobody is forgotten: a registered worker that does not serve is in the hands
\* of its POST handler, its start or a terminateWorker, which is what the
\* fairness of these makes progress of; and when a terminateWorker is done, its
\* worker is out, and a container that is still up, unless lost, is left to the
\* start or to another terminateWorker.
NobodyForgotten ==
  \A w \in Worker :
    /\ w \in workers =>
         \/ status[w] \in {StatusRunning, StatusIdle}
         \/ create[w] \in {"allocate", "assign"} \/ ~Settled(w)
    /\ \A t \in Caller : term[w][t] = "done" =>
         /\ w \notin workers
         /\ container[w] = "up" /\ w \notin lost => ~Settled(w)

\* The inductive invariant behind it: a start that fails in STARTING is about
\* to ask for TERMINATING itself, and whoever did so first stays until the
\* worker is out.
AttendedInv(w) ==
  /\ start[w] # "done" => term[w][Starter] = "off"
  /\ start[w] = "done" /\ status[w] = StatusStarting =>
       term[w][Starter] = "transition"
  /\ w \in workers /\ status[w] = StatusTerminating =>
       \E t \in Caller : term[w][t] \in {"container", "release", "remove"}
  /\ w \in workers => \A t \in Caller : term[w][t] # "done"

\* An accepted DELETE takes the worker out of the registry for good.
DeletedWorkerLeaves ==
  \A w \in Worker, d \in Delete :
    term[w][d] = "transition" ~> [](w \notin workers)

\* An accepted DELETE ends with the container gone for good, even if it comes
\* while the container is being launched, unless a Docker call failed.
DeletedContainerGoes ==
  \A w \in Worker, d \in Delete :
    term[w][d] = "transition" ~> [](container[w] # "up" \/ w \in lost)

\* An accepted worker does not stay PENDING or STARTING for ever.
AcceptedWorkerSettles ==
  \A w \in Worker :
    create[w] = "accepted" ~> status[w] \notin {StatusPending, StatusStarting}

\* A worker that stays IDLE is taken out of the registry.
IdleWorkerLeaves ==
  \A w \in Worker :
    status[w] = StatusIdle ~> (status[w] # StatusIdle \/ w \notin workers)

\* "its container will be stopped and removed", for every accepted DELETE.
DeleteRemovesContainer ==
  \A w \in Worker, d \in Delete :
    term[w][d] = "transition" ~> container[w] # "up"

\* A worker without traffic (none reports any here) does not stay RUNNING.
ScaleToZero ==
  \A w \in Worker : status[w] = StatusRunning ~> status[w] # StatusRunning
=============================================================================
