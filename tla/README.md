# Aether-Runner: specifications, model checking and proofs

Aether-Runner is a control plane that runs inference workers in Docker
containers on GPUs: an HTTP API accepts requests for workers, a scheduler picks a
GPU by free VRAM and by which models it has loaded, goroutines start and stop the
containers, and idle workers are terminated. This directory holds TLA+ modules
translated from the Go source, TLC configurations that check them on small
instances, and TLAPS proofs that hold for every instance.

`tlc -config X.cfg M` runs a configuration, `tlapm M.tla` checks the proofs of a
module. PROJECT.json lists runs, mutants, findings, hazards, theorems and the
lines of source that each definition models.

## 1. The system

| Part | Source | State | Operations |
|---|---|---|---|
| Worker state machine | `pkg/orchestrator/state.go` | per worker: Status, GPUAssignment, ContainerID, Metrics, UpdatedAt, LastHeartbeat, one RWMutex | `TransitionTo`, `SetContainerID`, `SetGPUAssignment`, `IncrementRequests` |
| Scheduler | `pkg/orchestrator/scheduler.go` | per GPU: TotalVRAMMB, AllocatedVRAM, LoadedModels, ActiveWorkers, one RWMutex | `RegisterGPU`, `Schedule`, `Allocate`, `Release`, selection helpers, statistics |
| Worker pool | `pkg/orchestrator/worker_pool.go` | `sync.Map` of workers, counters, stop and update channels | `AddWorker`, `GetWorker`, `RemoveWorker`, `Count`, `FindIdleWorker`, idle checker, `NotifyStateChange`, `Stop` |
| Heartbeats | `pkg/orchestrator/worker_pool.go` | LastHeartbeat of each worker | `RecordHeartbeat`, `CheckHeartbeats`, `StartHeartbeatChecker` |
| Wire format | `pkg/orchestrator/wire.go` | none of its own | `Validate`, `ToWire`, `FromWire`, message constructors |
| HTTP handlers | `pkg/api/handlers.go` | none of their own | `CreateWorker`, `startWorkerContainer`, `terminateWorker`, `DeleteWorker`, read-only endpoints |
| Docker clients | `pkg/docker/client.go`, `mock_client.go` | the daemon's containers; the mock's map of them | `PullImage`, `LaunchContainer`, `WaitForHealthy`, `TerminateContainer` |
| Process | `cmd/aether/main.go` | none of its own | startup, the idle checker's callback, shutdown |
| Errors, request log, demo | `pkg/api/errors.go`, `cmd/demo/main.go` | none | formatting; the demo reports RUNNING to IDLE |

**Interaction.** A POST runs `CreateWorker`: `Schedule`, `NewWorkerState`,
`AddWorker`, `Allocate`, `SetGPUAssignment`, then `go startWorkerContainer` and a
202 response. The starter pulls the image, launches the container, stores its id,
waits for health and asks for RUNNING; every failure on the way calls
`terminateWorker`. A DELETE that finds the worker spawns `terminateWorker`:
TERMINATING, stop and remove the container, `Release`, `RemoveWorker`. The idle
checker looks for IDLE workers every 30 s and calls back into `main.go`, which
does the same without the transition. All of these share the worker records, the
pool and the GPUs, and nothing but one mutex per record orders them.

**What is hard.** Checks and the actions they justify happen under different
locks (capacity, room on a GPU, idleness); several goroutines terminate the same
worker; a DELETE may come at any point of a start; Docker calls fail half way;
`Schedule` and the checkers walk over records one lock at a time while these
change; reports arrive late. PROJECT.json lists each hazard at its line.

**What makes each part correct.** Scheduler: the counter of a GPU is the sum over
its active workers and within its size, and a scan of GPUs or workers overlooks
nothing that was there all along. State machine: only the transitions of `validTransitions`,
TERMINATING is final, whatever the goroutines do. Pool: within its capacity, up to
concurrent additions; its counters and statistics agree with the map, up to calls
that are half done. Handlers: a worker that is gone leaves no container and no VRAM
behind, an accepted one settles, a deleted one leaves. Checkers: they act on what is
true of some moment, and they do act. Docker clients: every call returns, and fails
only for a fault; a failure aside, terminated means removed. Process: it ends when
told to, whoever is still at work, and handles the updates that it accepted.

## 2. Modules

| Module | Models |
|---|---|
| `WorkerStatus` | the statuses and `validTransitions` |
| `WorkerMachine` | abstract: what an observer of the registry may see of a worker: SPEC.md's machine (`Documented`), and what the code does beyond it |
| `Scheduler` | the GPU records and the steps of `Schedule`, `Allocate`, `Release` (no Next of its own) |
| `SchedulerClients` | concurrent callers that use the scheduler as its comments say |
| `ScheduleLocks` | the mutexes of those calls, to ask whether they return |
| `ControlPlane` | handlers, pool, idle callback and Docker outcomes over `Scheduler` |
| `Heartbeats` | `RecordHeartbeat`, `CheckHeartbeats`, `StartHeartbeatChecker` |
| `IdleTimer` | timestamps, reports of the node agent, `checkIdleWorkers` |
| `DockerCalls` | abstract: what the control plane relies on of a Docker client |
| `DockerClient`, `MockClient` | the two clients, one step per call to the daemon or critical section; of the mock all methods, of which the repository uses two |
| `DockerClients` | both under the same callers, and that they implement `DockerCalls` |
| `WorkerPool` | `AddWorker`, `Count`, `RemoveWorker`, `Stats`, with each `Range` one key at a time |
| `WorkerSelection` | `SelectWorker`, `SelectWorkerForModel`, `FindIdleWorker` and what they call |
| `Process` | `ControlPlane` in a process that shuts down, crashes and restarts; the update channel |
| `MC...` | constants for TLC |
| `SchedulerProofs`, `SchedulerClientsProofs`, `ControlPlaneProofs` (also of `Process`), `ScheduleLocksProofs`, `HeartbeatsProofs`, `DockerClientsProofs`, `WorkerPoolProofs`, `WorkerSelectionProofs` | proofs |

**WorkerMachine.** The table of SPEC.md 3.1 is `Documented`: `Transition` has its
edges. The code does two things that SPEC.md does not have, each an action of its
own: `validTransitions` also allows PENDING to TERMINATING (`Cancel`; SPEC.md:77 has
STARTING only), which a DELETE that comes before the start makes use of; and the idle
callback removes a worker without making it TERMINATING (`Decide`, `Reap`). The
refinement therefore says less than that the code follows SPEC.md. How much less is
the property `DepartsOnlyAsKnown`.

A step of a model is a stretch of code that touches shared state once: a critical
section, a `sync.Map` operation, a Docker call. Local computation, logging and
response bodies are left out. A definition marked "Mutant" is a wrong variant of
the definition after it, which a property must tell apart from it; the
specifications do not use it.

**Scheduler.** `allocatedVRAM`, `loadedModels` and `activeWorkers` are the fields
of GPUResidency; `scan[w]` holds the locals of w's `Schedule` call: the GPUs still
to be looked at, the warm and cold lists, as sets, and of the sort only what decides
who comes first: `head[g]` is the candidate at the head of the sorted list that g
stands in. `ScanGPU` is one iteration of the loop (one GPU's read lock). The order in
which `range` visits a map is random, so any order is possible. The sort reads the
live records again while others change them (`CompareGPU`), so that its comparisons
may contradict one another; but it inserts one GPU after the other (as `sort.Slice`
does with up to 12 candidates), so that a GPU is not compared again with one that
stands behind it.

**ControlPlane.** `create`, `start`, `term`, `idle` are program counters of the
goroutines: `CreateWorker`; `startWorkerContainer`; one `terminateWorker` per
accepted DELETE plus the one that the starter turns into; the idle callback.
`AddWorker` is two steps (`AddWorkerCheck`, `AddWorkerStore`) because no lock joins
`Count` to `Store`. `container[w]` is what the Docker daemon has; each call of
`pkg/docker` is one step with all its outcomes, including failures that leave a
container (`lost` remembers these). `GPUAssignment` is read without its mutex by
`terminateWorker`; the pointer is read whole, so the read sees nil or the
assignment. `ReportTraffic` is enabled only with `TrafficReported`: nothing in
`cmd/aether` reports it. `ReportIdle` is what the demo does; the way back,
`ReportBusy`, is a transition that nothing in the repository asks for, and whoever
would is external. How long a worker has been idle
is left open here (any IDLE worker may have timed out) and is the subject of
`IdleTimer`.

**ScheduleLocks.** `sync.RWMutex` as the Go library documents it: a pending `Lock`
makes later `RLock`s wait, and `Unlock` lets in the readers that came meanwhile. The
comparator of `sort.Slice` takes two read locks in list order. Which GPUs become
candidates is left open.

**Heartbeats, IdleTimer.** Instants are ages in seconds, saturated at `Cap`, the
least age beyond which the comparisons of the code no longer distinguish anything;
this makes time unbounded and the state space finite. Both checkers read the clock
once and then walk over the workers; `stall` is the age of that reading. Both may
end, between two calls, when the context or the pool is stopped (`CheckerEnds`); the
liveness properties are about a checker that has not. In
`IdleTimer` the node agent and the transport, which are not in the repository, are
external: the agent has a WorkerState, sends it with `ToWire`, and reports may be
lost, delayed, reordered and delivered more than once; the control plane applies
them with `FromWire` or `RecordHeartbeat`.

**DockerClient, MockClient, DockerClients.** `pc` is the call to the daemon that
each caller makes next: the starter through `PullImage`, `LaunchContainer` and
`WaitForHealthy` under one context, any number of `TerminateContainer`s under their
own. `Call` is what may become of a call: carried out and answered; carried out, but
the context expires before the answer; rejected by the daemon because of the state of
the image or container; failed for a reason of its own (`erred` remembers for whom);
or given up on because the context has expired. The daemon may stay silent for ever;
the context then ends the call. A call that was given up on before the daemon carried
it out is assumed not to be carried out later. The container may exit by itself. The
mock has no daemon: delays that race with the context, and a mutex around its map.
In the repository only the demo calls the mock: `PullImage`, then `LaunchContainer`,
under `context.Background()` (`cmd/demo/main.go:254-271`). That model is of what its
methods promise a test that takes it for the real client: it is called as that one
is, with the health check and the terminations, and under a context that may end.
`DockerCalls` has one step per operation with the outcomes of the actions of the same
names in `ControlPlane`, which is what justifies that `ControlPlane` takes each
operation as one step. The mapping counts a container from the moment that
`LaunchContainer` returns, and an exited container as still there.

**WorkerPool.** `ControlPlane` has `Count` and each counter as part of one step;
here `Range` visits the keys in any order, each at a moment of its own, `Store` and
`Delete` are apart from the counters, and `Stats` holds the read lock of the counters,
not of the map, while it ranges. Workers have no status here: the per-status counts
of `Stats` add up to `CurrentActive` by construction.

**WorkerSelection.** One selection at a time, since selections change nothing;
meanwhile workers join, change status and leave and VRAM comes and goes, without
restriction. `ListWorkers` returns a list that the two passes go through, reading
each status at the moment they come to it. The lists are sets here, and any order is
possible. `Requirement` holds the amounts that `SelectWorkerForModel` may be asked for;
`SelectWorker` asks for `DefaultVRAM`. SPEC.md:137 reloads an IDLE worker that "has
sufficient VRAM"; `SelectWorkerForModel` asks for that, `SelectWorker` takes any IDLE
worker (`Suffices`). `ColdOnlyIfNoneSteady` is about whom a call would take, which
with either includes everybody that SPEC.md would; that `SelectWorker` also takes
others is what `repurpose_room` shows. `steady` and `steadyGPU` remember what was true
during the whole call.

**Process.** Extends `ControlPlane`: its actions happen while the process runs,
requests as long as a connection may bring them (`Connected`): new ones until
`Shutdown` closes the listener, those on connections accepted before until `Shutdown`
has found every connection idle, and to the end of the process if it gave up. That
`Shutdown` waits for handlers, unless it times out, is what `net/http` documents and
an assumption. `phase` follows `main` from the signal to the
return; `Crash` is `os.Exit(1)` after a failure of `ListenAndServe`, or a kill. An
exit forgets everything but the containers (`left`). A restart has fresh ids. The
channel of state updates is a counter, with the place of one tracked update.

## 3. Runs

Passing:

| Run | Instance | Shows |
|---|---|---|
| `clients` | 3 GPUs (2, 1, 1 units), 4 callers, 2 models | no GPU with room all along is overlooked; a warm one is preferred; the freest one is returned where nobody disturbs the candidates |
| `contention` | 2 GPUs (3 and 2 units), 2 workers (3 and 2 units), 1 DELETE each, pool limit 1, traffic | types; VRAM within total; the counter never above the sum over the active workers, and exact as long as each Release had an Allocate; no orphan container; RUNNING or IDLE workers are backed; a worker that was started frees its VRAM when it leaves; the goroutines and the idle checker implement `WorkerMachine`, and depart from SPEC.md's machine in two ways only |
| `lifecycle` | 1 GPU, 1 worker, 3 DELETEs, traffic, fair | accepted workers leave PENDING and STARTING; a deleted worker and its container go for good; IDLE workers leave |
| `locks` | 2 GPUs, 3 Schedules, 1 writer | calls block one another only between the writers of two GPUs; with one writer every call returns |
| `heartbeats` | 2 workers, timeout 2 s, calls of up to 2 s | the offline list is right as of its clock; a silent worker is reported |
| `idle_reports` | 1 worker, timeout 1 s, calls of up to 1 s, 2 reports in flight | an IDLE worker whose last request is known to be long past leaves |
| `docker` | both clients, 1 container, 3 terminators, fair contexts | each operation has an outcome of `DockerCalls`; it fails with a container left only for a fault; nil from `TerminateContainer` means removed; all return |
| `pool` | 4 additions, 2 removals, 1 `Stats`, limit 1 | the limit is exceeded by less than the number of concurrent additions; `Stats` misses nobody it counted; counters and map agree up to removals under way |
| `selection` | 3 workers, 2 tenants and the wildcard, 2 models, 2 GPUs of 1 unit | no worker or GPU that would do during the whole call is overlooked, and a warm one is preferred |
| `process` | `ControlPlane` with 1 worker and 1 DELETE, 2 starts, channel of 2 | a shutdown ends; accepted updates are handled while the process runs |

Two runs find the code to disagree with what the repository says of it
(`findings` in PROJECT.json quotes both sides). **`lock_cycle`** refutes
`EveryCallReturns`, for two Schedules that compare the same GPUs in opposite orders
and a writer waiting on each block one another for ever. `locks` shows that three
Schedules with a single writer do return, and that nothing short of two writers on
two GPUs can block them (`StuckBetweenWriters`, proved for any number of calls).
**`overcommit`** refutes `NoOvercommit`: two POSTs find the same room, `CreateWorker`
ignores that `Allocate` refuses one of them (`handlers.go:110`), and both workers run
on a GPU that they do not fit on together. That the refused `Allocate` itself leaves
the ledger alone is `CounterNeverOverstates`.

Further configurations, kept beside the runs, under which TLC refutes a sentence of
the documentation:

| Configuration (module) | Property | What the documentation says, and what happens |
|---|---|---|
| `capacity` (`MCControlPlane`) | `PoolWithinCapacity` | SPEC.md:231, "Max concurrent workers per node"; two POSTs pass the check before either is stored (worker_pool.go:72) |
| `double_release` (`MCControlPlane`) | `LedgerExact` | SPEC.md:145, "a real-time view of VRAM allocation"; two DELETEs release one worker's VRAM twice (scheduler.go:183) |
| `vram_leak` (`MCControlPlane`) | `RemovedFreesVRAM` | scheduler.go:170, "Release frees VRAM on a GPU when a worker terminates"; a DELETE before `SetGPUAssignment` releases nothing (handlers.go:216) |
| `idle_removal` (`MCControlPlane`) | `TerminatingBeforeRemoval` | SPEC.md:80-81, only TERMINATING leads out; the idle callback removes IDLE workers (main.go:97) |
| `pending_cancelled` (`MCControlPlane`) | `PendingOnlyStarts` | SPEC.md:77, PENDING leads to STARTING; a DELETE before the start takes it to TERMINATING (state.go:24) |
| `accepted_starting` (`MCControlPlane`) | `AcceptedIsStarting` | openapi.yaml:29, "the worker will be in STARTING status when the response is returned"; it may be PENDING still, or further (handlers.go:125) |
| `never_idle` (`MCControlPlane`) | `ScaleToZero` | SPEC.md:16, idle containers terminate; nothing in `cmd/aether` makes a worker IDLE |
| `docker_failure` (`MCControlPlane`) | `DeleteRemovesContainer` | openapi.yaml:132, the container is removed; a failure is ignored and not retried (handlers.go:212) |
| `negative_vram` (`MCControlPlane`) | `ReportedVRAMPossible` | wire.go:95, the requirement is positive; CreateWorker does not check it |
| `nil_exhausted` (`MCSchedulerClients`) | `NilMeansExhausted` | scheduler.go:66, nil if no GPU is available; nil although some GPU had room at every moment of the call |
| `revived` (`IdleTimer`) | `TerminatingIsFinal` | state.go:28, terminal; a late report takes a worker out of TERMINATING (wire.go:172) |
| `early_idle` (`IdleTimer`) | `IdleLongEnough` | SPEC.md:230, the timeout is time spent idle; a worker is terminated right after a long request (worker_pool.go:188) |
| `unused_worker` (`IdleTimer`) | `UnusedWorkerLeaves` | SPEC.md:16; reports renew UpdatedAt and keep an IDLE worker that never had a request (wire.go:207) |
| `docker_claims` (`DockerClients`) | `ForceRemoves` | client.go:232, "Force remove if stop fails"; under a context that expired during the stop it does not |
| `docker_claims` (`DockerClients`) | `FailedStartCleansUp` | client.go:152, "Clean up the created container"; likewise |
| `docker_claims` (`DockerClients`) | `PulledImageIsThere` | client.go:64 and 79, the image is pulled; the daemon reports errors inside the stream that is discarded |
| `repurpose_room` (`MCWorkerSelection`) | `RepurposedHasRoom` | SPEC.md:137, "If worker has sufficient VRAM"; `SelectWorker` takes any IDLE worker (scheduler.go:287) |
| `gone_selected` (`MCWorkerSelection`) | `WarmHitIsRegistered` | scheduler.go:266, instant routing; the worker returned may have left the registry |
| `abandoned_delete` (`MCProcess`) | `DeleteSurvivesShutdown` | main.go:147, "Graceful shutdown"; `terminateWorker` goroutines are not waited for and the container stays |
| `restart_fit` (`MCProcess`) | `ContainersFit` | SPEC.md:145; after a restart the scheduler hands out the VRAM of containers that still run |

(`tlc -continue` shows the violations of all three of `docker_claims`.)

For most of these some passing property says what does hold: `NilOverlooksNothing`
instead of `NilMeansExhausted`, `NoOrphanContainer` up to failed Docker calls,
`OverrunBounded` instead of `PoolWithinCapacity`, `LedgerExactWhenMatched` up to
unmatched releases, `StartedWorkerFreesVRAM` instead of `RemovedFreesVRAM`,
`LostOnlyByFault` where cleaning up fails,
`DepartsOnlyAsKnown` instead of `PendingOnlyStarts` and `TerminatingBeforeRemoval`,
`StuckBetweenWriters` for the lock cycle, `PastRequestLeaves` for a worker whose
last request is known. Such a property excepts the case that the refuted one fails in,
and so does not catch it: `hazards` in PROJECT.json says which hazard is only shown by
a configuration of this table. For what shutdown abandons (`abandoned_delete`,
`restart_fit`), for the time of the 202 (`accepted_starting`) and for scale-to-zero
without traffic reports (`never_idle`) nothing weaker holds that is worth stating.

**Bounds.** Two workers and two requests are enough for every pairwise race of the
handlers (`contention`); three DELETEs of one worker give three
`terminateWorker` goroutines next to the starter and the idle checker. `GPUSize`
and `Requirement` are chosen so that two workers do not both fit on a GPU, or just
do. In `contention` one worker fits on either GPU and the other on the larger one
only, so that it is refused or not according to where the first one went. Four callers on three GPUs let room move from one GPU to another behind a scan.
Each worker id is created once (ids are fresh UUIDs). `MaxStall` bounds how long one
call of a checker takes and `MaxInFlight` the reports on their way; two in flight can
be delivered in either order, repeatedly and late. Three terminators of one container
let a stop, a removal and a second stop fall between the two calls of another. In
`pool`, a limit of one and four additions let two callers exceed the limit while a
third counts, with removals in between. In `selection`, requirements of 0, 1 and 2 on
GPUs of 1 unit are below, at and beyond what a worker or a GPU can have. In `process` one worker suffices, as an exit
treats workers alike (`restart_fit` needs a second start, not a second worker), and a
channel of two can be full with the tracked update in either place. Deadlock is not checked where
requests are finite and the system comes to rest when they are used up; it is in
`Heartbeats` and `IdleTimer`, where time never stops.

**Fairness.** A goroutine that can go on does (weak fairness per goroutine), which
the Go scheduler provides, and every Docker call returns, since it runs under a
context with a timeout. Tickers keep firing and time passes. No fairness is assumed
of clients, of traffic reports or of the network: these may stop at any time.
`DockerClients` discharges the assumption on Docker calls: there the daemon need never
answer, and fairness says only that a context expires and that a client whose context
has expired goes on. In `Process` only `main` and the reader of the update channel are
fair, and `Shutdown` may give up on its handlers, as it does after 30 s.

## 4. Proofs

The theorems hold for any number of GPUs, workers, calls and DELETEs, and any sizes,
under the ASSUMEs of the modules: the VRAM of a GPU is a natural number, a requirement
any integer, nil is no GPU and no worker, timeouts are natural numbers, the sets that
the code counts are finite, and there is a GPU where calls lock one. Between them they
state every safety property that a passing run checks, but for the types of
`IdleTimer`, and two that none checks: `NoLockLeak` and `NobodyForgotten`. In each module the named invariant
(`...Inv`) is the inductive strengthening; TLC has checked it on the instance of the
run as well.

- **`SchedulerProofs`**: each step of the scheduler keeps its types and bounds, and
  `ExactOn(g)`, unless it is a Release of a worker that is not on g's list: g's counter
  is the sum of the requirements of its active workers. `VRAMOf(S)` writes this sum as the number of megabytes that the workers in S hold, a
  set of pairs, so that what adding or removing one worker does to it follows from the
  laws of `Cardinality` without an induction over S; `MCSchedulerClients` checks it
  against the sum of the community modules.
- **`SchedulerClientsProofs`**: `NilOverlooksNothingTheorem` and
  `WarmPreferredTheorem`, from `ClientInv`: a GPU with room since the call began is
  still to be looked at or among the candidates, and among the warm ones if it had
  the model from the start.

  `FreestIfUndisturbedTheorem`, an action property, from `SortInv`: as long as nobody
  allocates on a candidate or releases from it, every candidate is at most as free as
  the head of the list that it stands in (each comparison keeps this: the loser and all
  behind it come to stand behind somebody's head that is at least as free), so that the
  one head that is left when `Schedule` returns is the freest; and an untouched GPU
  with room that is no candidate is a cold one beside warm candidates. The history
  variable `touched` says whom a call was disturbed on. That the sort never
  compares a GPU with one that stands behind it is needed: else of two equally free GPUs
  each might come to stand behind the other, and a less free one be left first.
- **`ControlPlaneProofs`**: `NoOrphanContainerTheorem`, `ServingIsBackedTheorem`,
  `StartedWorkerFreesVRAMTheorem`, `VRAMWithinTotalTheorem`,
  `CounterNeverOverstatesTheorem` and `LedgerExactWhenMatchedTheorem`. No amount is
  ruled out: a request may ask for a negative one, as `CreateWorker` lets it, and the
  last three say that a GPU is right until such a request is scheduled on that GPU
  (`NobodyNegative`); that it is wrong afterwards is what `negative_vram` shows.
  `ControlInv` adds, per worker,
  how far the POST handler is (`CreateInv`), how the status follows starter and
  terminators (`StatusInv`), and who is still responsible for a container that is up
  (`ContainerInv`); and for the idle checker that it is past a container only when
  that is gone or lost (`IdleInv`). The heart of the argument: the starter stores
  the container id before it asks for RUNNING, and `terminateWorker` asks for
  TERMINATING before it reads the id, so whichever comes second sees the other.
  For the VRAM, `ReleasesInv` adds that a worker is only ever on the active list of
  the GPU that was chosen for it, and that from STARTING on whoever is past its
  Release has taken it off: the start leaves PENDING only while no terminator is at
  its Release, and by then the assignment is there to be read. `LedgerInv` says of each
  worker that it is on no list but that of the GPU chosen for it, and on that only after
  its one Allocate, and of each GPU without negative requests that its counter is at
  most the sum and, as long as every Release there found its worker, the sum.

  `ImplementsMachineTheorem`: every step of the control plane is a step of
  `WorkerMachine` or leaves it alone, under the mapping `Observed`. By `ControlInv` and
  `IdleInv` a removal that finds its worker registered finds it TERMINATING, or, if it
  is the idle callback's, one that the checker had decided on while it was IDLE (`Reap`).
  In particular a worker that has left does not come back. `WorkerMachine` is not the
  machine of SPEC.md (section 2); `DepartsOnlyAsKnownTheorem` says how far the code is
  from that: every step is one of `Documented`, or changes nothing of the worker that
  the registry shows, or takes a PENDING worker to TERMINATING for a DELETE, or is the
  idle checker's decision or the removal that it leads to. Both departures do occur
  (`pending_cancelled`, `idle_removal`).

  `NobodyForgottenTheorem`: a registered worker that does not serve is in the hands of a
  goroutine that has not ended, and a `terminateWorker` that is done has left nothing
  that nobody else is still working on. It is what the liveness properties of
  `lifecycle` rest on, for any number of workers and DELETEs: with it, a stuck worker
  could only be a stuck goroutine. `AttendedInv` is the invariant behind it: a start
  that failed in STARTING is about to ask for TERMINATING itself, and whoever made the
  worker TERMINATING is at work until it is out.

  Of the process: `ProcessNoOrphanContainer`. `ControlInv` survives an exit and a
  restart, which leaves nothing registered and nothing under way (`ProcessInvariant`, with
  the types of the process), so that what holds of the control plane for ever also holds
  of each of its starts.
- **`ScheduleLocksProofs`**: `NoLockLeakTheorem`, from `LockInv`: a call has nothing of
  a lock that its position does not account for, never both has a lock and waits for
  it, compares two different GPUs, and has the first lock when it asks for the second.
  `StuckBetweenWritersTheorem`: if not all calls are done and none can go on, there are
  writers on two different GPUs. A reader that cannot go on waits behind the writer of a
  GPU (`StuckReader`), and that writer for a reader that holds the GPU. This one can go
  on, unless it is in a comparison and waits for its second lock, which is another
  GPU's, so that there must be a writer on that one too (`HolderGoes`). So the cycle
  of `lock_cycle` is the only kind there is, whatever the number of calls and GPUs.
- **`DockerClientsProofs`**: `LostOnlyByFaultTheorem`,
  `NilMeansRemovedTheorem` and `ImplementsCallsTheorem`, from `CallsInv`: until
  LaunchContainer returns only the starter knows the container, afterwards it can
  only be stopped and removed, and a terminator that asks for an ordinary removal has
  stopped it. So the call at which an operation ends finds the container as one of
  the outcomes of `DockerCalls` allows, and every other call does not show there.
  This discharges for any number of callers what `ControlPlane` assumes of Docker.
- **`HeartbeatsProofs`**: `OfflineAsOfNowTheorem`, from `HeartbeatInv`: during a
  call, the workers not heard of since look as they did when the clock was read,
  because their age and that of the clock reading grow together.
- **`WorkerPoolProofs`**: `OverrunBoundedTheorem`, for any limit and any number of
  calls. Order the AddWorker calls by when they began (`RankInv` says only that some
  order does; no variable records it). Whatever was in the pool when a call began has
  been counted by its Range, is still to be visited, or is gone, so a call that passes
  the check belongs, with all earlier ones, to fewer than `MaxWorkers` that it counted
  and at most `peak` that were adding with it. The last to begin of those that passed
  bounds all of them at once. `StatsMissesNobodyTheorem` and
  `CountersCoverRemovalsTheorem` follow from `CountersInv` (the counters are the
  numbers of calls past them) and `RangesInv` (what the Range of `Stats` has counted,
  has yet to visit, or has lost to a removal is no less than what was created before
  it).
- **`WorkerSelectionProofs`**: `WarmHitIfSteadyTheorem`,
  `ColdOnlyIfNoneSteadyTheorem` and `ExhaustedIsRealTheorem`, from `LoopInv`: a worker
  that has been IDLE since the call began is in the list, and each loop has it still to
  look at unless it would not do; likewise a GPU with room since then.
- The types: `TypeCorrect`, `ClientsTypeCorrect`,
  `DockerTypeCorrect`, `HeartbeatTypeCorrect`, `PoolTypeCorrect` (in particular no
  Range counts more keys than there are) and `SelectionTypeCorrect`.

Only model-checked: all liveness (fairness is out of the prover's reach), and so
that the calls return with one writer, the return of every Docker call, the end of the shutdown and the
handling of updates; and the types of `IdleTimer`, whose other properties are all
liveness, so that an invariant of it would support nothing.

## 5. Not modelled

- Formatting and validation of requests and responses, the request log, routing, the
  demo's output and configuration parsing: no state, and no control beyond the early
  returns that the handlers' actions have.
- Calls that read one record and decide nothing: `CanSliceGPU`, `GetGPUVRAMUsage`,
  `CountModelsOnGPU`, `GetGPUStats`, `GetHealthyWorkerCount`, `ListGPUContainers`,
  `NetworkInfo`, `Ping`, the GET endpoints. `UpdateUptime` changes a number that only
  these print.
- The wire protocol's commands and acknowledgements and its identifier checks: nothing
  in the repository acts on them.
- What a container does once it is healthy, beyond that it may exit: no code looks.

## 6. Plan

Done, in this order: `Scheduler` and `SchedulerClients`; `WorkerStatus`,
`WorkerMachine` and `ControlPlane` with its proofs and refinement; `ScheduleLocks`;
`Heartbeats`; `IdleTimer`; `DockerClient`, `MockClient` and their refinement of
`DockerCalls`; `WorkerPool`; `WorkerSelection`; `Process`; and the proofs of all of
these but `IdleTimer`. Left, if it is to go further:

1. That `ControlPlane` allows each worker's container whatever `DockerCalls` allows, and
   calls it as `DockerCalls` may be called, as a theorem; now the outcomes are compared by
   reading. It takes history variables for how each call ended.
2. A refinement of the registry that `ControlPlane` assumes (`AddWorkerCheck` counts in
   one step) by `WorkerPool`, where the count is a Range.
