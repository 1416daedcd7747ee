------------------------------ MODULE IdleTimer ------------------------------
(***************************************************************************)
(* How the control plane decides that a worker has been idle for too long: *)
(* the timestamps of a WorkerState (pkg/orchestrator/state.go), the        *)
(* reports of the node agent that update them (wire.go, RecordHeartbeat)   *)
(* and checkIdleWorkers (worker_pool.go), which reads them.                *)
(*                                                                         *)
(* The agent and the control plane each have a WorkerState of the worker.  *)
(* The agent's is the truth about its requests; it is reported in          *)
(* heartbeats that may be lost, delayed and reordered.  Neither the agent  *)
(* nor the code that receives its messages is in the repository: both are  *)
(* modelled from the operations they have, ToWire on one side and FromWire *)
(* and RecordHeartbeat on the other.                                       *)
(*                                                                         *)
(* Instants are kept as ages, in seconds (to which RFC3339 truncates       *)
(* them), up to Cap, beyond which all comparisons come out the same.       *)
(*                                                                         *)
(* A definition marked "Mutant" is a wrong variant of the one after it,    *)
(* which the properties must tell apart; nothing else refers to it.        *)
(***************************************************************************)
EXTENDS Integers, FiniteSets, WorkerStatus

CONSTANTS
  Worker,
  IdleTimeout,  \* AETHER_IDLE_TIMEOUT
  MaxStall,     \* bound: how long one call of checkIdleWorkers may take
  MaxInFlight,  \* bound: reports on their way at the same time
  Nil, NoWorker \* nil

ASSUME IdleTimerAssumption ==
  /\ IdleTimeout \in Nat /\ MaxStall \in Nat /\ MaxInFlight \in Nat
  /\ Nil \notin Int /\ NoWorker \notin Worker

Cap == IdleTimeout + MaxStall + 1
Age == 0..Cap

VARIABLES
  \* the agent's WorkerState
  agentStatus, agentRequest,
  \* the control plane's WorkerState
  status,         \* Status
  updatedAt,      \* age of UpdatedAt
  lastRequestAt,  \* age of Metrics.LastRequestAt, or Nil
  workers,        \* keys of the pool's sync.Map
  doomed,         \* workers with a terminateWorker under way or done
  wire,           \* WireWorkerStates on their way to the control plane
  \* checkIdleWorkers
  at,             \* "select", "range", "judge" or "ended"
  todo,           \* workers that Range has not come to
  worker,         \* the one whose status was IDLE
  stall,          \* the age of its now
  \* history
  idleSince,      \* age of the control plane's last change to IDLE
  reaped          \* workers that checkIdleWorkers terminated

agentVars   == <<agentStatus, agentRequest>>
planeVars   == <<status, updatedAt, lastRequestAt, idleSince>>
checkerVars == <<at, todo, worker, stall>>
vars == <<agentVars, planeVars, workers, doomed, wire, checkerVars, reaped>>

WireWorkerState == [worker: Worker, status: Status, lastRequestAt: Age \union {Nil}]

\* Workers that have just become RUNNING.
Init ==
  /\ agentStatus   = [w \in Worker |-> StatusRunning]
  /\ agentRequest  = [w \in Worker |-> Nil]
  /\ status        = [w \in Worker |-> StatusRunning]
  /\ updatedAt     = [w \in Worker |-> 0]
  /\ lastRequestAt = [w \in Worker |-> Nil]
  /\ idleSince     = [w \in Worker |-> 0]
  /\ workers = Worker /\ doomed = {} /\ wire = {} /\ reaped = {}
  /\ at = "select" /\ todo = {} /\ worker = NoWorker /\ stall = 0

TypeOK ==
  /\ agentStatus   \in [Worker -> {StatusRunning, StatusIdle}]
  /\ agentRequest  \in [Worker -> Age \union {Nil}]
  /\ status        \in [Worker -> Status]
  /\ updatedAt     \in [Worker -> Age]
  /\ lastRequestAt \in [Worker -> Age \union {Nil}]
  /\ idleSince     \in [Worker -> Age]
  /\ workers \subseteq Worker /\ doomed \subseteq Worker /\ reaped \subseteq Worker
  /\ wire \subseteq WireWorkerState
  /\ at \in {"select", "range", "judge", "ended"} /\ todo \subseteq Worker
  /\ worker \in Worker \union {NoWorker} /\ stall \in 0..MaxStall

-----------------------------------------------------------------------------
\* One second passes.
Older(age) == IF age = Nil \/ age = Cap THEN age ELSE age + 1
AllOlder(ages) == [w \in Worker |-> Older(ages[w])]

Tick ==
  /\ agentRequest'  = AllOlder(agentRequest)
  /\ updatedAt'     = AllOlder(updatedAt)
  /\ lastRequestAt' = AllOlder(lastRequestAt)
  /\ idleSince'     = AllOlder(idleSince)
  /\ wire' = {[m EXCEPT !.lastRequestAt = Older(@)] : m \in wire}
  /\ IF at \in {"range", "judge"} THEN stall < MaxStall /\ stall' = stall + 1
                                   ELSE UNCHANGED stall
  /\ UNCHANGED <<agentStatus, status, workers, doomed, at, todo, worker, reaped>>

\* A request reaches the worker: TransitionTo(RUNNING) and IncrementRequests.
Serve(w) ==
  /\ agentStatus'  = [agentStatus  EXCEPT ![w] = StatusRunning]
  /\ agentRequest' = [agentRequest EXCEPT ![w] = 0]
  /\ UNCHANGED <<planeVars, workers, doomed, wire, checkerVars, reaped>>

\* Its last request is done: TransitionTo(IDLE).
Finish(w) ==
  /\ agentStatus[w] = StatusRunning
  /\ agentStatus' = [agentStatus EXCEPT ![w] = StatusIdle]
  /\ UNCHANGED <<agentRequest, planeVars, workers, doomed, wire, checkerVars, reaped>>

\* NewHeartbeatMessage, with ToWire of the agent's WorkerState.
ToWire(w) ==
  [worker |-> w, status |-> agentStatus[w], lastRequestAt |-> agentRequest[w]]

SendHeartbeat(w) ==
  /\ Cardinality(wire) < MaxInFlight
  /\ wire' = wire \union {ToWire(w)}
  /\ UNCHANGED <<agentVars, planeVars, workers, doomed, checkerVars, reaped>>

\* A report is lost, or will not be delivered again.
Drop(m) ==
  /\ wire' = wire \ {m}
  /\ UNCHANGED <<agentVars, planeVars, workers, doomed, checkerVars, reaped>>

-----------------------------------------------------------------------------
\* Mutant: the report is not validated, so that it may have no status.
FromWireUnvalidated(m) ==
  LET w == m.worker IN
  /\ w \in workers
  /\ \E s \in {m.status, NoStatus} : status' = [status EXCEPT ![w] = s]
  /\ UNCHANGED <<agentVars, lastRequestAt, updatedAt, idleSince, workers, doomed,
                 wire, checkerVars, reaped>>

\* FromWire, on a report that is valid (what ToWire makes is): the status is
\* assigned without TransitionTo, a nil LastRequestAt leaves the old one.
FromWire(m) ==
  LET w == m.worker IN
  /\ w \in workers
  /\ status' = [status EXCEPT ![w] = m.status]
  /\ lastRequestAt' = IF m.lastRequestAt = Nil THEN lastRequestAt
                        ELSE [lastRequestAt EXCEPT ![w] = m.lastRequestAt]
  /\ updatedAt' = [updatedAt EXCEPT ![w] = 0]
  /\ idleSince' = IF m.status = StatusIdle /\ status[w] # StatusIdle
                    THEN [idleSince EXCEPT ![w] = 0] ELSE idleSince
  /\ UNCHANGED <<agentVars, workers, doomed, wire, checkerVars, reaped>>

\* RecordHeartbeat copies the metrics only, a nil LastRequestAt too.
RecordHeartbeat(m) ==
  LET w == m.worker IN
  /\ w \in workers
  /\ lastRequestAt' = [lastRequestAt EXCEPT ![w] = m.lastRequestAt]
  /\ UNCHANGED <<agentVars, status, updatedAt, idleSince, workers, doomed, wire,
                 checkerVars, reaped>>

\* terminateWorker: TransitionTo(TERMINATING), and later RemoveWorker.
Terminate(w) ==
  /\ w \in workers \ doomed
  /\ doomed' = doomed \union {w}
  /\ isValidTransition(status[w], StatusTerminating)
  /\ status' = [status EXCEPT ![w] = StatusTerminating]
  /\ updatedAt' = [updatedAt EXCEPT ![w] = 0]
  /\ UNCHANGED <<agentVars, lastRequestAt, idleSince, workers, wire, checkerVars,
                 reaped>>

RemoveWorker(w) ==
  /\ w \in workers \intersect doomed
  /\ workers' = workers \ {w}
  /\ UNCHANGED <<agentVars, planeVars, doomed, wire, checkerVars, reaped>>

-----------------------------------------------------------------------------
\* The ticker fires: checkIdleWorkers reads the clock.
CheckBegins ==
  /\ at = "select" /\ at' = "range"
  /\ todo' = workers /\ stall' = 0
  /\ UNCHANGED <<agentVars, planeVars, workers, doomed, wire, worker, reaped>>

\* GetStatus of the next worker.
CheckStatus(w) ==
  /\ at = "range" /\ w \in todo
  /\ todo' = todo \ {w}
  /\ IF w \in workers /\ status[w] = StatusIdle
       THEN at' = "judge" /\ worker' = w
       ELSE UNCHANGED <<at, worker>>
  /\ UNCHANGED <<agentVars, planeVars, workers, doomed, wire, stall, reaped>>

\* LastRequestAt if there is one, else UpdatedAt.
LastActivity(w) == IF lastRequestAt[w] # Nil THEN lastRequestAt[w] ELSE updatedAt[w]

\* Mutant: the operands of Sub are swapped.
TimedOutSwapped(w) == stall - LastActivity(w) > IdleTimeout

\* now.Sub(lastActivity) > p.idleTimeout
TimedOut(w) == LastActivity(w) - stall > IdleTimeout

\* The timestamps are read under the lock again, and the worker terminated if
\* it is still there (ControlPlane has the steps of the callback).
CheckActivity ==
  /\ at = "judge" /\ at' = "range" /\ worker' = NoWorker
  /\ IF TimedOut(worker) /\ worker \in workers
       THEN workers' = workers \ {worker} /\ reaped' = reaped \union {worker}
       ELSE UNCHANGED <<workers, reaped>>
  /\ UNCHANGED <<agentVars, planeVars, doomed, wire, todo, stall>>

CheckEnds ==
  /\ at = "range" /\ todo = {}
  /\ at' = "select" /\ stall' = 0
  /\ UNCHANGED <<agentVars, planeVars, workers, doomed, wire, todo, worker, reaped>>

\* ctx is cancelled or stopChan closed, and select takes that case.
CheckerEnds ==
  /\ at = "select" /\ at' = "ended"
  /\ UNCHANGED <<agentVars, planeVars, workers, doomed, wire, todo, worker, stall,
                 reaped>>

CheckerStep ==
  CheckBegins \/ (\E w \in Worker : CheckStatus(w)) \/ CheckActivity \/ CheckEnds

Next ==
  \/ Tick \/ CheckerStep \/ CheckerEnds
  \/ \E w \in Worker :
       Serve(w) \/ Finish(w) \/ SendHeartbeat(w) \/ Terminate(w) \/ RemoveWorker(w)
  \/ \E m \in wire : Drop(m) \/ FromWire(m) \/ RecordHeartbeat(m)

Spec == Init /\ [][Next]_vars

\* Time passes, the checker runs and terminateWorker gets on.  Nothing obliges
\* anybody to stop the checker.
FairSpec ==
  /\ Spec /\ WF_vars(Tick) /\ WF_vars(CheckerStep)
  /\ \A w \in Worker : WF_vars(RemoveWorker(w))

-----------------------------------------------------------------------------
\* A worker that is IDLE, and of whose last request the control plane knows
\* that it is long past, is terminated, unless a report changes that or the
\* checker is stopped.
PastRequestLeaves ==
  \A w \in Worker :
    (w \in workers /\ status[w] = StatusIdle /\ lastRequestAt[w] = Cap)
      ~> \/ w \notin workers \/ status[w] # StatusIdle \/ lastRequestAt[w] # Cap
         \/ at = "ended"

\* TERMINATING is terminal: a worker does not leave it.
TerminatingIsFinal ==
  [][\A w \in Worker : status[w] = StatusTerminating => status'[w] = StatusTerminating]_vars

\* "Time before idle workers terminate": a worker that checkIdleWorkers
\* terminates has been IDLE for longer than that.
IdleLongEnough ==
  [][\A w \in Worker : w \in reaped' \ reaped => idleSince[w] > IdleTimeout]_vars

\* "Containers automatically terminate when idle": a worker that is IDLE on
\* both sides and has never had a request does not stay so for ever, unless the
\* checker is stopped.
UnusedWorkerLeaves ==
  \A w \in Worker :
    LET unused == /\ w \in workers /\ agentRequest[w] = Nil
                  /\ status[w] = StatusIdle /\ agentStatus[w] = StatusIdle
    IN  unused ~> (~unused \/ at = "ended")
=============================================================================
