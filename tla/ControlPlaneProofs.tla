------------------------- MODULE ControlPlaneProofs -------------------------
(***************************************************************************)
(* Proofs about ControlPlane and the Process around it, for any number of  *)
(* GPUs, workers and DELETE requests and any limits: the types, the        *)
(* inductive invariant and what follows from it, the ledger of the         *)
(* scheduler, the refinement of WorkerMachine, and the process.            *)
(***************************************************************************)
EXTENDS Process, SchedulerProofs

(***************************************************************************)
(* Types.                                                                  *)
(***************************************************************************)

\* The process after startup.
LEMMA TypeInit == Init => TypeOK
<1> SUFFICES ASSUME Init PROVE TypeOK
  OBVIOUS
<1>1. SchedulerTypeOK
  <2>1. Unsorted \in [GPU -> GPU]
    BY DEF Unsorted
  <2> QED
    BY <2>1 DEF Init, SchedulerInit, SchedulerTypeOK
<1>2. idle \in [at: IdlePC, worker: Worker \union {NoWorker}]
  BY DEF Init, Sleeping, IdlePC
<1>3. term \in [Worker -> [Caller -> TermPC]]
  BY DEF Init, TermPC
<1> QED
  BY <1>1, <1>2, <1>3 DEF Init, TypeOK, CreatePC, StartPC

\* The POST handler.
LEMMA TypeCreate ==
  ASSUME TypeOK, NEW w \in Worker, CreateInv(w), CreateWorker(w) \/ CreateStep(w)
  PROVE  TypeOK'
<1> USE DEF TypeOK, Goto, CreatePC, stateVars, poolVars, createVars, dockerVars
<1>1. CASE CreateWorker(w)
  BY <1>1 DEF CreateWorker, SchedulerTypeOK, schedulerVars
<1>2. CASE Schedule(w)
  BY <1>2, ScanTypeOK DEF Schedule
<1>3. CASE ScheduleFound(w)
  BY <1>3, ScanTypeOK DEF ScheduleFound, Status, StatusPending
<1>4. CASE ScheduleExhausted(w)
  <2>1. Unsorted \in [GPU -> GPU]
    BY DEF Unsorted
  <2> QED
    BY <1>4, <2>1 DEF ScheduleExhausted, ScheduleReturnsNil, EndSchedule, SchedulerTypeOK,
                      ledgerVars
<1>5. CASE AddWorkerCheck(w)
  BY <1>5 DEF AddWorkerCheck, SchedulerTypeOK, schedulerVars
<1>6. CASE AddWorkerStore(w)
  BY <1>6 DEF AddWorkerStore, SchedulerTypeOK, schedulerVars
<1>7. CASE AllocateGPU(w)
  BY <1>7, LedgerTypeOK DEF AllocateGPU, CreateInv
<1>8. CASE AssignAndSpawn(w)
  BY <1>8 DEF AssignAndSpawn, SchedulerTypeOK, schedulerVars, StartPC
<1>9. CASE RespondAccepted(w)
  BY <1>9 DEF RespondAccepted, SchedulerTypeOK, schedulerVars
<1> QED
  BY <1>1, <1>2, <1>3, <1>4, <1>5, <1>6, <1>7, <1>8, <1>9 DEF CreateStep

\* startWorkerContainer.
LEMMA TypeStart ==
  ASSUME TypeOK, NEW w \in Worker, StartStep(w)
  PROVE  TypeOK'
<1> USE DEF TypeOK, SchedulerTypeOK, Goto, StartPC, schedulerVars, stateVars,
            poolVars, createVars, dockerVars
<1>0. StartFails(w) => /\ start' \in [Worker -> StartPC]
                       /\ term' \in [Worker -> [Caller -> TermPC]]
  <2>1. Starter \in Caller
    BY DEF Caller
  <2> QED
    BY <2>1 DEF StartFails, TermPC
<1>1. CASE StartTransition(w)
  BY <1>1 DEF StartTransition, TransitionTo, Status, StatusStarting
<1>2. CASE PullImage(w)
  <2>1. start' \in [Worker -> StartPC] /\ term' \in [Worker -> [Caller -> TermPC]]
    <3>1. CASE StartFails(w)
      BY <1>0, <3>1
    <3>2. CASE start' = [start EXCEPT ![w] = "launch"] /\ UNCHANGED term
      BY <3>2
    <3> QED
      BY <1>2, <3>1, <3>2 DEF PullImage
  <2> QED
    BY <1>2, <2>1 DEF PullImage
<1>3. CASE LaunchContainer(w)
  BY <1>0, <1>3 DEF LaunchContainer
<1>4. CASE SetContainerID(w)
  BY <1>4 DEF SetContainerID
<1>5. CASE WaitForHealthy(w)
  <2>1. start' \in [Worker -> StartPC] /\ term' \in [Worker -> [Caller -> TermPC]]
    <3>1. CASE StartFails(w)
      BY <1>0, <3>1
    <3>2. CASE start' = [start EXCEPT ![w] = "run"] /\ UNCHANGED term
      BY <3>2
    <3> QED
      BY <1>5, <3>1, <3>2 DEF WaitForHealthy
  <2> QED
    BY <1>5, <2>1 DEF WaitForHealthy
<1>6. CASE StartRunning(w)
  <2>1. /\ start' \in [Worker -> StartPC]
        /\ term' \in [Worker -> [Caller -> TermPC]]
        /\ status' \in [Worker -> Status \union {NoStatus}]
    <3>1. CASE StartFails(w) /\ UNCHANGED status
      BY <1>0, <3>1
    <3>2. CASE /\ TransitionTo(w, StatusRunning) /\ UNCHANGED term
               /\ start' = [start EXCEPT ![w] = "done"]
      BY <3>2 DEF TransitionTo, Status, StatusRunning
    <3> QED
      BY <1>6, <3>1, <3>2 DEF StartRunning
  <2> QED
    BY <1>6, <2>1 DEF StartRunning
<1> QED
  BY <1>1, <1>2, <1>3, <1>4, <1>5, <1>6 DEF StartStep

\* DeleteWorker and terminateWorker.
LEMMA TypeTerm ==
  ASSUME TypeOK, NEW w \in Worker, NEW t \in Caller,
         (t \in Delete /\ DeleteWorker(w, t)) \/ TermStep(w, t)
  PROVE  TypeOK'
<1> USE DEF TypeOK, TermGoto, TermPC, stateVars, poolVars, createVars, dockerVars
<1>1. CASE DeleteWorker(w, t)
  BY <1>1 DEF DeleteWorker, SchedulerTypeOK, schedulerVars
<1>2. CASE TermTransition(w, t)
  BY <1>2 DEF TermTransition, TransitionTo, Status, StatusTerminating,
              SchedulerTypeOK, schedulerVars
<1>3. CASE TermContainer(w, t)
  <2>1. term' \in [Worker -> [Caller -> TermPC]]
    BY <1>3 DEF TermContainer
  <2>2. container' \in [Worker -> {"none", "up", "removed"}] /\ lost' \subseteq Worker
    <3>1. CASE container' = [container EXCEPT ![w] = "removed"] /\ UNCHANGED lost
      BY <3>1
    <3>2. CASE lost' = lost \union {w} /\ UNCHANGED container
      BY <3>2
    <3>3. CASE UNCHANGED dockerVars
      BY <3>3
    <3> QED
      BY <1>3, <3>1, <3>2, <3>3 DEF TermContainer, TerminateContainer
  <2>3. SchedulerTypeOK'
    BY <1>3 DEF TermContainer, SchedulerTypeOK, schedulerVars
  <2> QED
    BY <1>3, <2>1, <2>2, <2>3 DEF TermContainer
<1>4. CASE TermRelease(w, t)
  <2>1. SchedulerTypeOK' /\ unmatched' \subseteq Worker
    BY <1>4, LedgerTypeOK DEF TermRelease, ReleaseGPU, SchedulerTypeOK, schedulerVars
  <2> QED
    BY <1>4, <2>1 DEF TermRelease
<1>5. CASE TermRemove(w, t)
  BY <1>5 DEF TermRemove, RemoveWorker, SchedulerTypeOK, schedulerVars
<1> QED
  BY <1>1, <1>2, <1>3, <1>4, <1>5 DEF TermStep

\* The idle checker and the reports of traffic.
LEMMA TypeIdle ==
  ASSUME TypeOK, IdleInv,
         IdleStep \/ \E w \in Worker : IdleFound(w) \/ ReportTraffic(w)
  PROVE  TypeOK'
<1> USE DEF TypeOK, IdleGoto, IdlePC, stateVars, poolVars, createVars, dockerVars
<1>1. ASSUME NEW w \in Worker, IdleFound(w) PROVE TypeOK'
  <2>1. idle' \in [at: IdlePC, worker: Worker \union {NoWorker}]
    BY <1>1 DEF IdleFound
  <2> QED
    BY <1>1, <2>1 DEF IdleFound, SchedulerTypeOK, schedulerVars
<1>2. CASE IdleLookup
  BY <1>2 DEF IdleLookup, Sleeping, SchedulerTypeOK, schedulerVars
<1>3. CASE IdleContainer
  <2>1. idle' \in [at: IdlePC, worker: Worker \union {NoWorker}]
    BY <1>3 DEF IdleContainer
  <2>2. container' \in [Worker -> {"none", "up", "removed"}] /\ lost' \subseteq Worker
    BY <1>3 DEF IdleContainer, TerminateContainer, IdleInv
  <2> QED
    BY <1>3, <2>1, <2>2 DEF IdleContainer, SchedulerTypeOK, schedulerVars
<1>4. CASE IdleRelease
  <2>1. idle.worker \in Worker
    BY <1>4 DEF IdleRelease, IdleInv
  <2>2. SchedulerTypeOK' /\ unmatched' \subseteq Worker
    BY <1>4, <2>1, LedgerTypeOK DEF IdleRelease, ReleaseGPU, SchedulerTypeOK,
                                    schedulerVars
  <2> QED
    BY <1>4, <2>2 DEF IdleRelease
<1>5. CASE IdleRemove
  <2>1. idle' \in [at: IdlePC, worker: Worker \union {NoWorker}]
    BY <1>5 DEF IdleRemove, Sleeping
  <2> QED
    BY <1>5, <2>1 DEF IdleRemove, RemoveWorker, SchedulerTypeOK, schedulerVars
<1>6. ASSUME NEW w \in Worker, ReportTraffic(w) PROVE TypeOK'
  <2>1. status' \in [Worker -> Status \union {NoStatus}]
    BY <1>6 DEF ReportTraffic, ReportIdle, ReportBusy, TransitionTo, Status,
       StatusRunning, StatusIdle
  <2> QED
    BY <1>6, <2>1 DEF ReportTraffic, ReportIdle, ReportBusy, SchedulerTypeOK, schedulerVars
<1> QED
  BY <1>1, <1>2, <1>3, <1>4, <1>5, <1>6 DEF IdleStep

-----------------------------------------------------------------------------
\* A step leaves alone everything that is kept about w.
Untouched(w) ==
  /\ create[w]' = create[w] /\ choice[w]' = choice[w]
  /\ start[w]' = start[w] /\ term[w]' = term[w]
  /\ status[w]' = status[w] /\ containerID[w]' = containerID[w]
  /\ gpuAssignment[w]' = gpuAssignment[w] /\ container[w]' = container[w]
  /\ w \in workers' <=> w \in workers
  /\ w \in lost' <=> w \in lost
  /\ w \in reaped' <=> w \in reaped

\* What a step does not touch stays right.
LEMMA WorkerFrame ==
  ASSUME NEW w \in Worker, WorkerInv(w), Untouched(w)
  PROVE  WorkerInv(w)'
<1> USE DEF Untouched, WorkerInv
<1>1. CreateInv(w)'
  BY DEF CreateInv, Stored
<1>2. StatusInv(w)'
  BY DEF StatusInv, Stored
<1>3. ContainerInv(w)'
  BY DEF ContainerInv
<1>4. ServingInv(w)'
  BY DEF ServingInv
<1> QED
  BY <1>1, <1>2, <1>3, <1>4

\* A goroutine touches nothing that is kept about other workers.
LEMMA OthersUntouched ==
  ASSUME TypeOK, NEW w \in Worker, NEW v \in Worker, v # w,
         \/ CreateWorker(w) \/ CreateStep(w) \/ StartStep(w)
         \/ \E t \in Caller : (t \in Delete /\ DeleteWorker(w, t)) \/ TermStep(w, t)
         \/ IdleFound(w) \/ ReportTraffic(w)
  PROVE  Untouched(v)
<1> USE DEF stateVars, poolVars, createVars, dockerVars, TypeOK, Untouched
<1>1. CASE CreateWorker(w) \/ CreateStep(w)
  BY <1>1 DEF Goto, CreateWorker, CreateStep, Schedule, ScheduleFound,
     ScheduleExhausted, AddWorkerCheck, AddWorkerStore, AllocateGPU, AssignAndSpawn,
     RespondAccepted
<1>2. CASE StartStep(w)
  BY <1>2 DEF Goto, StartStep, StartTransition, PullImage, LaunchContainer,
     SetContainerID, WaitForHealthy, StartRunning, StartFails, TransitionTo
<1>3. ASSUME NEW t \in Caller,
             (t \in Delete /\ DeleteWorker(w, t)) \/ TermStep(w, t)
      PROVE  Untouched(v)
  BY <1>3 DEF TermGoto, DeleteWorker, TermStep, TermTransition, TermContainer,
     TermRelease, TermRemove, TransitionTo, TerminateContainer, RemoveWorker
<1>4. CASE IdleFound(w) \/ ReportTraffic(w)
  BY <1>4 DEF IdleFound, ReportTraffic, ReportIdle, ReportBusy, TransitionTo
<1> QED
  BY <1>1, <1>2, <1>3, <1>4

\* The idle checker relies on nothing but this of the worker it works on.
LEMMA IdleFrame ==
  ASSUME IdleInv, idle' = idle,
         idle.at # "tick" =>
           LET i == idle.worker IN
             /\ i \in reaped'
             /\ start[i]' = start[i] /\ containerID[i]' = containerID[i]
             /\ status[i]' \in {status[i], StatusRunning, StatusIdle, StatusTerminating}
             /\ \/ container[i]' = container[i] /\ (i \in lost => i \in lost')
                \/ container[i]' # "up" \/ i \in lost'
  PROVE  IdleInv'
BY DEF IdleInv

\* The POST handler.
LEMMA InvCreate ==
  ASSUME ControlInv, NEW w \in Worker, CreateWorker(w) \/ CreateStep(w)
  PROVE  (\A v \in Worker : WorkerInv(v))' /\ IdleInv'
<1> USE DEF stateVars, poolVars, createVars, dockerVars, Goto
<1>1. TypeOK /\ WorkerInv(w) /\ IdleInv
  BY DEF ControlInv
<1>2. ASSUME NEW v \in Worker, v # w PROVE Untouched(v)
  BY <1>1, <1>2, OthersUntouched
<1>3. WorkerInv(w)'
  <2> USE DEF WorkerInv, CreateInv, StatusInv, ContainerInv, ServingInv, Stored
  <2>1. CASE CreateWorker(w) \/ Schedule(w) \/ ScheduleExhausted(w)
    <3>1. /\ create[w] \in {"new", "schedule"}
          /\ create[w]' \in {"new", "schedule", "exhausted"}
          /\ UNCHANGED <<choice, start, term, status, containerID, gpuAssignment,
                         container, workers, lost, reaped>>
      BY <1>1, <2>1 DEF CreateWorker, Schedule, ScheduleExhausted, TypeOK
    <3> QED
      BY <1>1, <3>1
  <2>2. CASE ScheduleFound(w)
    <3>1. /\ create[w] = "schedule" /\ create[w]' = "count"
          /\ choice[w]' \in GPU /\ status[w]' = StatusPending
          /\ UNCHANGED <<start, term, containerID, gpuAssignment, container, workers,
                         lost, reaped>>
      BY <1>1, <2>2 DEF ScheduleFound, TypeOK
    <3> QED
      BY <1>1, <3>1 DEF StatusPending, StatusStarting, StatusRunning, StatusIdle, NoStatus
  <2>3. CASE AddWorkerCheck(w)
    <3>1. /\ create[w] = "count" /\ create[w]' \in {"quota", "store"}
          /\ UNCHANGED <<choice, start, term, status, containerID, gpuAssignment,
                         container, workers, lost, reaped>>
      BY <1>1, <2>3 DEF AddWorkerCheck, TypeOK
    <3> QED
      BY <1>1, <3>1
  <2>4. CASE AddWorkerStore(w)
    <3>1. /\ create[w] = "store" /\ create[w]' = "allocate" /\ w \in workers'
          /\ UNCHANGED <<choice, start, term, status, containerID, gpuAssignment,
                         container, lost, reaped>>
      BY <1>1, <2>4 DEF AddWorkerStore, TypeOK
    <3> QED
      BY <1>1, <3>1
  <2>5. CASE AllocateGPU(w)
    <3>1. /\ create[w] = "allocate" /\ create[w]' = "assign"
          /\ UNCHANGED <<choice, start, term, status, containerID, gpuAssignment,
                         container, workers, lost, reaped>>
      BY <1>1, <2>5 DEF AllocateGPU, TypeOK
    <3> QED
      BY <1>1, <3>1
  <2>6. CASE AssignAndSpawn(w)
    <3>1. /\ create[w] = "assign" /\ create[w]' = "respond" /\ start[w]' = "transition"
          /\ gpuAssignment[w]' = choice[w]
          /\ UNCHANGED <<choice, term, status, containerID, container, workers, lost,
                         reaped>>
      BY <1>1, <2>6 DEF AssignAndSpawn, TypeOK
    <3> QED
      BY <1>1, <3>1
  <2>7. CASE RespondAccepted(w)
    <3>1. /\ create[w] = "respond" /\ create[w]' = "accepted"
          /\ UNCHANGED <<choice, start, term, status, containerID, gpuAssignment,
                         container, workers, lost, reaped>>
      BY <1>1, <2>7 DEF RespondAccepted, TypeOK
    <3> QED
      BY <1>1, <3>1
  <2> QED
    BY <2>1, <2>2, <2>3, <2>4, <2>5, <2>6, <2>7 DEF CreateStep
<1>4. IdleInv'
  <2>1. /\ start[w] # "off" => UNCHANGED <<start, status>>
        /\ UNCHANGED <<idle, containerID, container, lost, reaped>>
    BY <1>1 DEF CreateWorker, CreateStep, Schedule, ScheduleFound, ScheduleExhausted,
       AddWorkerCheck, AddWorkerStore, AllocateGPU, AssignAndSpawn, RespondAccepted,
       WorkerInv, CreateInv
  <2>2. CASE start[w] # "off"
    BY <1>1, <2>1, <2>2, IdleFrame DEF IdleInv
  <2>3. CASE start[w] = "off"
    <3>1. idle.at # "tick" => idle.worker # w /\ idle.worker \in Worker
      BY <1>1, <2>3 DEF IdleInv, TypeOK
    <3> QED
      BY <1>1, <1>2, <2>1, <3>1, IdleFrame DEF IdleInv, Untouched
  <2> QED
    BY <2>2, <2>3
<1> QED
  BY <1>2, <1>3, <1>4, WorkerFrame DEF ControlInv

\* startWorkerContainer.  It fails over to terminateWorker, which then answers
\* for the container, only after storing the id; it becomes RUNNING only if
\* nobody has made the worker TERMINATING, so that the worker is still
\* registered.
LEMMA InvStart ==
  ASSUME ControlInv, NEW w \in Worker, StartStep(w)
  PROVE  (\A v \in Worker : WorkerInv(v))' /\ IdleInv'
<1> USE DEF stateVars, poolVars, createVars, dockerVars, Goto
<1>1. TypeOK /\ WorkerInv(w) /\ IdleInv /\ Starter \in Caller
  BY DEF ControlInv, Caller
<1>2. ASSUME NEW v \in Worker, v # w PROVE Untouched(v)
  BY <1>1, <1>2, OthersUntouched
<1>3. StartFails(w) =>
        /\ start[w]' = "done" /\ term[w][Starter]' = "transition"
        /\ \A t \in Caller : t # Starter => term[w][t]' = term[w][t]
  BY <1>1 DEF StartFails, TypeOK
<1>4. WorkerInv(w)'
  <2> USE DEF WorkerInv, CreateInv, StatusInv, ContainerInv, ServingInv, Stored
  <2>1. CASE StartTransition(w)
    <3>1. /\ start[w] = "transition"
          /\ \/ /\ status[w] = StatusPending /\ status[w]' = StatusStarting
                /\ start[w]' = "pull"
             \/ /\ status[w] # StatusPending /\ status[w]' = status[w]
                /\ start[w]' = "done"
          /\ UNCHANGED <<create, choice, term, containerID, gpuAssignment, container,
                         workers, lost, reaped>>
      BY <1>1, <2>1 DEF StartTransition, CanTransition, TransitionTo, isValidTransition,
         validTransitions, TypeOK, StatusPending, StatusStarting, StatusRunning,
         StatusIdle, StatusTerminating
    <3> QED
      BY <1>1, <3>1 DEF StatusPending, StatusStarting, StatusRunning, StatusIdle,
                        StatusTerminating, NoStatus
  <2>2. CASE PullImage(w)
    <3>1. /\ start[w] = "pull"
          /\ (start[w]' = "launch" /\ UNCHANGED term) \/ StartFails(w)
          /\ UNCHANGED <<create, choice, status, containerID, gpuAssignment, container,
                         workers, lost, reaped>>
      BY <1>1, <2>2 DEF PullImage, TypeOK
    <3> QED
      BY <1>1, <1>3, <3>1 DEF StatusPending, StatusStarting, StatusTerminating
  <2>3. CASE LaunchContainer(w)
    <3>1. /\ start[w] = "launch"
          /\ \/ /\ start[w]' = "setID" /\ container[w]' = "up" /\ UNCHANGED <<term, lost>>
             \/ StartFails(w) /\ UNCHANGED <<container, lost>>
             \/ StartFails(w) /\ w \in lost'
          /\ UNCHANGED <<create, choice, status, containerID, gpuAssignment,
                         workers, reaped>>
      BY <1>1, <2>3 DEF LaunchContainer, TypeOK
    <3> QED
      BY <1>1, <1>3, <3>1 DEF StatusPending, StatusStarting, StatusRunning, StatusIdle,
                              StatusTerminating
  <2>4. CASE SetContainerID(w)
    <3>1. /\ start[w] = "setID" /\ start[w]' = "health" /\ containerID[w]' = TRUE
          /\ UNCHANGED <<create, choice, term, status, gpuAssignment, container,
                         workers, lost, reaped>>
      BY <1>1, <2>4 DEF SetContainerID, TypeOK
    <3> QED
      BY <1>1, <3>1
  <2>5. CASE WaitForHealthy(w)
    <3>1. /\ start[w] = "health"
          /\ (start[w]' = "run" /\ UNCHANGED term) \/ StartFails(w)
          /\ UNCHANGED <<create, choice, status, containerID, gpuAssignment, container,
                         workers, lost, reaped>>
      BY <1>1, <2>5 DEF WaitForHealthy, TypeOK
    <3> QED
      BY <1>1, <1>3, <3>1 DEF StatusPending, StatusStarting, StatusTerminating
  <2>6. CASE StartRunning(w)
    <3>1. /\ start[w] = "run"
          /\ \/ /\ status[w] = StatusStarting /\ status[w]' = StatusRunning
                /\ start[w]' = "done" /\ UNCHANGED term
             \/ status[w] # StatusStarting /\ StartFails(w) /\ UNCHANGED status
          /\ UNCHANGED <<create, choice, containerID, gpuAssignment, container,
                         workers, lost, reaped>>
      BY <1>1, <2>6 DEF StartRunning, CanTransition, TransitionTo, isValidTransition,
         validTransitions, TypeOK, StatusPending, StatusStarting, StatusRunning,
         StatusIdle, StatusTerminating
    <3> QED
      BY <1>1, <1>3, <3>1 DEF StatusPending, StatusStarting, StatusRunning, StatusIdle,
                              StatusTerminating, NoStatus
  <2> QED
    BY <2>1, <2>2, <2>3, <2>4, <2>5, <2>6 DEF StartStep
<1>5. IdleInv'
  <2>1. start[w] # "done" /\ UNCHANGED <<idle, reaped>>
    BY DEF StartStep, StartTransition, PullImage, LaunchContainer, SetContainerID,
           WaitForHealthy, StartRunning
  <2>2. idle.at # "tick" => idle.worker # w /\ idle.worker \in Worker
    BY <1>1, <2>1 DEF IdleInv, TypeOK
  <2> QED
    BY <1>1, <1>2, <2>1, <2>2, IdleFrame DEF IdleInv, Untouched
<1> QED
  BY <1>2, <1>4, <1>5, WorkerFrame DEF ControlInv

\* DeleteWorker and terminateWorker.  After its first step the worker is
\* TERMINATING, so that nobody will make it RUNNING; if the container's id is
\* not there yet, startWorkerContainer will find that out and terminate it.
LEMMA InvTerm ==
  ASSUME ControlInv, NEW w \in Worker, NEW t \in Caller,
         (t \in Delete /\ DeleteWorker(w, t)) \/ TermStep(w, t)
  PROVE  (\A v \in Worker : WorkerInv(v))' /\ IdleInv'
<1> USE DEF stateVars, poolVars, createVars, dockerVars, TermGoto
<1>1. TypeOK /\ WorkerInv(w) /\ IdleInv
  BY DEF ControlInv
<1>2. ASSUME NEW v \in Worker, v # w PROVE Untouched(v)
  BY <1>1, <1>2, OthersUntouched
<1>3. \A u \in Caller : u # t => term[w][u]' = term[w][u]
  BY <1>1 DEF DeleteWorker, TermStep, TermTransition, TermContainer, TermRelease,
     TermRemove, TypeOK
<1>4. WorkerInv(w)'
  <2> USE DEF WorkerInv, CreateInv, StatusInv, ContainerInv, ServingInv, Stored
  <2>1. CASE DeleteWorker(w, t)
    <3>1. /\ w \in workers /\ term[w][t] = "off" /\ term[w][t]' = "transition"
          /\ UNCHANGED <<create, choice, start, status, containerID, gpuAssignment,
                         container, workers, lost, reaped>>
      BY <1>1, <2>1 DEF DeleteWorker, TypeOK
    <3> QED
      BY <1>1, <1>3, <3>1
  <2>2. CASE TermTransition(w, t)
    <3>1. /\ term[w][t] = "transition" /\ term[w][t]' = "container"
          /\ status[w]' = StatusTerminating
          /\ UNCHANGED <<create, choice, start, containerID, gpuAssignment,
                         container, workers, lost, reaped>>
      BY <1>1, <2>2 DEF TermTransition, CanTransition, TransitionTo, isValidTransition,
         validTransitions, TypeOK, Status, StatusPending, StatusStarting, StatusRunning,
         StatusIdle, StatusTerminating
    <3> QED
      BY <1>1, <1>3, <3>1 DEF StatusPending, StatusStarting, StatusRunning, StatusIdle,
                              StatusTerminating, NoStatus
  <2>3. CASE TermContainer(w, t)
    <3>1. /\ term[w][t] = "container" /\ term[w][t]' = "release"
          /\ \/ containerID[w] /\ container[w]' = "removed" /\ UNCHANGED lost
             \/ w \in lost' /\ UNCHANGED container
             \/ ~(containerID[w] /\ container[w] = "up") /\ UNCHANGED <<container, lost>>
          /\ UNCHANGED <<create, choice, start, status, containerID, gpuAssignment,
                         workers, reaped>>
      BY <1>1, <2>3 DEF TermContainer, TerminateContainer, TypeOK
    <3>2. status[w] = StatusTerminating
      BY <1>1, <3>1
    <3> QED
      BY <1>1, <1>3, <3>1, <3>2 DEF StatusPending, StatusStarting, StatusRunning,
                                    StatusIdle, StatusTerminating, NoStatus
  <2>4. CASE TermRelease(w, t)
    <3>1. /\ term[w][t] = "release" /\ term[w][t]' = "remove"
          /\ UNCHANGED <<create, choice, start, status, containerID, gpuAssignment,
                         container, workers, lost, reaped>>
      BY <1>1, <2>4 DEF TermRelease, TypeOK
    <3> QED
      BY <1>1, <1>3, <3>1
  <2>5. CASE TermRemove(w, t)
    <3>1. /\ term[w][t] = "remove" /\ term[w][t]' = "done" /\ w \notin workers'
          /\ UNCHANGED <<create, choice, start, status, containerID, gpuAssignment,
                         container, lost, reaped>>
      BY <1>1, <2>5 DEF TermRemove, RemoveWorker, TypeOK
    <3>2. status[w] = StatusTerminating
      BY <1>1, <3>1
    <3> QED
      BY <1>1, <1>3, <3>1, <3>2 DEF StatusPending, StatusStarting, StatusRunning,
                                    StatusIdle, StatusTerminating, NoStatus
  <2> QED
    BY <2>1, <2>2, <2>3, <2>4, <2>5 DEF TermStep
<1>5. IdleInv'
  <2>1. /\ UNCHANGED <<idle, reaped, start, containerID>>
        /\ status[w]' \in {status[w], StatusTerminating}
        /\ \/ UNCHANGED container /\ lost \subseteq lost'
           \/ container[w]' # "up"
    BY <1>1 DEF DeleteWorker, TermStep, TermTransition, TermContainer, TermRelease,
       TermRemove, TransitionTo, TerminateContainer, TypeOK
  <2>2. idle.at # "tick" => idle.worker \in Worker
    BY <1>1 DEF IdleInv, TypeOK
  <2> QED
    BY <1>1, <1>2, <2>1, <2>2, IdleFrame DEF IdleInv, Untouched
<1> QED
  BY <1>2, <1>4, <1>5, WorkerFrame DEF ControlInv

\* The idle checker removes the worker it works on from the registry when its
\* container is gone or lost.
LEMMA InvIdleStep ==
  ASSUME ControlInv, IdleStep
  PROVE  (\A v \in Worker : WorkerInv(v))' /\ IdleInv'
<1>0. PICK w : w = idle.worker
  OBVIOUS
<1> USE DEF stateVars, poolVars, createVars, dockerVars, IdleGoto
<1>1. /\ TypeOK /\ IdleInv /\ idle.at # "tick"
      /\ w \in Worker /\ WorkerInv(w)
      /\ w \in reaped /\ start[w] = "done" /\ containerID[w]
  BY <1>0 DEF ControlInv, IdleStep, IdleLookup, IdleContainer, IdleRelease, IdleRemove,
         IdleInv, TypeOK
<1>2. ASSUME NEW v \in Worker, v # w PROVE Untouched(v)
  BY <1>0, <1>1, <1>2 DEF IdleStep, IdleLookup, IdleContainer, IdleRelease, IdleRemove,
     TerminateContainer, RemoveWorker, TypeOK, Untouched
<1>3. CASE IdleLookup \/ IdleRelease
  <2>1. Untouched(w)
    BY <1>0, <1>3 DEF IdleLookup, IdleRelease, Untouched
  <2>2. IdleInv'
    <3>1. UNCHANGED <<reaped, start, containerID, status, container, lost>>
      BY <1>3 DEF IdleLookup, IdleRelease
    <3>2. CASE IdleLookup
      BY <1>0, <1>1, <3>1, <3>2 DEF IdleLookup, IdleInv, Sleeping, TypeOK
    <3>3. CASE IdleRelease
      BY <1>0, <1>1, <3>1, <3>3 DEF IdleRelease, IdleInv, TypeOK
    <3> QED
      BY <1>3, <3>2, <3>3
  <2> QED
    BY <1>2, <2>1, <2>2, WorkerFrame DEF ControlInv
<1>4. CASE IdleContainer
  <2>1. /\ \/ container[w]' = "removed" /\ UNCHANGED lost
           \/ w \in lost' /\ UNCHANGED container
           \/ container[w] # "up" /\ UNCHANGED <<container, lost>>
        /\ UNCHANGED <<create, choice, start, term, status, containerID, gpuAssignment,
                       workers, reaped>>
    BY <1>0, <1>1, <1>4 DEF IdleContainer, TerminateContainer, TypeOK
  <2>2. WorkerInv(w)'
    BY <1>1, <2>1 DEF WorkerInv, CreateInv, StatusInv, ContainerInv, ServingInv, Stored
  <2>3. IdleInv'
    BY <1>0, <1>1, <1>4, <2>1 DEF IdleContainer, IdleInv, TypeOK
  <2> QED
    BY <1>2, <2>2, <2>3, WorkerFrame DEF ControlInv
<1>5. CASE IdleRemove
  <2>1. /\ idle.at = "remove" /\ idle'.at = "tick"
        /\ w \notin workers'
        /\ UNCHANGED <<create, choice, start, term, status, containerID, gpuAssignment,
                       container, lost, reaped>>
    BY <1>0, <1>1, <1>5 DEF IdleRemove, RemoveWorker, Sleeping, TypeOK
  <2>2. /\ container[w] # "up" \/ w \in lost
        /\ status[w] \in {StatusRunning, StatusIdle, StatusTerminating}
    BY <1>0, <1>1, <2>1 DEF IdleInv
  <2>3. WorkerInv(w)'
    BY <1>1, <2>1, <2>2 DEF WorkerInv, CreateInv, StatusInv, ContainerInv, ServingInv,
       Stored, StatusPending, StatusStarting, StatusRunning, StatusIdle,
       StatusTerminating, NoStatus
  <2>4. IdleInv'
    BY <2>1 DEF IdleInv
  <2> QED
    BY <1>2, <2>3, <2>4, WorkerFrame DEF ControlInv
<1> QED
  BY <1>3, <1>4, <1>5 DEF IdleStep

\* The idle checker finds a worker, or one reports its traffic.
LEMMA InvIdleFound ==
  ASSUME ControlInv, NEW w \in Worker, IdleFound(w) \/ ReportTraffic(w)
  PROVE  (\A v \in Worker : WorkerInv(v))' /\ IdleInv'
<1> USE DEF stateVars, poolVars, createVars, dockerVars
<1>1. TypeOK /\ WorkerInv(w) /\ IdleInv
  BY DEF ControlInv
<1>2. ASSUME NEW v \in Worker, v # w PROVE Untouched(v)
  BY <1>1, <1>2, OthersUntouched
<1>3. /\ status[w] \in {StatusRunning, StatusIdle}
      /\ start[w] = "done" /\ containerID[w]
  BY <1>1 DEF IdleFound, ReportTraffic, ReportIdle, ReportBusy, WorkerInv, CreateInv,
     StatusInv, ServingInv,
     TypeOK, StartPC, StatusPending, StatusStarting, StatusRunning, StatusIdle,
     StatusTerminating, NoStatus
<1>4. CASE IdleFound(w)
  <2>1. /\ idle' = [at |-> "lookup", worker |-> w] /\ w \in reaped'
        /\ UNCHANGED <<create, choice, start, term, status, containerID, gpuAssignment,
                       container, workers, lost>>
    BY <1>4 DEF IdleFound
  <2>2. WorkerInv(w)'
    BY <1>1, <2>1 DEF WorkerInv, CreateInv, StatusInv, ContainerInv, ServingInv, Stored
  <2>3. IdleInv'
    BY <1>3, <2>1 DEF IdleInv
  <2> QED
    BY <1>2, <2>2, <2>3, WorkerFrame DEF ControlInv
<1>5. CASE ReportTraffic(w)
  <2>1. /\ status[w]' \in {StatusRunning, StatusIdle}
        /\ UNCHANGED <<create, choice, start, term, containerID, gpuAssignment,
                       container, workers, lost, reaped, idle>>
    BY <1>1, <1>5 DEF ReportTraffic, ReportIdle, ReportBusy, TransitionTo, TypeOK
  <2>2. WorkerInv(w)'
    BY <1>1, <1>3, <2>1 DEF WorkerInv, CreateInv, StatusInv, ContainerInv, ServingInv,
       Stored, StatusPending, StatusStarting, StatusRunning, StatusIdle,
       StatusTerminating, NoStatus
  <2>3. IdleInv'
    <3>1. idle.at # "tick" => idle.worker \in Worker
      BY <1>1 DEF IdleInv, TypeOK
    <3> QED
      BY <1>1, <1>2, <2>1, <3>1, IdleFrame DEF IdleInv, Untouched
  <2> QED
    BY <1>2, <2>2, <2>3, WorkerFrame DEF ControlInv
<1> QED
  BY <1>4, <1>5

-----------------------------------------------------------------------------
\* The process after startup satisfies the inductive invariant.
LEMMA ControlInit == Init => ControlInv
<1> SUFFICES ASSUME Init PROVE ControlInv
  OBVIOUS
<1>1. TypeOK
  BY TypeInit
<1>2. ASSUME NEW w \in Worker PROVE WorkerInv(w)
  BY DEF Init, WorkerInv, CreateInv, StatusInv, ContainerInv, ServingInv, Stored,
     NoStatus, StatusPending, StatusStarting, StatusRunning, StatusIdle,
     StatusTerminating
<1>3. IdleInv
  BY DEF Init, IdleInv, Sleeping
<1> QED
  BY <1>1, <1>2, <1>3 DEF ControlInv

\* Every step preserves the inductive invariant.
LEMMA ControlNext == ControlInv /\ [Next]_vars => ControlInv'
<1> SUFFICES ASSUME ControlInv, [Next]_vars PROVE ControlInv'
  OBVIOUS
<1>0. TypeOK /\ IdleInv /\ \A w \in Worker : CreateInv(w)
  BY DEF ControlInv, WorkerInv
<1>1. ASSUME NEW w \in Worker, CreateWorker(w) \/ CreateStep(w) PROVE ControlInv'
  BY <1>0, <1>1, TypeCreate, InvCreate DEF ControlInv
<1>2. ASSUME NEW w \in Worker, StartStep(w) PROVE ControlInv'
  BY <1>0, <1>2, TypeStart, InvStart DEF ControlInv
<1>3. ASSUME NEW w \in Worker, NEW t \in Caller,
             (t \in Delete /\ DeleteWorker(w, t)) \/ TermStep(w, t)
      PROVE  ControlInv'
  BY <1>0, <1>3, TypeTerm, InvTerm DEF ControlInv
<1>4. ASSUME NEW w \in Worker, IdleFound(w) \/ ReportTraffic(w) PROVE ControlInv'
  BY <1>0, <1>4, TypeIdle, InvIdleFound DEF ControlInv
<1>5. CASE IdleStep
  BY <1>0, <1>5, TypeIdle, InvIdleStep DEF ControlInv
<1>6. CASE UNCHANGED vars
  <2> USE <1>6 DEF vars, stateVars, poolVars, createVars, dockerVars
  <2>1. TypeOK'
    BY <1>0 DEF TypeOK, SchedulerTypeOK, schedulerVars
  <2>2. \A w \in Worker : Untouched(w)
    BY DEF Untouched
  <2>3. (\A w \in Worker : WorkerInv(w))'
    BY <2>2, WorkerFrame DEF ControlInv
  <2>4. IdleInv'
    BY <1>0, IdleFrame DEF IdleInv
  <2> QED
    BY <2>1, <2>3, <2>4 DEF ControlInv
<1> QED
  BY <1>1, <1>2, <1>3, <1>4, <1>5, <1>6 DEF Next, Caller

\* The inductive invariant of the control plane.
THEOREM ControlInvariant == Spec => []ControlInv
BY ControlInit, ControlNext, PTL DEF Spec

\* Every variable has its type in every reachable state.
THEOREM TypeCorrect == Spec => []TypeOK
<1>1. ControlInv => TypeOK
  BY DEF ControlInv
<1> QED
  BY <1>1, ControlInvariant, PTL

\* No container survives its worker, however many DELETEs race with its start
\* and with the idle checker, unless a Docker call failed.
THEOREM NoOrphanContainerTheorem == Spec => []NoOrphanContainer
<1>1. ControlInv => NoOrphanContainer
  BY DEF ControlInv, WorkerInv, ContainerInv, NoOrphanContainer, Settled
<1> QED
  BY <1>1, ControlInvariant, PTL

\* A worker reported as RUNNING or IDLE is registered and has its GPU and its
\* container, until the idle checker decides to terminate it.
THEOREM ServingIsBackedTheorem == Spec => []ServingIsBacked
<1>1. ControlInv => ServingIsBacked
  <2> SUFFICES ASSUME ControlInv, NEW w \in Worker, w \notin reaped,
                      status[w] \in {StatusRunning, StatusIdle}
               PROVE  /\ w \in workers /\ gpuAssignment[w] # NoGPU
                      /\ containerID[w] /\ container[w] = "up"
    BY DEF ServingIsBacked
  <2>1. WorkerInv(w)
    BY DEF ControlInv
  <2>2. w \in workers /\ containerID[w] /\ container[w] = "up"
    BY <2>1 DEF WorkerInv, ServingInv
  <2>3. start[w] # "off"
    BY <2>1, <2>2 DEF WorkerInv, ContainerInv
  <2>4. gpuAssignment[w] \in GPU
    BY <2>1, <2>3 DEF WorkerInv, CreateInv
  <2> QED
    BY <2>2, <2>4, ControlPlaneAssumption
<1> QED
  BY <1>1, ControlInvariant, PTL

\* Allocate and Release are the only steps that touch the ledger.
LEMMA LedgerSteps ==
  ASSUME ControlInv, [Next]_vars
  PROVE  \/ \E w \in Worker : AllocateGPU(w) \/ ReleaseGPU(w)
         \/ UNCHANGED <<allocatedVRAM, activeWorkers, unmatched>>
<1> DEFINE LedgerStep == \/ \E w \in Worker : AllocateGPU(w) \/ ReleaseGPU(w)
                         \/ UNCHANGED <<allocatedVRAM, activeWorkers, unmatched>>
<1> USE DEF schedulerVars
<1>1. ASSUME NEW w \in Worker, Schedule(w) \/ ScheduleFound(w) \/ ScheduleExhausted(w)
      PROVE  LedgerStep
  BY <1>1 DEF Schedule, ScheduleFound, ScheduleExhausted, ScanGPU, CompareGPU,
     ScheduleReturns, ScheduleReturnsNil, EndSchedule, ledgerVars
<1>2. ASSUME NEW w \in Worker, CreateWorker(w) \/ CreateStep(w) PROVE LedgerStep
  BY <1>1, <1>2 DEF CreateWorker, CreateStep, AddWorkerCheck, AddWorkerStore,
     AssignAndSpawn, RespondAccepted
<1>3. ASSUME NEW w \in Worker, StartStep(w) PROVE LedgerStep
  BY <1>3 DEF StartStep, StartTransition, PullImage, LaunchContainer, SetContainerID,
     WaitForHealthy, StartRunning
<1>4. ASSUME NEW w \in Worker, NEW t \in Caller,
             (t \in Delete /\ DeleteWorker(w, t)) \/ TermStep(w, t)
      PROVE  LedgerStep
  BY <1>4 DEF DeleteWorker, TermStep, TermTransition, TermContainer, TermRelease,
     TermRemove
<1>5. CASE IdleStep
  <2>1. IdleRelease => idle.worker \in Worker
    BY DEF IdleRelease, IdleGoto, ControlInv, IdleInv, TypeOK
  <2> QED
    BY <1>5, <2>1 DEF IdleStep, IdleLookup, IdleContainer, IdleRelease, IdleRemove
<1>6. ASSUME NEW w \in Worker, IdleFound(w) \/ ReportTraffic(w) PROVE LedgerStep
  BY <1>6 DEF IdleFound, ReportTraffic, ReportIdle, ReportBusy
<1>7. CASE UNCHANGED vars
  BY <1>7 DEF vars
<1> QED
  BY <1>2, <1>3, <1>4, <1>5, <1>6, <1>7 DEF Next, Caller

-----------------------------------------------------------------------------
\* What a step does not touch, and does not allocate, stays freed.
LEMMA FreesFrame ==
  ASSUME NEW w \in Worker, FreesInv(w), Untouched(w),
         \A g \in GPU : w \in activeWorkers'[g] => w \in activeWorkers[g]
  PROVE  FreesInv(w)'
BY DEF FreesInv, Freed, LaunchUnderWay, Untouched

\* Release takes nobody else off a list, and w off the list it is on if its
\* assignment can be read.
LEMMA ReleaseFrees ==
  ASSUME TypeOK, NEW w \in Worker, FreesInv(w), ReleaseGPU(w)
  PROVE  /\ \A v \in Worker, g \in GPU : v \in activeWorkers'[g] => v \in activeWorkers[g]
         /\ start[w] # "off" => Freed(w)'
<1>1. CASE gpuAssignment[w] = NoGPU
  BY <1>1, ControlPlaneAssumption
     DEF ReleaseGPU, schedulerVars, FreesInv, Freed, TypeOK
<1>2. CASE gpuAssignment[w] # NoGPU
  <2> DEFINE a == gpuAssignment[w]
  <2>1. activeWorkers' = [activeWorkers EXCEPT ![a] = @ \ {w}]
    BY <1>2 DEF ReleaseGPU, Release
  <2>2. activeWorkers \in [GPU -> SUBSET Worker] /\ a \in GPU
    BY <1>2 DEF TypeOK, SchedulerTypeOK
  <2>3. \A g \in GPU : activeWorkers'[g] = IF g = a THEN activeWorkers[a] \ {w}
                                                    ELSE activeWorkers[g]
    BY <2>1, <2>2
  <2>4. start[w] # "off" => a = choice[w]
    BY DEF FreesInv
  <2> HIDE DEF a
  <2> QED
    BY <2>3, <2>4 DEF FreesInv, Freed
<1> QED
  BY <1>1, <1>2

\* The POST handler allocates before the launch is under way.
LEMMA FreesCreate ==
  ASSUME ControlInv, ReleasesInv, NEW w \in Worker, CreateWorker(w) \/ CreateStep(w)
  PROVE  ReleasesInv'
<1> USE DEF stateVars, poolVars, createVars, dockerVars, Goto
<1>1. TypeOK /\ SchedulerTypeOK /\ WorkerInv(w) /\ IdleInv /\ FreesInv(w)
  BY DEF ControlInv, ReleasesInv, TypeOK
<1>2. /\ \A v \in Worker, g \in GPU :
           v # w => (v \in activeWorkers'[g] => v \in activeWorkers[g])
      /\ idle' = idle
  BY <1>1 DEF CreateWorker, CreateStep, Schedule, ScheduleFound, ScheduleExhausted,
     AddWorkerCheck, AddWorkerStore, AllocateGPU, AssignAndSpawn, RespondAccepted,
     ScanGPU, CompareGPU, ScheduleReturns, ScheduleReturnsNil, EndSchedule, ledgerVars,
     schedulerVars, AllocateSucceeds, AllocateFails, SchedulerTypeOK
<1>3. FreesInv(w)'
  <2> USE DEF FreesInv, Freed, LaunchUnderWay, WorkerInv, CreateInv, ContainerInv
  <2>1. CASE CreateWorker(w) \/ Schedule(w) \/ ScheduleExhausted(w) \/ ScheduleFound(w)
    <3>1. /\ create[w] \in {"new", "schedule"}
          /\ UNCHANGED <<activeWorkers, start, term, gpuAssignment, containerID, workers>>
      BY <2>1 DEF CreateWorker, Schedule, ScheduleFound, ScheduleExhausted, ScanGPU,
         CompareGPU, ScheduleReturns, ScheduleReturnsNil, EndSchedule, ledgerVars,
         schedulerVars
    <3> QED
      BY <1>1, <3>1
  <2>2. CASE AddWorkerCheck(w) \/ AddWorkerStore(w)
    <3>1. /\ create[w] \in {"count", "store"}
          /\ UNCHANGED <<activeWorkers, start, term, gpuAssignment, containerID>>
      BY <2>2 DEF AddWorkerCheck, AddWorkerStore, schedulerVars
    <3> QED
      BY <1>1, <3>1
  <2>3. CASE AllocateGPU(w)
    <3>1. /\ create[w] = "allocate" /\ create'[w] = "assign"
          /\ \A g \in GPU :
               w \in activeWorkers'[g] => w \in activeWorkers[g] \/ g = choice[w]
          /\ UNCHANGED <<choice, start, term, gpuAssignment, containerID, workers>>
      BY <1>1, <2>3 DEF AllocateGPU, AllocateSucceeds, AllocateFails, schedulerVars,
         SchedulerTypeOK, TypeOK
    <3> QED
      BY <1>1, <3>1
  <2>4. CASE AssignAndSpawn(w)
    <3>1. /\ create[w] = "assign" /\ create'[w] = "respond"
          /\ gpuAssignment'[w] = choice[w] /\ start'[w] = "transition"
          /\ UNCHANGED <<activeWorkers, choice, term, containerID, workers>>
      BY <1>1, <2>4 DEF AssignAndSpawn, schedulerVars, TypeOK
    <3> QED
      BY <1>1, <3>1
  <2>5. CASE RespondAccepted(w)
    <3>1. /\ create[w] = "respond" /\ create'[w] = "accepted"
          /\ UNCHANGED <<activeWorkers, choice, start, term, gpuAssignment, containerID,
                         workers>>
      BY <1>1, <2>5 DEF RespondAccepted, schedulerVars, TypeOK
    <3> QED
      BY <1>1, <3>1
  <2> QED
    BY <2>1, <2>2, <2>3, <2>4, <2>5 DEF CreateStep
<1>4. ASSUME NEW v \in Worker, v # w PROVE FreesInv(v)'
  BY <1>1, <1>2, <1>4, FreesFrame, OthersUntouched DEF ReleasesInv
<1>5. idle.at = "remove" => (idle.worker \in Worker /\ idle.worker # w) \/ start[w] # "off"
  BY <1>1 DEF IdleInv, TypeOK
<1>6. start[w] # "off" => UNCHANGED activeWorkers
  BY <1>1 DEF WorkerInv, CreateInv, CreateWorker, CreateStep, Schedule, ScheduleFound,
     ScheduleExhausted, AddWorkerCheck, AddWorkerStore, AllocateGPU, AssignAndSpawn,
     RespondAccepted, schedulerVars
<1>7. (idle.at = "remove" => Freed(idle.worker))'
  BY <1>2, <1>5, <1>6 DEF ReleasesInv, Freed
<1> QED
  BY <1>3, <1>4, <1>7 DEF ReleasesInv

\* startWorkerContainer gets past its first transition only if the worker is
\* PENDING, and then no terminateWorker has come to Release.
LEMMA FreesStart ==
  ASSUME ControlInv, ReleasesInv, NEW w \in Worker, StartStep(w)
  PROVE  ReleasesInv'
<1> USE DEF stateVars, poolVars, createVars, dockerVars, Goto
<1>1. TypeOK /\ WorkerInv(w) /\ FreesInv(w) /\ Starter \in Caller
  BY DEF ControlInv, ReleasesInv, Caller
<1>2. /\ UNCHANGED <<activeWorkers, create, choice, gpuAssignment, workers, idle>>
      /\ start[w] # "off"
  BY DEF StartStep, StartTransition, PullImage, LaunchContainer, SetContainerID,
     WaitForHealthy, StartRunning, schedulerVars
<1>3. \A t \in Caller : term'[w][t] \in {"remove", "done"} => term[w][t] = term'[w][t]
  BY <1>1 DEF StartStep, StartTransition, PullImage, LaunchContainer, SetContainerID,
     WaitForHealthy, StartRunning, StartFails, TypeOK
<1>4. FreesInv(w)'
  <2>1. CASE StartTransition(w)
    <3>1. \/ status[w] = StatusPending
          \/ start'[w] = "done" /\ UNCHANGED containerID
      BY <1>1, <2>1 DEF StartTransition, CanTransition, isValidTransition,
         validTransitions, TypeOK, StatusPending, StatusStarting, StatusRunning,
         StatusIdle, StatusTerminating
    <3>2. ~LaunchUnderWay(w)' \/ status[w] = StatusPending
      BY <1>1, <2>1, <3>1 DEF StartTransition, LaunchUnderWay, WorkerInv, ContainerInv
    <3>3. status[w] = StatusPending =>
            /\ w \in workers
            /\ \A t \in Caller : term[w][t] \notin {"remove", "done"}
      BY <1>1, <1>2 DEF WorkerInv, StatusInv, CreateInv, Stored, StatusPending,
         StatusTerminating
    <3> QED
      BY <1>1, <1>2, <1>3, <3>2, <3>3 DEF FreesInv, Freed
  <2>2. CASE ~StartTransition(w)
    <3>1. LaunchUnderWay(w)
      BY <2>2 DEF StartStep, PullImage, LaunchContainer, SetContainerID, WaitForHealthy,
         StartRunning, LaunchUnderWay
    <3> QED
      BY <1>1, <1>2, <1>3, <3>1 DEF FreesInv, Freed
  <2> QED
    BY <2>1, <2>2
<1>5. ASSUME NEW v \in Worker, v # w PROVE FreesInv(v)'
  BY <1>1, <1>2, <1>5, FreesFrame, OthersUntouched DEF ReleasesInv
<1> QED
  BY <1>2, <1>4, <1>5 DEF ReleasesInv, Freed

\* terminateWorker releases before it removes.
LEMMA FreesTerm ==
  ASSUME ControlInv, ReleasesInv, NEW w \in Worker, NEW t \in Caller,
         (t \in Delete /\ DeleteWorker(w, t)) \/ TermStep(w, t)
  PROVE  ReleasesInv'
<1> USE DEF stateVars, poolVars, createVars, dockerVars
<1>1. TypeOK /\ WorkerInv(w) /\ FreesInv(w)
  BY DEF ControlInv, ReleasesInv
<1>2. UNCHANGED <<create, choice, start, gpuAssignment, containerID, idle>>
  BY DEF DeleteWorker, TermStep, TermTransition, TermContainer, TermRelease, TermRemove
<1>3. /\ \A v \in Worker, g \in GPU : v \in activeWorkers'[g] => v \in activeWorkers[g]
      /\ TermRelease(w, t) /\ start[w] # "off" => Freed(w)'
  BY <1>1, ReleaseFrees DEF DeleteWorker, TermStep, TermTransition, TermContainer,
     TermRelease, TermRemove, schedulerVars
<1>4. LaunchUnderWay(w) => start[w] # "off"
  BY <1>1 DEF LaunchUnderWay, WorkerInv, ContainerInv
<1>5. FreesInv(w)'
  <2>1. \A c \in Caller : term'[w][c] \in {"remove", "done"} =>
          term[w][c] \in {"remove", "done"} \/ TermRelease(w, t)
    BY <1>1 DEF DeleteWorker, TermStep, TermTransition, TermContainer, TermRelease,
       TermRemove, TermGoto, TypeOK
  <2>2. w \notin workers' => w \notin workers \/ term[w][t] = "remove"
    BY DEF DeleteWorker, TermStep, TermTransition, TermContainer, TermRelease,
       TermRemove, TermGoto
  <2>3. /\ LaunchUnderWay(w)
        /\ w \notin workers \/ \E c \in Caller : term[w][c] \in {"remove", "done"}
        => Freed(w)'
    BY <1>1, <1>3 DEF FreesInv, Freed
  <2> QED
    BY <1>1, <1>2, <1>3, <1>4, <2>1, <2>2, <2>3 DEF FreesInv, LaunchUnderWay, Freed
<1>6. ASSUME NEW v \in Worker, v # w PROVE FreesInv(v)'
  BY <1>1, <1>3, <1>6, FreesFrame, OthersUntouched DEF ReleasesInv
<1>7. (idle.at = "remove" => Freed(idle.worker))'
  BY <1>2, <1>3 DEF ReleasesInv, Freed, ControlInv, IdleInv, TypeOK
<1> QED
  BY <1>5, <1>6, <1>7 DEF ReleasesInv

\* So does the idle callback, of a worker whose launch is over.
LEMMA FreesIdle ==
  ASSUME ControlInv, ReleasesInv, IdleStep
  PROVE  ReleasesInv'
<1> USE DEF stateVars, poolVars, createVars, dockerVars
<1> DEFINE i == idle.worker
<1>1. /\ TypeOK /\ i \in Worker /\ FreesInv(i)
      /\ start[i] = "done" /\ idle.at # "tick"
  BY DEF ControlInv, IdleInv, ReleasesInv, TypeOK, IdleStep, IdleLookup, IdleContainer,
         IdleRelease, IdleRemove, IdleGoto
<1>2. /\ UNCHANGED <<create, choice, start, term, gpuAssignment, containerID>>
      /\ \A v \in Worker : v # i => (v \in workers' <=> v \in workers)
      /\ i \notin workers' => i \notin workers \/ idle.at = "remove"
      /\ workers' \subseteq workers
      /\ idle'.at = "remove" => IdleRelease /\ idle'.worker = i
  BY <1>1 DEF IdleStep, IdleLookup, IdleContainer, IdleRelease, IdleRemove, IdleGoto,
              Sleeping, RemoveWorker, TypeOK
<1>3. /\ \A v \in Worker, g \in GPU : v \in activeWorkers'[g] => v \in activeWorkers[g]
      /\ IdleRelease => \A g \in GPU : i \notin activeWorkers'[g]
  BY <1>1, ReleaseFrees DEF Freed, IdleStep, IdleLookup, IdleContainer, IdleRelease,
     IdleRemove, schedulerVars
<1>4. idle.at = "remove" => Freed(i)
  BY DEF ReleasesInv
<1> HIDE DEF i
<1>5. ASSUME NEW v \in Worker PROVE FreesInv(v)'
  <2>1. FreesInv(v)
    BY DEF ReleasesInv
  <2>2. v \notin workers' => v \notin workers \/ Freed(v)
    BY <1>2, <1>4
  <2> QED
    BY <1>2, <1>3, <2>1, <2>2 DEF FreesInv, LaunchUnderWay, Freed
<1>6. (idle.at = "remove" => Freed(idle.worker))'
  BY <1>2, <1>3 DEF Freed
<1> QED
  BY <1>5, <1>6 DEF ReleasesInv

\* It holds before the first request.
LEMMA ReleasesInit == Init => ReleasesInv
BY DEF Init, SchedulerInit, ReleasesInv, FreesInv, LaunchUnderWay, Freed, Sleeping

\* Every step preserves the invariant.
LEMMA ReleasesNext == ControlInv /\ ReleasesInv /\ [Next]_vars => ReleasesInv'
<1> SUFFICES ASSUME ControlInv, ReleasesInv, [Next]_vars PROVE ReleasesInv'
  OBVIOUS
<1>1. ASSUME NEW w \in Worker, IdleFound(w) \/ ReportTraffic(w) PROVE ReleasesInv'
  BY <1>1 DEF IdleFound, ReportTraffic, ReportIdle, ReportBusy, ReleasesInv, FreesInv,
              LaunchUnderWay, Freed,
              stateVars, poolVars, createVars, schedulerVars
<1>2. CASE UNCHANGED vars
  BY <1>2 DEF vars, ReleasesInv, FreesInv, LaunchUnderWay, Freed, stateVars, poolVars,
              createVars, schedulerVars
<1> QED
  BY <1>1, <1>2, FreesCreate, FreesStart, FreesTerm, FreesIdle DEF Next, Caller

\* A worker whose container was launched and that has left the registry is on
\* no GPU's active list, however its DELETEs race with its start and the idle
\* checker: only a DELETE that wins against the launch can leave its VRAM
\* taken.
THEOREM StartedWorkerFreesVRAMTheorem == Spec => []StartedWorkerFreesVRAM
<1>1. Init => ReleasesInv
  BY ReleasesInit
<1>2. ReleasesInv => StartedWorkerFreesVRAM
  BY DEF ReleasesInv, FreesInv, LaunchUnderWay, Freed, StartedWorkerFreesVRAM
<1> QED
  BY <1>1, <1>2, ReleasesNext, ControlInvariant, PTL DEF Spec

-----------------------------------------------------------------------------
(***************************************************************************)
(* The ledger.  Nothing is assumed of the requests: what is said of a GPU  *)
(* is said while nobody who asked for less than nothing is scheduled on    *)
(* it.                                                                     *)
(***************************************************************************)

\* The GPU that Schedule chose for a worker stays, and is the only one that
\* the worker is assigned.
LEMMA ChoiceStays ==
  ASSUME ControlInv, \A w \in Worker : ChoiceInv(w), [Next]_vars
  PROVE  /\ \A w \in Worker : ChoiceInv(w)'
         /\ \A w \in Worker : choice[w] # NoGPU => choice'[w] = choice[w]
<1> DEFINE Chosen(w) == ChoiceInv(w)' /\ (choice[w] # NoGPU => choice'[w] = choice[w])
<1> SUFFICES ASSUME NEW v \in Worker PROVE Chosen(v)
  OBVIOUS
<1> USE DEF ChoiceInv, stateVars, createVars
<1>1. TypeOK /\ ChoiceInv(v)
  BY DEF ControlInv
<1>2. UNCHANGED <<create, choice, gpuAssignment>> => Chosen(v)
  BY <1>1
<1>3. ASSUME NEW w \in Worker, CreateWorker(w) \/ CreateStep(w) PROVE Chosen(v)
  <2>1. CASE v # w
    <3>1. Untouched(v)
      BY <1>1, <1>3, <2>1, OthersUntouched
    <3> QED
      BY <1>1, <3>1 DEF Untouched
  <2>2. CASE v = w
    BY <1>1, <1>3, <2>2 DEF TypeOK, Goto, CreateWorker, CreateStep, Schedule,
       ScheduleFound, ScheduleExhausted, AddWorkerCheck, AddWorkerStore, AllocateGPU,
       AssignAndSpawn, RespondAccepted
  <2> QED
    BY <2>1, <2>2
<1>4. ASSUME NEW w \in Worker, StartStep(w) PROVE Chosen(v)
  BY <1>2, <1>4 DEF StartStep, StartTransition, PullImage, LaunchContainer,
     SetContainerID, WaitForHealthy, StartRunning
<1>5. ASSUME NEW w \in Worker, NEW t \in Caller,
             (t \in Delete /\ DeleteWorker(w, t)) \/ TermStep(w, t)
      PROVE  Chosen(v)
  BY <1>2, <1>5 DEF DeleteWorker, TermStep, TermTransition, TermContainer, TermRelease,
     TermRemove
<1>6. ASSUME NEW w \in Worker, IdleFound(w) \/ ReportTraffic(w) PROVE Chosen(v)
  BY <1>2, <1>6 DEF IdleFound, ReportTraffic, ReportIdle, ReportBusy
<1>7. CASE IdleStep
  BY <1>2, <1>7 DEF IdleStep, IdleLookup, IdleContainer, IdleRelease, IdleRemove
<1>8. CASE UNCHANGED vars
  BY <1>2, <1>8 DEF vars
<1> QED
  BY <1>3, <1>4, <1>5, <1>6, <1>7, <1>8 DEF Next, Caller

\* A worker is allocated once, before it is on any list, on the GPU that was
\* chosen for it, and released there; what is done on one GPU leaves the
\* others alone.
LEMMA LedgerNext ==
  ASSUME ControlInv, ReleasesInv, LedgerInv, [Next]_vars
  PROVE  LedgerInv'
<1>1. /\ \A w \in Worker : ChoiceInv(w)'
      /\ \A w \in Worker : choice[w] # NoGPU => choice'[w] = choice[w]
  BY ChoiceStays DEF LedgerInv
<1>2. ASSUME NEW g \in GPU, NobodyNegative(g)' PROVE GPUInv(g)'
  <2>1. /\ SchedulerTypeOK /\ TypeOK /\ unmatched \subseteq Worker
        /\ \A w \in Worker : CreateInv(w) /\ FreesInv(w) /\ ChoiceInv(w)
    BY DEF ControlInv, WorkerInv, TypeOK, ReleasesInv, LedgerInv
  <2>2. NobodyNegative(g) /\ GPUInv(g)
    BY <1>1, <1>2, ControlPlaneAssumption DEF NobodyNegative, LedgerInv
  <2>3. unmatched \subseteq unmatched' => (Matched(g)' => Matched(g))
    BY <1>1, <2>1, ControlPlaneAssumption DEF Matched
  <2>4. ASSUME allocatedVRAM'[g] = allocatedVRAM[g], activeWorkers'[g] = activeWorkers[g],
               unmatched \subseteq unmatched'
        PROVE  GPUInv(g)'
    BY <2>2, <2>3, <2>4 DEF GPUInv, ExactOn, VRAMOf, Megabytes
  <2>5. ASSUME NEW w \in Worker, choice[w] = g, unmatched \subseteq unmatched',
               \/ AllocateSucceeds(g, w) /\ w \notin activeWorkers[g]
               \/ AllocateFails(g, w)
               \/ Release(g, w) /\ (w \notin activeWorkers[g] => w \in unmatched')
        PROVE  GPUInv(g)'
    <3>1. VRAMRequirement[w] >= 0 /\ choice'[w] = g
      BY <1>1, <2>2, <2>5, ControlPlaneAssumption DEF NobodyNegative
    <3>2. allocatedVRAM'[g] \in 0..TotalVRAM[g]
      BY <2>1, <2>2, <2>5, <3>1, WithinTotalStays DEF GPUInv
    <3>3. /\ Bounded(g)'
          /\ ExactOn(g) /\ (\/ AllocateSucceeds(g, w) \/ AllocateFails(g, w)
                            \/ w \in activeWorkers[g]) => ExactOn(g)'
      BY <2>1, <2>2, <2>5, <3>1, LedgerStays DEF GPUInv, Bounded
    <3>4. Matched(g)' => w \notin unmatched'
      BY <3>1 DEF Matched
    <3>5. Matched(g)' => ExactOn(g)'
      <4>1. \/ AllocateSucceeds(g, w) \/ AllocateFails(g, w)
            \/ w \in activeWorkers[g] \/ w \in unmatched'
        BY <2>5
      <4> QED
        BY <2>2, <2>3, <2>5, <3>3, <3>4, <4>1 DEF GPUInv
    <3> QED
      BY <3>2, <3>3, <3>5 DEF GPUInv, Bounded
  <2>6. ASSUME NEW w \in Worker, AllocateGPU(w) PROVE GPUInv(g)'
    <3>1. create[w] = "allocate" /\ choice[w] \in GPU /\ unmatched' = unmatched
      BY <2>1, <2>6 DEF AllocateGPU, Goto, CreateInv
    <3>2. CASE choice[w] = g
      <4>1. w \notin activeWorkers[g]
        BY <2>1, <3>1 DEF FreesInv
      <4> QED
        BY <2>5, <2>6, <3>1, <3>2, <4>1 DEF AllocateGPU
    <3>3. CASE choice[w] # g
      BY <2>1, <2>4, <2>6, <3>1, <3>3
         DEF AllocateGPU, AllocateSucceeds, AllocateFails, schedulerVars, SchedulerTypeOK
    <3> QED
      BY <3>2, <3>3
  <2>7. ASSUME NEW w \in Worker, ReleaseGPU(w) PROVE GPUInv(g)'
    <3> DEFINE a == gpuAssignment[w]
    <3>1. CASE a = NoGPU
      BY <2>4, <2>7, <3>1 DEF ReleaseGPU, schedulerVars
    <3>2. CASE a # NoGPU
      <4>1. /\ Release(a, w) /\ a \in GPU /\ choice[w] = a
            /\ unmatched' = IF w \in activeWorkers[a] THEN unmatched
                                                     ELSE unmatched \union {w}
        BY <2>1, <2>7, <3>2 DEF ReleaseGPU, TypeOK, ChoiceInv
      <4> HIDE DEF a
      <4>2. CASE a = g
        BY <2>5, <4>1, <4>2
      <4>3. CASE a # g
        BY <2>1, <2>4, <4>1, <4>3 DEF Release, SchedulerTypeOK
      <4> QED
        BY <4>2, <4>3
    <3> QED
      BY <3>1, <3>2
  <2>8. CASE UNCHANGED <<allocatedVRAM, activeWorkers, unmatched>>
    BY <2>4, <2>8
  <2> QED
    BY <2>6, <2>7, <2>8, LedgerSteps
<1> QED
  BY <1>1, <1>2 DEF LedgerInv

\* The invariant of the ledger, for any requests.
LEMMA LedgerInvariant == Spec => []LedgerInv
<1>1. Init => ReleasesInv
  BY ReleasesInit
<1>2. Init => LedgerInv
  BY VRAMOfNobody, SchedulerAssumption
     DEF Init, SchedulerInit, LedgerInv, ChoiceInv, GPUInv, Matched, ExactOn
<1>3. ControlInv /\ ReleasesInv /\ LedgerInv /\ [Next]_vars => LedgerInv'
  BY LedgerNext
<1> QED
  BY <1>1, <1>2, <1>3, ReleasesNext, ControlInvariant, PTL DEF Spec

\* The VRAM that GET /v1/gpus reports as allocated on a GPU is between nothing
\* and all of it, whatever the handlers do with the result of Allocate and
\* however often they Release, until a request for a negative amount, which
\* CreateWorker lets pass, is scheduled on that GPU.
THEOREM VRAMWithinTotalTheorem == Spec => []VRAMWithinTotal
<1>1. LedgerInv => VRAMWithinTotal
  BY DEF LedgerInv, GPUInv, VRAMWithinTotal
<1> QED
  BY <1>1, LedgerInvariant, PTL

\* With the same proviso, the counter of a GPU never keeps VRAM of a worker
\* that has left its active list, whatever was refused and however often
\* anybody was released.
THEOREM CounterNeverOverstatesTheorem == Spec => []CounterNeverOverstates
<1>1. LedgerInv => CounterNeverOverstates
  BY DEF LedgerInv, GPUInv, CounterNeverOverstates
<1> QED
  BY <1>1, LedgerInvariant, PTL

\* With the same proviso, until some Release comes for a worker that is not on
\* the GPU's list, the VRAM that the scheduler reports for the GPU is the sum
\* over its workers, however the handlers interleave.
THEOREM LedgerExactWhenMatchedTheorem == Spec => []LedgerExactWhenMatched
<1>1. LedgerInv => LedgerExactWhenMatched
  BY DEF LedgerInv, GPUInv, LedgerExactWhenMatched
<1> QED
  BY <1>1, LedgerInvariant, PTL

-----------------------------------------------------------------------------
(***************************************************************************)
(* Nobody is forgotten: the safety half of AcceptedWorkerSettles,          *)
(* DeletedWorkerLeaves and DeletedContainerGoes.                           *)
(***************************************************************************)

Attended == \A w \in Worker : AttendedInv(w)

\* What a step does not touch stays attended.
LEMMA AttendedFrame ==
  ASSUME NEW w \in Worker, AttendedInv(w), Untouched(w)
  PROVE  AttendedInv(w)'
BY DEF AttendedInv, Untouched

\* The POST handler registers a worker that nobody has begun to terminate.
LEMMA AttendedCreate ==
  ASSUME ControlInv, NEW w \in Worker, AttendedInv(w), CreateWorker(w) \/ CreateStep(w)
  PROVE  AttendedInv(w)'
<1> USE DEF AttendedInv, Goto, stateVars, poolVars, createVars, StatusPending,
            StatusStarting, StatusTerminating
<1>1. TypeOK /\ CreateInv(w)
  BY DEF ControlInv, WorkerInv
<1>2. CASE ScheduleFound(w)
  <2>1. /\ ~Stored(w) /\ create[w] = "schedule" /\ status'[w] = StatusPending
        /\ UNCHANGED <<workers, term, start>>
    BY <1>1, <1>2 DEF ScheduleFound, Stored, TypeOK
  <2> QED
    BY <1>1, <2>1
<1>3. CASE AddWorkerStore(w)
  <2>1. ~Stored(w) /\ UNCHANGED <<status, term, start>>
    BY <1>3 DEF AddWorkerStore, Stored
  <2>2. /\ status[w] # StatusTerminating
        /\ \A t \in Caller : term[w][t] = "off"
    BY <1>1, <2>1 DEF CreateInv, NoStatus
  <2> QED
    BY <2>1, <2>2
<1>4. CASE \/ CreateWorker(w) \/ Schedule(w) \/ ScheduleExhausted(w)
           \/ AddWorkerCheck(w) \/ AllocateGPU(w) \/ RespondAccepted(w)
  BY <1>4 DEF CreateWorker, Schedule, ScheduleExhausted, AddWorkerCheck, AllocateGPU,
     RespondAccepted
<1>5. CASE AssignAndSpawn(w)
  <2>1. start[w] = "off" /\ start'[w] = "transition" /\ UNCHANGED <<status, term, workers>>
    BY <1>1, <1>5 DEF AssignAndSpawn, CreateInv, TypeOK
  <2> QED
    BY <2>1
<1> QED
  BY <1>2, <1>3, <1>4, <1>5 DEF CreateStep

\* Every way in which startWorkerContainer ends leaves the worker running,
\* terminating, or to terminateWorker.
LEMMA AttendedStart ==
  ASSUME ControlInv, NEW w \in Worker, AttendedInv(w), StartStep(w)
  PROVE  AttendedInv(w)'
<1> USE DEF AttendedInv, Goto, stateVars, poolVars, createVars, StatusPending,
            StatusStarting, StatusTerminating, StatusRunning
<1>1. TypeOK /\ StatusInv(w) /\ Starter \in Caller
  BY DEF ControlInv, WorkerInv, Caller
<1>2. CASE StartTransition(w)
  <2>1. /\ start[w] = "transition" /\ UNCHANGED <<term, workers>>
        /\ \/ start'[w] = "pull" /\ status'[w] = StatusStarting
           \/ start'[w] = "done" /\ status'[w] = status[w]
    BY <1>1, <1>2 DEF StartTransition, TransitionTo, TypeOK
  <2>2. status[w] # StatusStarting
    BY <1>1, <2>1, Zenon DEF StatusInv, NoStatus
  <2> QED
    BY <2>1, <2>2
<1>3. ASSUME StartFails(w), start[w] # "done", UNCHANGED <<status, workers>>
      PROVE  AttendedInv(w)'
  <2>1. /\ term'[w][Starter] = "transition" /\ start'[w] = "done"
        /\ \A t \in Caller : t # Starter => term'[w][t] = term[w][t]
    BY <1>1, <1>3 DEF StartFails, TypeOK
  <2> QED
    BY <1>1, <1>3, <2>1
<1>4. ASSUME start[w] # "done", start'[w] # "done", UNCHANGED <<status, workers, term>>
      PROVE  AttendedInv(w)'
  BY <1>4
<1>5. CASE PullImage(w) \/ LaunchContainer(w) \/ SetContainerID(w) \/ WaitForHealthy(w)
  BY <1>1, <1>3, <1>4, <1>5 DEF PullImage, LaunchContainer, SetContainerID,
     WaitForHealthy, TypeOK
<1>6. CASE StartRunning(w)
  <2>1. CASE CanTransition(w, StatusRunning)
    BY <1>1, <1>6, <2>1 DEF StartRunning, TransitionTo, TypeOK
  <2>2. CASE ~CanTransition(w, StatusRunning)
    BY <1>3, <1>6, <2>2 DEF StartRunning
  <2> QED
    BY <2>1, <2>2
<1> QED
  BY <1>2, <1>5, <1>6 DEF StartStep

\* terminateWorker stays with a worker until it is out.
LEMMA AttendedTerm ==
  ASSUME ControlInv, NEW w \in Worker, AttendedInv(w), NEW t \in Caller,
         (t \in Delete /\ DeleteWorker(w, t)) \/ TermStep(w, t)
  PROVE  AttendedInv(w)'
<1> USE DEF AttendedInv, TermGoto, stateVars, poolVars, createVars
<1>1. TypeOK /\ CreateInv(w) /\ StatusInv(w) /\ Starter \in Caller
  BY DEF ControlInv, WorkerInv, Caller
<1>2. ASSUME NEW to \in TermPC, term' = [term EXCEPT ![w][t] = to]
      PROVE  /\ term'[w][t] = to
             /\ \A u \in Caller : u # t => term'[w][u] = term[w][u]
  BY <1>1, <1>2 DEF TypeOK
<1>3. ASSUME t \in Delete, DeleteWorker(w, t) PROVE AttendedInv(w)'
  <2>1. /\ term[w][t] = "off" /\ term'[w][t] = "transition" /\ t # Starter
        /\ \A u \in Caller : u # t => term'[w][u] = term[w][u]
        /\ UNCHANGED <<status, workers, start>>
    BY <1>2, <1>3, ControlPlaneAssumption DEF DeleteWorker, TermPC
  <2> QED
    BY <1>1, <2>1
<1>4. CASE TermTransition(w, t)
  <2>1. /\ term[w][t] = "transition" /\ term'[w][t] = "container"
        /\ \A u \in Caller : u # t => term'[w][u] = term[w][u]
        /\ UNCHANGED <<workers, start>>
    BY <1>2, <1>4 DEF TermTransition, TermPC
  <2>2. status'[w] # StatusStarting
    BY <1>1, <1>4 DEF TermTransition, CanTransition, TransitionTo, isValidTransition,
       validTransitions, TypeOK, StatusPending, StatusStarting, StatusRunning,
       StatusIdle, StatusTerminating
  <2> QED
    BY <1>1, <2>1, <2>2
<1>5. CASE TermContainer(w, t)
  <2>1. /\ term[w][t] = "container" /\ term'[w][t] = "release"
        /\ \A u \in Caller : u # t => term'[w][u] = term[w][u]
        /\ UNCHANGED <<status, workers, start>>
    BY <1>2, <1>5 DEF TermContainer, TermPC
  <2>2. status[w] # StatusStarting
    BY <1>1, <2>1 DEF StatusInv, StatusStarting, StatusTerminating
  <2> QED
    BY <1>1, <2>1, <2>2
<1>6. CASE TermRelease(w, t)
  <2>1. /\ term[w][t] = "release" /\ term'[w][t] = "remove"
        /\ \A u \in Caller : u # t => term'[w][u] = term[w][u]
        /\ UNCHANGED <<status, workers, start>>
    BY <1>2, <1>6 DEF TermRelease, TermPC
  <2>2. status[w] # StatusStarting
    BY <1>1, <2>1 DEF StatusInv, StatusStarting, StatusTerminating
  <2> QED
    BY <1>1, <2>1, <2>2
<1>7. CASE TermRemove(w, t)
  <2>1. /\ term[w][t] = "remove" /\ term'[w][t] = "done"
        /\ \A u \in Caller : u # t => term'[w][u] = term[w][u]
        /\ w \notin workers' /\ UNCHANGED <<status, start>>
    BY <1>2, <1>7 DEF TermRemove, RemoveWorker, TermPC
  <2>2. status[w] # StatusStarting
    BY <1>1, <2>1 DEF StatusInv, StatusStarting, StatusTerminating
  <2> QED
    BY <1>1, <2>1, <2>2
<1> QED
  BY <1>3, <1>4, <1>5, <1>6, <1>7 DEF TermStep

\* Every step leaves everybody attended.
LEMMA AttendedNext == ControlInv /\ Attended /\ [Next]_vars => Attended'
<1> SUFFICES ASSUME ControlInv, Attended, [Next]_vars PROVE Attended'
  OBVIOUS
<1>1. TypeOK
  BY DEF ControlInv
<1>2. ASSUME NEW w \in Worker,
             \/ CreateWorker(w) \/ CreateStep(w) \/ StartStep(w)
             \/ \E t \in Caller : (t \in Delete /\ DeleteWorker(w, t)) \/ TermStep(w, t)
      PROVE  Attended'
  <2>1. AttendedInv(w)'
    BY <1>2, AttendedCreate, AttendedStart, AttendedTerm DEF Attended
  <2>2. ASSUME NEW v \in Worker, v # w PROVE AttendedInv(v)'
    BY <1>1, <1>2, <2>2, OthersUntouched, AttendedFrame DEF Attended
  <2> QED
    BY <2>1, <2>2 DEF Attended
<1>3. ASSUME NEW w \in Worker, IdleFound(w) \/ ReportTraffic(w) PROVE Attended'
  <2>1. UNCHANGED <<start, term, workers>>
    BY <1>3 DEF IdleFound, ReportTraffic, ReportIdle, ReportBusy, poolVars
  <2>2. ASSUME NEW v \in Worker
        PROVE  status'[v] \in {StatusStarting, StatusTerminating} => status'[v] = status[v]
    BY <1>1, <1>3 DEF IdleFound, ReportTraffic, ReportIdle, ReportBusy, TransitionTo,
       stateVars, TypeOK,
       StatusStarting, StatusRunning, StatusIdle, StatusTerminating
  <2> QED
    BY <2>1, <2>2 DEF Attended, AttendedInv
<1>4. CASE IdleStep
  <2>1. workers' \subseteq workers /\ UNCHANGED <<start, term, status>>
    BY <1>4 DEF IdleStep, IdleLookup, IdleContainer, IdleRelease, IdleRemove,
       RemoveWorker, stateVars, poolVars
  <2> QED
    BY <2>1 DEF Attended, AttendedInv
<1>5. CASE UNCHANGED vars
  BY <1>5 DEF vars, stateVars, poolVars, Attended, AttendedInv
<1> QED
  BY <1>2, <1>3, <1>4, <1>5 DEF Next, Caller

\* Everybody is attended, always.
LEMMA AttendedInvariant == Spec => []Attended
<1>1. Init => Attended
  BY DEF Init, Attended, AttendedInv, Caller
<1> QED
  BY <1>1, AttendedNext, ControlInvariant, PTL DEF Spec

\* Whatever the requests, their interleaving and the failures of Docker, a
\* worker in the registry serves or has a goroutine that works on it, and a
\* terminateWorker that is done leaves behind no worker, ever, and no container
\* but one that a goroutine is still to remove or that was lost.
THEOREM NobodyForgottenTheorem == Spec => []NobodyForgotten
<1>1. ASSUME ControlInv, Attended, NEW w \in Worker
      PROVE  /\ w \in workers =>
                  \/ status[w] \in {StatusRunning, StatusIdle}
                  \/ create[w] \in {"allocate", "assign"} \/ ~Settled(w)
             /\ \A t \in Caller : term[w][t] = "done" =>
                  /\ w \notin workers
                  /\ container[w] = "up" /\ w \notin lost => ~Settled(w)
  <2>1. /\ TypeOK /\ CreateInv(w) /\ StatusInv(w) /\ ContainerInv(w) /\ AttendedInv(w)
        /\ Starter \in Caller
    BY <1>1 DEF ControlInv, WorkerInv, Attended, Caller
  <2>2. ASSUME w \in workers, status[w] \notin {StatusRunning, StatusIdle},
               create[w] \notin {"allocate", "assign"}, Settled(w)
        PROVE  FALSE
    <3>1. create[w] \in {"respond", "accepted"}
      BY <2>1, <2>2 DEF CreateInv, Stored
    <3>2. start[w] = "done"
      BY <2>1, <2>2, <3>1 DEF CreateInv, Settled
    <3>3. status[w] \in {StatusStarting, StatusTerminating}
      BY <2>1, <2>2, <3>1, <3>2 DEF CreateInv, StatusInv, TypeOK, Status
    <3>4. CASE status[w] = StatusStarting
      BY <2>1, <2>2, <3>2, <3>4 DEF AttendedInv, Settled
    <3>5. CASE status[w] = StatusTerminating
      BY <2>1, <2>2, <3>5 DEF AttendedInv, Settled
    <3> QED
      BY <3>3, <3>4, <3>5
  <2>3. ASSUME NEW t \in Caller, term[w][t] = "done"
        PROVE  /\ w \notin workers
               /\ container[w] = "up" /\ w \notin lost => ~Settled(w)
    <3>1. w \notin workers
      BY <2>1, <2>3 DEF AttendedInv
    <3> QED
      BY <2>1, <3>1 DEF ContainerInv, Settled
  <2> QED
    BY <2>2, <2>3
<1>2. ControlInv /\ Attended => NobodyForgotten
  BY <1>1 DEF NobodyForgotten
<1> QED
  BY <1>2, AttendedInvariant, ControlInvariant, PTL

-----------------------------------------------------------------------------
(***************************************************************************)
(* The goroutines of the control plane drive every worker along the        *)
(* machine of WorkerMachine: ControlPlane implements it under the mapping  *)
(* Observed.                                                               *)
(***************************************************************************)

\* What an observer may see happen to w: nothing, a step of SPEC.md's machine,
\* or one of the two departures from it.
MachineStep(w) ==
  LET old == Observed[w]
      new == Observed'[w]
  IN  /\ reaped' = reaped
      /\ \/ new = old
         \/ old = "absent" /\ new = StatusPending
         \/ /\ isValidTransition(old, new) /\ new \in Status
            /\ old = StatusPending => new = StatusStarting
         \/ old = StatusTerminating /\ new = "removed"
         \/ old = StatusPending /\ new = StatusTerminating /\ KnownDeparture
         \/ /\ w \in reaped /\ old \in {StatusRunning, StatusIdle} /\ new = "removed"
            /\ KnownDeparture

\* A worker that a step does not touch looks the same after it.
LEMMA ObservedFrame ==
  ASSUME NEW w \in Worker, Untouched(w)
  PROVE  Observed'[w] = Observed[w]
BY DEF Observed, Untouched

\* The POST handler registers its worker, as PENDING, in one step.
LEMMA CreateRefines ==
  ASSUME ControlInv, NEW w \in Worker, CreateWorker(w) \/ CreateStep(w)
  PROVE  MachineStep(w)
<1> USE DEF MachineStep, Observed, Goto, stateVars, poolVars, createVars
<1>1. TypeOK /\ CreateInv(w)
  BY DEF ControlInv, WorkerInv
<1>2. CASE \/ CreateWorker(w) \/ Schedule(w) \/ ScheduleFound(w)
           \/ ScheduleExhausted(w) \/ AddWorkerCheck(w)
  <2>1. ~Stored(w) /\ ~Stored(w)' /\ workers' = workers /\ reaped' = reaped
    BY <1>1, <1>2 DEF Stored, CreateWorker, Schedule, ScheduleFound, ScheduleExhausted,
       AddWorkerCheck, TypeOK
  <2> QED
    BY <1>1, <2>1 DEF Stored, CreateInv
<1>3. CASE AddWorkerStore(w)
  BY <1>1, <1>3 DEF AddWorkerStore, CreateInv, Stored, TypeOK, NoStatus
<1>4. CASE AllocateGPU(w) \/ AssignAndSpawn(w) \/ RespondAccepted(w)
  BY <1>1, <1>4 DEF AllocateGPU, AssignAndSpawn, RespondAccepted, TypeOK
<1> QED
  BY <1>2, <1>3, <1>4 DEF CreateStep

\* startWorkerContainer moves a registered worker along validTransitions, and
\* a removed one is not seen to move.
LEMMA StartRefines ==
  ASSUME ControlInv, NEW w \in Worker, StartStep(w)
  PROVE  MachineStep(w)
<1> USE DEF MachineStep, Observed, Goto, stateVars, poolVars, createVars
<1>1. TypeOK /\ StatusInv(w)
  BY DEF ControlInv, WorkerInv
<1>2. CASE StartTransition(w)
  BY <1>1, <1>2 DEF StartTransition, CanTransition, TransitionTo, TypeOK, Status
<1>3. CASE StartRunning(w)
  <2>1. status[w] # StatusPending
    BY <1>1, <1>3 DEF StartRunning, StatusInv, StatusPending, StatusStarting,
       StatusTerminating
  <2> QED
    BY <1>1, <1>3, <2>1 DEF StartRunning, CanTransition, TransitionTo, TypeOK, Status
<1>4. CASE PullImage(w) \/ LaunchContainer(w) \/ SetContainerID(w) \/ WaitForHealthy(w)
  BY <1>4 DEF PullImage, LaunchContainer, SetContainerID, WaitForHealthy
<1> QED
  BY <1>2, <1>3, <1>4 DEF StartStep

\* terminateWorker asks for TERMINATING first and removes a worker that is.  A
\* failed start has taken the worker out of PENDING before, so only that of a
\* DELETE can find it there.
LEMMA TermRefines ==
  ASSUME ControlInv, Attended, NEW w \in Worker, NEW t \in Caller,
         (t \in Delete /\ DeleteWorker(w, t)) \/ TermStep(w, t)
  PROVE  MachineStep(w)
<1> USE DEF MachineStep, Observed, TermGoto, stateVars, poolVars, createVars
<1>1. TypeOK /\ CreateInv(w) /\ StatusInv(w) /\ AttendedInv(w)
  BY DEF ControlInv, WorkerInv, Attended
<1>2. CASE DeleteWorker(w, t) \/ TermContainer(w, t) \/ TermRelease(w, t)
  BY <1>2 DEF DeleteWorker, TermContainer, TermRelease
<1>3. CASE TermTransition(w, t)
  <2>1. CASE status[w] = StatusPending
    <3>1. t \in Delete
      BY <1>1, <1>3, <2>1 DEF TermTransition, AttendedInv, StatusInv, Caller
    <3>2. KnownDeparture
      BY <1>3, <2>1, <3>1 DEF KnownDeparture
    <3> QED
      BY <1>1, <1>3, <2>1, <3>2 DEF TermTransition, TransitionTo, TypeOK
  <2>2. CASE status[w] # StatusPending
    BY <1>1, <1>3, <2>2 DEF TermTransition, CanTransition, TransitionTo, TypeOK, Status
  <2> QED
    BY <2>1, <2>2
<1>4. CASE TermRemove(w, t)
  <2>1. status[w] = StatusTerminating /\ Stored(w)
    BY <1>1, <1>4 DEF TermRemove, StatusInv, CreateInv
  <2> QED
    BY <1>4, <2>1 DEF TermRemove, RemoveWorker, Stored
<1> QED
  BY <1>2, <1>3, <1>4 DEF TermStep

\* Reports of traffic are transitions of registered workers, and not seen of
\* others.
LEMMA TrafficRefines ==
  ASSUME ControlInv, NEW w \in Worker, ReportTraffic(w)
  PROVE  MachineStep(w)
<1>1. \/ status[w] = StatusRunning /\ status'[w] = StatusIdle
      \/ status[w] = StatusIdle /\ status'[w] = StatusRunning
  BY DEF ControlInv, TypeOK, ReportTraffic, ReportIdle, ReportBusy, TransitionTo
<1>2. /\ isValidTransition(status[w], status'[w]) /\ status'[w] \in Status
      /\ status[w] # StatusPending
  BY <1>1 DEF isValidTransition, validTransitions, Status, StatusPending, StatusRunning,
     StatusIdle
<1> QED
  BY <1>2 DEF ReportTraffic, ReportIdle, ReportBusy, MachineStep, Observed, poolVars,
     createVars

\* The idle callback removes the worker that was decided on, whether or not it
\* is still IDLE, or finds it removed.
LEMMA IdleRefines ==
  ASSUME ControlInv, IdleStep
  PROVE  /\ idle.worker \in Worker /\ MachineStep(idle.worker)
         /\ \A v \in Worker : v # idle.worker => Observed'[v] = Observed[v]
<1> DEFINE i == idle.worker
<1>1. idle.at # "tick"
  BY DEF IdleStep, IdleLookup, IdleContainer, IdleRelease, IdleRemove, IdleGoto
<1>2. /\ i \in reaped /\ i \in Worker
      /\ status[i] \in {StatusRunning, StatusIdle, StatusTerminating}
      /\ i \in workers => Stored(i)
  BY <1>1 DEF ControlInv, IdleInv, WorkerInv, CreateInv, TypeOK
<1> HIDE DEF i
<1>3. CASE IdleLookup \/ IdleContainer \/ IdleRelease
  <2>1. UNCHANGED <<reaped, Observed>>
    BY <1>3 DEF IdleLookup, IdleContainer, IdleRelease, Observed, stateVars, poolVars,
       createVars
  <2>2. MachineStep(i)
    BY <2>1 DEF MachineStep
  <2> QED
    BY <1>2, <2>1, <2>2 DEF i
<1>4. CASE IdleRemove
  <2>1. /\ workers' = workers \ {i} /\ UNCHANGED <<reaped, status, create>>
    BY <1>4 DEF IdleRemove, RemoveWorker, stateVars, createVars, i
  <2>2. CASE i \in workers
    <3>1. /\ Observed[i] = status[i] /\ Observed'[i] = "removed"
      BY <1>2, <2>1, <2>2 DEF Observed, Stored
    <3>2. KnownDeparture
      BY <1>4 DEF KnownDeparture
    <3> QED
      BY <1>2, <2>1, <3>1, <3>2 DEF MachineStep, Observed, i
  <2>3. CASE i \notin workers
    <3>1. workers' = workers
      BY <2>1, <2>3
    <3> QED
      BY <1>2, <2>1, <3>1 DEF MachineStep, Observed, i
  <2> QED
    BY <2>2, <2>3
<1> QED
  BY <1>3, <1>4 DEF IdleStep

\* Every step of the process is a step of one worker's machine or a stutter,
\* and a departure from SPEC.md's only where that is known.
Refines ==
  /\ [Machine!Next]_<<Observed, reaped>>
  /\ Machine!Documented \/ UNCHANGED <<Observed, reaped>> \/ KnownDeparture

LEMMA StepRefines ==
  ASSUME ControlInv, Attended, [Next]_vars
  PROVE  Refines
<1>0. TypeOK /\ Observed = [w \in Worker |-> Observed[w]]
             /\ Observed' = [w \in Worker |-> Observed'[w]]
  BY DEF ControlInv, Observed
<1>1. ASSUME NEW w \in Worker, MachineStep(w),
             \A v \in Worker : v # w => Observed'[v] = Observed[v]
      PROVE  Refines
  <2> USE DEF Refines
  <2>1. Observed' = [Observed EXCEPT ![w] = Observed'[w]] /\ reaped' = reaped
    BY <1>0, <1>1 DEF MachineStep
  <2>2. CASE Observed'[w] = Observed[w]
    BY <1>0, <2>1, <2>2
  <2>3. CASE Observed[w] = "absent" /\ Observed'[w] = StatusPending
    BY <2>1, <2>3 DEF Machine!Next, Machine!Documented, Machine!Register,
       Machine!Absent, Machine!StatusPending, StatusPending
  <2>4. CASE /\ isValidTransition(Observed[w], Observed'[w]) /\ Observed'[w] \in Status
             /\ Observed[w] = StatusPending => Observed'[w] = StatusStarting
    <3>1. Machine!Transition(w, Observed'[w]) /\ Observed'[w] \in Machine!Status
      BY <2>1, <2>4 DEF Machine!Transition, Machine!isValidTransition,
         Machine!validTransitions, Machine!Status, Machine!StatusPending,
         Machine!StatusStarting, Machine!StatusRunning, Machine!StatusIdle,
         Machine!StatusTerminating, isValidTransition, validTransitions, Status,
         StatusPending, StatusStarting, StatusRunning, StatusIdle, StatusTerminating
    <3> QED
      BY <3>1 DEF Machine!Next, Machine!Documented
  <2>5. CASE Observed[w] = StatusTerminating /\ Observed'[w] = "removed"
    BY <2>1, <2>5 DEF Machine!Next, Machine!Documented, Machine!Remove,
       Machine!Removed, Machine!StatusTerminating, StatusTerminating
  <2>6. CASE Observed[w] = StatusPending /\ Observed'[w] = StatusTerminating
             /\ KnownDeparture
    <3>1. Machine!Cancel(w)
      BY <2>1, <2>6 DEF Machine!Cancel, Machine!isValidTransition,
         Machine!validTransitions, Machine!StatusPending, Machine!StatusStarting,
         Machine!StatusTerminating, StatusPending, StatusTerminating
    <3> QED
      BY <2>6, <3>1 DEF Machine!Next
  <2>7. CASE w \in reaped /\ Observed[w] \in {StatusRunning, StatusIdle}
             /\ Observed'[w] = "removed" /\ KnownDeparture
    BY <2>1, <2>7 DEF Machine!Next, Machine!Reap, Machine!Removed,
       Machine!StatusRunning, Machine!StatusIdle, StatusRunning, StatusIdle
  <2> QED
    BY <1>1, <2>2, <2>3, <2>4, <2>5, <2>6, <2>7 DEF MachineStep
<1>2. ASSUME NEW w \in Worker,
             \/ CreateWorker(w) \/ CreateStep(w) \/ StartStep(w)
             \/ \E t \in Caller : (t \in Delete /\ DeleteWorker(w, t)) \/ TermStep(w, t)
             \/ ReportTraffic(w)
      PROVE  Refines
  <2>1. MachineStep(w)
    BY <1>2, CreateRefines, StartRefines, TermRefines, TrafficRefines
  <2>2. \A v \in Worker : v # w => Observed'[v] = Observed[v]
    BY <1>0, <1>2, ObservedFrame, OthersUntouched
  <2> QED
    BY <1>1, <2>1, <2>2
<1>3. ASSUME NEW w \in Worker, IdleFound(w) PROVE Refines
  <2>1. /\ Observed[w] = StatusIdle /\ UNCHANGED Observed
        /\ reaped' = reaped \union {w}
    BY <1>3 DEF IdleFound, Observed, stateVars, poolVars, createVars
  <2>2. Machine!Decide(w) /\ KnownDeparture
    BY <1>3, <2>1 DEF Machine!Decide, Machine!StatusIdle, StatusIdle, KnownDeparture
  <2> QED
    BY <2>2 DEF Refines, Machine!Next
<1>4. CASE IdleStep
  BY <1>1, <1>4, IdleRefines
<1>5. CASE UNCHANGED vars
  BY <1>5 DEF vars, stateVars, poolVars, createVars, Observed, Refines
<1> QED
  BY <1>2, <1>3, <1>4, <1>5 DEF Next, Caller

\* The goroutines together implement the machine of WorkerMachine: whatever
\* the requests, the reports and the idle checker do, a worker is first seen
\* PENDING, moves along validTransitions only, leaves the registry from
\* TERMINATING, or after the idle checker decided on it while it was IDLE, and
\* never comes back.
THEOREM ImplementsMachineTheorem == Spec => ImplementsMachine
<1>1. Init => Machine!Init
  BY DEF Init, Machine!Init, Machine!Absent, Observed
<1>2. ControlInv /\ Attended /\ [Next]_vars => [Machine!Next]_<<Observed, reaped>>
  BY StepRefines DEF Refines
<1> QED
  BY <1>1, <1>2, ControlInvariant, AttendedInvariant, PTL
     DEF Spec, ImplementsMachine, Machine!Spec, Machine!machineVars

\* SPEC.md's machine is left in two ways only: a DELETE whose terminateWorker
\* finds the worker PENDING, and the idle checker, which removes a worker that
\* it has not made TERMINATING.  Every other step of every goroutine, the
\* failures of a start included, is one of SPEC.md's or not seen at all.
THEOREM DepartsOnlyAsKnownTheorem == Spec => DepartsOnlyAsKnown
<1>1. ControlInv /\ Attended /\ [Next]_vars
        => Machine!Documented \/ UNCHANGED <<Observed, reaped>> \/ KnownDeparture
  BY StepRefines DEF Refines
<1>2. ControlInv /\ Attended /\ [Next]_vars
        => [Machine!Documented \/ UNCHANGED Machine!machineVars \/ KnownDeparture]_vars
  BY <1>1 DEF Machine!machineVars
<1> QED
  BY <1>2, ControlInvariant, AttendedInvariant, PTL DEF Spec, DepartsOnlyAsKnown

-----------------------------------------------------------------------------
(***************************************************************************)
(* The process.  Its steps are those of the control plane, steps of main   *)
(* and of the update channel that leave the control plane alone, and exits *)
(* after which the control plane is in its initial state again.            *)
(***************************************************************************)

\* What the goroutines do inside the process is a step of ControlPlane.
LEMMA InsideIsNext ==
  ASSUME Request \/ Traffic \/ (\E w \in Worker : Work(w)) \/ IdleCheck
  PROVE  Next /\ UNCHANGED processVars
<1>1. CASE Request
  BY <1>1 DEF Request, Next
<1>2. CASE Traffic
  BY <1>2 DEF Traffic, Next
<1>3. ASSUME NEW w \in Worker, Work(w) PROVE Next /\ UNCHANGED processVars
  BY <1>3 DEF Work, Next
<1>4. CASE IdleCheck
  BY <1>4 DEF IdleCheck, Next
<1> QED
  BY <1>1, <1>2, <1>3, <1>4

\* What the others do is none, unless the process exits.
LEMMA OutsideLeavesAlone ==
  ASSUME \/ IdleCheckerEnds \/ NotifyStateChange \/ ProcessStateUpdate \/ ReaderEnds
         \/ Signal \/ ShutdownBegins \/ ShutdownReturns \/ Stop \/ Restart
  PROVE  UNCHANGED vars
BY DEF IdleCheckerEnds, NotifyStateChange, ProcessStateUpdate, ReaderEnds, Signal,
       ShutdownBegins, ShutdownReturns, Stop, Restart, MainGoto

\* A new process knows nothing of the one before.
LEMMA ForgetInit == Forget => Init'
BY DEF Forget, Init, SchedulerInit

LEMMA ProcessTypeInit == ProcessInit => ProcessTypeOK
BY ProcessAssumption DEF ProcessInit, ProcessTypeOK, Phase

LEMMA ProcessTypeNext ==
  ASSUME ProcessTypeOK, [ProcessNext]_allVars
  PROVE  ProcessTypeOK'
<1> USE ProcessAssumption DEF ProcessTypeOK, Phase, channelVars
<1>1. CASE Request \/ Traffic \/ (\E w \in Worker : Work(w)) \/ IdleCheck
  BY <1>1, InsideIsNext DEF processVars
<1>2. CASE IdleCheckerEnds \/ ReaderEnds \/ Restart
  BY <1>2 DEF IdleCheckerEnds, ReaderEnds, Restart
<1>3. CASE NotifyStateChange
  BY <1>3 DEF NotifyStateChange
<1>4. CASE ProcessStateUpdate
  BY <1>4 DEF ProcessStateUpdate
<1>5. CASE Signal \/ ShutdownBegins \/ ShutdownReturns \/ Stop
  BY <1>5 DEF Signal, ShutdownBegins, ShutdownReturns, Stop, MainGoto
<1>6. CASE Exits
  BY <1>6 DEF Exits
<1>7. CASE UNCHANGED allVars
  BY <1>7 DEF allVars, processVars
<1> QED
  BY <1>1, <1>2, <1>3, <1>4, <1>5, <1>6, <1>7 DEF ProcessNext, Main, Return, Crash

\* The inductive invariant of the control plane is kept from start to start.
LEMMA ProcessControlNext == ControlInv /\ [ProcessNext]_allVars => ControlInv'
<1>1. Init' => ControlInv'
  BY ControlInit, PTL
<1>2. ASSUME ControlInv, [ProcessNext]_allVars PROVE [Next]_vars \/ Init'
  BY <1>2, InsideIsNext, OutsideLeavesAlone, ForgetInit
     DEF ProcessNext, Main, Return, Crash, Exits, allVars
<1> QED
  BY <1>1, <1>2, ControlNext

\* The inductive invariant of the process.
THEOREM ProcessInvariant == ProcessSpec => []ProcessInv
<1>1. ProcessInit => ProcessInv
  BY ProcessTypeInit, ControlInit DEF ProcessInit, ProcessInv
<1>2. ProcessInv /\ [ProcessNext]_allVars => ProcessInv'
  BY ProcessTypeNext, ProcessControlNext DEF ProcessInv
<1> QED
  BY <1>1, <1>2, PTL DEF ProcessSpec

\* Across restarts, too, no container survives its worker within one process.
THEOREM ProcessNoOrphanContainer == ProcessSpec => []NoOrphanContainer
<1>1. ProcessInv => NoOrphanContainer
  BY DEF ProcessInv, ControlInv, WorkerInv, ContainerInv, NoOrphanContainer, Settled
<1> QED
  BY <1>1, ProcessInvariant, PTL
=============================================================================
