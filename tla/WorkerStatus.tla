---------------------------- MODULE WorkerStatus ----------------------------
(***************************************************************************)
(* The worker state machine of pkg/orchestrator/state.go: the five         *)
(* statuses and the relation that TransitionTo consults before it assigns  *)
(* WorkerState.Status.                                                     *)
(***************************************************************************)

StatusPending     == "PENDING"
StatusStarting    == "STARTING"
StatusRunning     == "RUNNING"
StatusIdle        == "IDLE"
StatusTerminating == "TERMINATING"

Status ==
  {StatusPending, StatusStarting, StatusRunning, StatusIdle, StatusTerminating}

\* The "from" state that NewWorkerState logs: no WorkerState object exists yet.
NoStatus == ""

\* The map validTransitions, as the set of its (key, element) pairs.
\* TERMINATING is a key with no element.
validTransitions ==
  { <<StatusPending,  StatusStarting>>, <<StatusPending,  StatusTerminating>>,
    <<StatusStarting, StatusRunning>>,  <<StatusStarting, StatusTerminating>>,
    <<StatusRunning,  StatusIdle>>,     <<StatusRunning,  StatusTerminating>>,
    <<StatusIdle,     StatusRunning>>,  <<StatusIdle,     StatusTerminating>> }

isValidTransition(from, to) == <<from, to>> \in validTransitions
=============================================================================
