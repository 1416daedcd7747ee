---------------------------- MODULE WorkerMachine ----------------------------
(***************************************************************************)
(* What the registry promises about one worker, whatever goroutines work   *)
(* on it, without any of the code that drives it: a worker is registered   *)
(* as PENDING, changes its status along the edges below while it is        *)
(* registered, leaves the registry, and never comes back.                  *)
(*                                                                         *)
(* SPEC.md section 3.1 documents a machine (Documented): PENDING leads to  *)
(* STARTING only, and a worker leaves from TERMINATING.  The code does     *)
(* more, and what it does more is in actions of its own.  validTransitions *)
(* of pkg/orchestrator/state.go also has PENDING -> TERMINATING (Cancel);  *)
(* and a worker that the idle checker has decided on while it was IDLE     *)
(* (Decide) may leave as it is (Reap).                                     *)
(***************************************************************************)
EXTENDS WorkerStatus

CONSTANT Worker

VARIABLES
  state,     \* what an observer of the registry sees of each worker
  reaped     \* workers that the idle checker decided to terminate

machineVars == <<state, reaped>>

Absent  == "absent"    \* not registered yet
Removed == "removed"   \* registered once, and gone

TypeOK ==
  state \in [Worker -> Status \union {Absent, Removed}] /\ reaped \subseteq Worker

Init == state = [w \in Worker |-> Absent] /\ reaped = {}

Register(w) ==
  /\ state[w] = Absent
  /\ state' = [state EXCEPT ![w] = StatusPending]
  /\ UNCHANGED reaped

\* An edge of SPEC.md's table: validTransitions has them all.
Transition(w, s) ==
  /\ isValidTransition(state[w], s)
  /\ state[w] = StatusPending => s = StatusStarting
  /\ state' = [state EXCEPT ![w] = s]
  /\ UNCHANGED reaped

\* The edge that only validTransitions has.
Cancel(w) ==
  /\ state[w] = StatusPending /\ isValidTransition(state[w], StatusTerminating)
  /\ state' = [state EXCEPT ![w] = StatusTerminating]
  /\ UNCHANGED reaped

Remove(w) ==
  /\ state[w] = StatusTerminating
  /\ state' = [state EXCEPT ![w] = Removed]
  /\ UNCHANGED reaped

Decide(w) ==
  /\ state[w] = StatusIdle
  /\ reaped' = reaped \union {w}
  /\ UNCHANGED state

\* It may have taken a request since.
Reap(w) ==
  /\ w \in reaped /\ state[w] \in {StatusRunning, StatusIdle}
  /\ state' = [state EXCEPT ![w] = Removed]
  /\ UNCHANGED reaped

Documented ==
  \E w \in Worker :
    \/ Register(w)
    \/ \E s \in Status : Transition(w, s)
    \/ Remove(w)

Next == Documented \/ \E w \in Worker : Cancel(w) \/ Decide(w) \/ Reap(w)

Spec == Init /\ [][Next]_machineVars
=============================================================================
