----------------------------- MODULE DockerCalls -----------------------------
(***************************************************************************)
(* What the control plane relies on of pkg/docker, for the container of    *)
(* one worker: each call is one step with an outcome, and a failure may    *)
(* leave the container behind.  These are the outcomes of PullImage,       *)
(* LaunchContainer, WaitForHealthy and TerminateContainer of ControlPlane. *)
(***************************************************************************)
CONSTANT Terminator   \* who may call TerminateContainer on the container

VARIABLES
  start,       \* which call of startWorkerContainer is next, or how it ended
  container,   \* "none", "up" (the daemon has it) or "removed"
  lost,        \* whether a call failed and left the container
  done         \* the TerminateContainer calls that have returned

callVars == <<start, container, lost, done>>

Init ==
  /\ start = "pull" /\ container = "none"
  /\ lost = FALSE /\ done = {}

PullImage ==
  /\ start = "pull" /\ start' \in {"launch", "failed"}
  /\ UNCHANGED <<container, lost, done>>

LaunchContainer ==
  /\ start = "launch"
  /\ \/ start' = "health" /\ container' = "up" /\ UNCHANGED lost
     \/ start' = "failed" /\ UNCHANGED <<container, lost>>
     \/ start' = "failed" /\ container' = "up" /\ lost' = TRUE
  /\ UNCHANGED done

\* Either answer is possible even if the container has been removed since.
WaitForHealthy ==
  /\ start = "health" /\ start' \in {"healthy", "unhealthy"}
  /\ UNCHANGED <<container, lost, done>>

\* The id of the container is known once LaunchContainer has returned it.
TerminateContainer(t) ==
  /\ start \in {"health", "healthy", "unhealthy"}
  /\ t \notin done /\ done' = done \union {t}
  /\ \/ container = "up" /\ container' = "removed" /\ UNCHANGED lost
     \/ container = "up" /\ lost' = TRUE /\ UNCHANGED container
     \/ container # "up" /\ UNCHANGED <<container, lost>>
  /\ UNCHANGED start

Next ==
  \/ PullImage \/ LaunchContainer \/ WaitForHealthy
  \/ \E t \in Terminator : TerminateContainer(t)

Spec == Init /\ [][Next]_callVars
=============================================================================
