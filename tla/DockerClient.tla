---------------------------- MODULE DockerClient ----------------------------
(***************************************************************************)
(* pkg/docker/client.go: the calls to the Docker daemon that PullImage,    *)
(* LaunchContainer, WaitForHealthy and TerminateContainer are made of, for *)
(* the container of one worker.  startWorkerContainer makes the first      *)
(* three under one context of two minutes; every terminateWorker, and the  *)
(* idle callback, calls the fourth under a context of its own of 30 s.     *)
(* Any context may expire at any moment, before a call or during one.      *)
(*                                                                         *)
(* The daemon is external.  It carries a call out, rejects it because of   *)
(* the state of the container, fails for a reason of its own, or does not  *)
(* answer.  A call that was carried out may still be reported as failed,   *)
(* if the context expires while the answer is on its way; a call that the  *)
(* client gave up on before is not carried out later.                      *)
(***************************************************************************)
EXTENDS FiniteSets

CONSTANT Terminator   \* who may call TerminateContainer on the container

Starter == "startWorkerContainer"
Caller  == Terminator \union {Starter}

ASSUME DockerClientAssumption == Starter \notin Terminator

VARIABLES
  pc,          \* the call that each caller makes next, or how it ended
  expired,     \* callers whose context has expired
  \* Docker daemon
  image,       \* whether the image is on the host
  container,   \* absent, created, running, exited or removed
  \* history
  erred,       \* callers to whom the daemon failed for no visible reason
  lost         \* callers that returned an error and left the container,
               \* which nobody who does not know its id can remove

vars == <<pc, expired, image, container, erred, lost>>

PullPC   == {"imageInspect", "imagePull", "copy"}
LaunchPC == {"create", "start", "cleanup", "inspect"}
HealthPC == {"deadline", "healthInspect", "wait"}
TermPC   == {"stop", "remove", "forceRemove"}
EndPC    == {"nil", "unhealthy", "failed"}

Existing == {"created", "running", "exited"}

\* LaunchContainer has returned the id and SetContainerID has stored it.
IDKnown == pc[Starter] \in HealthPC \union {"nil", "unhealthy"}

ClientInit ==
  /\ pc = [p \in Caller |-> IF p = Starter THEN "imageInspect" ELSE "off"]
  /\ expired = {} /\ erred = {} /\ lost = {}
  /\ image \in BOOLEAN /\ container = "absent"

-----------------------------------------------------------------------------
Goto(p, to) == pc' = [pc EXCEPT ![p] = to]

Account(p) ==
  lost' = IF pc'[p] = "failed" /\ container' \in Existing
            THEN lost \union {p} ELSE lost

\* A call to the daemon that p makes at the given point, and where p goes on.
\* The daemon does what is asked of it if it accepts.
Call(p, at, ok, err, accepts, image2, container2) ==
  /\ pc[p] = at
  /\ \/ /\ p \notin expired /\ accepts
        /\ image' = image2 /\ container' = container2
        /\ \/ Goto(p, ok)  /\ UNCHANGED expired
           \/ Goto(p, err) /\ expired' = expired \union {p}
        /\ UNCHANGED erred
     \/ /\ p \notin expired /\ ~accepts
        /\ Goto(p, err) /\ UNCHANGED <<expired, image, container, erred>>
     \/ /\ p \notin expired /\ erred' = erred \union {p}
        /\ Goto(p, err) /\ UNCHANGED <<expired, image, container>>
     \/ /\ p \in expired
        /\ Goto(p, err) /\ UNCHANGED <<expired, image, container, erred>>
  /\ Account(p)

\* A step that calls nobody.
Local(p, at, to) ==
  /\ pc[p] = at /\ Goto(p, to)
  /\ UNCHANGED <<expired, image, container, erred, lost>>

(***************************************************************************)
(* PullImage.                                                              *)
(***************************************************************************)
ImageInspect ==
  Call(Starter, "imageInspect", "create", "imagePull", image, image, container)

ImagePull ==
  Call(Starter, "imagePull", "copy", "failed", TRUE, image, container)

\* io.Copy: the stream ends without error whether or not the image is there
\* then, for the daemon reports the errors of a pull inside the stream.
CopyPullOutput ==
  \E pulled \in BOOLEAN :
    Call(Starter, "copy", "create", "failed", TRUE, pulled, container)

(***************************************************************************)
(* LaunchContainer.  When the start fails the container is removed, under  *)
(* the same context; the other errors return at once.                      *)
(***************************************************************************)
ContainerCreate ==
  Call(Starter, "create", "start", "failed", image, image, "created")

\* The daemon may be unable to start the container (image, GPU): that is a
\* rejection and no fault.
ContainerStart ==
  \E able \in BOOLEAN :
    Call(Starter, "start", "inspect", "cleanup", able, image, "running")

CleanupRemove ==
  Call(Starter, "cleanup", "failed", "failed", TRUE, image, "removed")

GetContainerInfo ==
  Call(Starter, "inspect", "deadline", "failed", TRUE, image, container)

(***************************************************************************)
(* WaitForHealthy, and the exit of the container that it may see or miss.  *)
(***************************************************************************)
DeadlineCheck ==
  Local(Starter, "deadline", "healthInspect") \/ Local(Starter, "deadline", "unhealthy")

\* A running container is healthy if it has no health check or has passed it.
HealthInspect ==
  \/ Call(Starter, "healthInspect", "nil", "unhealthy",
          container = "running", image, container)
  \/ /\ container = "running" /\ Starter \notin expired
     /\ Local(Starter, "healthInspect", "wait")

\* If both channels of the select are ready, either is taken.
Wait ==
  \/ Local(Starter, "wait", "deadline")
  \/ Starter \in expired /\ Local(Starter, "wait", "unhealthy")

ContainerExits ==
  /\ container = "running" /\ container' = "exited"
  /\ UNCHANGED <<pc, expired, image, erred, lost>>

(***************************************************************************)
(* TerminateContainer: stop, then remove; remove by force if the stop      *)
(* failed, for whatever reason.                                            *)
(***************************************************************************)
TerminateCalled(t) == IDKnown /\ Local(t, "off", "stop")

\* Mutant: the container is removed without being stopped.
StopSkipped(t) == Local(t, "stop", "remove")

\* Mutant: a container that stops is not removed.
StopEnds(t) ==
  Call(t, "stop", "nil", "forceRemove", container \in Existing, image, "exited")

\* Mutant: the container is one that the daemon removes when it stops.
StopAutoRemoves(t) ==
  Call(t, "stop", "remove", "forceRemove", container \in Existing, image, "removed")

\* To stop a container that has exited is no error.
StopContainer(t) ==
  Call(t, "stop", "remove", "forceRemove", container \in Existing, image, "exited")

RemoveContainer(t) ==
  \/ Call(t, "remove", "nil", "failed", container = "exited", image, "removed")
  \/ Call(t, "forceRemove", "nil", "failed", container \in Existing, image, "removed")

\* Mutant: the context of a terminateWorker has no timeout.
ExpireStarter(p) ==
  /\ p = Starter /\ pc[p] \notin EndPC /\ p \notin expired
  /\ expired' = expired \union {p}
  /\ UNCHANGED <<pc, image, container, erred, lost>>

\* The context exists from the first call of p to its return.
Expire(p) ==
  /\ pc[p] \notin EndPC \union {"off"} /\ p \notin expired
  /\ expired' = expired \union {p}
  /\ UNCHANGED <<pc, image, container, erred, lost>>

-----------------------------------------------------------------------------
StarterStep ==
  \/ ImageInspect \/ ImagePull \/ CopyPullOutput
  \/ ContainerCreate \/ ContainerStart \/ CleanupRemove \/ GetContainerInfo
  \/ DeadlineCheck \/ HealthInspect \/ Wait

TerminatorStep(t) == StopContainer(t) \/ RemoveContainer(t)

ClientNext ==
  \/ StarterStep
  \/ ContainerExits
  \/ \E t \in Terminator : TerminateCalled(t) \/ TerminatorStep(t)
  \/ \E p \in Caller : Expire(p)

\* Nothing obliges the daemon to answer.  A context expires, and then the
\* client gives up.
ClientFairness ==
  /\ WF_vars(StarterStep /\ Starter \in expired)
  /\ \A t \in Terminator : WF_vars(TerminatorStep(t) /\ t \in expired)
  /\ \A p \in Caller : WF_vars(Expire(p))
=============================================================================
