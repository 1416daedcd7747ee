---------------------------- MODULE DockerClients ----------------------------
(***************************************************************************)
(* The two clients of pkg/docker under the same callers, and what both     *)
(* promise: the outcomes of DockerCalls.                                   *)
(***************************************************************************)
EXTENDS MockClient

Init == ClientInit \/ MockInit
Next == ClientNext \/ MockNext
Spec == Init /\ [][Next]_vars
FairSpec == Spec /\ ClientFairness /\ MockFairness

TypeOK ==
  /\ pc \in [Caller -> PullPC \union LaunchPC \union HealthPC \union TermPC
                         \union EndPC \union MockPC \union {"off"}]
  /\ expired \subseteq Caller
  /\ image \in BOOLEAN
  /\ container \in Existing \union {"absent", "removed"}
  /\ erred \subseteq Caller /\ lost \subseteq Caller

-----------------------------------------------------------------------------
\* The call of DockerCalls that startWorkerContainer is in.
StartCall ==
  LET at == pc[Starter]
  IN  IF at \in PullPC \union {"mockPull"} THEN "pull"
      ELSE IF at \in LaunchPC \union {"mockLaunch", "mockStore"} THEN "launch"
      ELSE IF at \in HealthPC \union MockHealthPC THEN "health"
      ELSE IF at = "nil" THEN "healthy" ELSE at

\* LaunchContainer has returned the id of the container.
Launched == IDKnown \/ MockIDKnown

\* The container counts from that moment, or from when its id is lost.
CallContainer ==
  IF StartCall \in {"pull", "launch"} THEN "none"
  ELSE IF container \in Existing THEN "up"
  ELSE IF Launched THEN "removed" ELSE "none"

\* The TerminateContainer calls that have returned.
Returned == {t \in Terminator : pc[t] \in EndPC}

Calls == INSTANCE DockerCalls WITH
  start <- StartCall,
  container <- CallContainer,
  lost <- lost # {},
  done <- Returned

\* However contexts expire and the daemon fails between the calls of
\* client.go, and however several TerminateContainer calls on one container
\* and its own exit interleave, each operation of either client has one of the
\* outcomes that the control plane is modelled with, at one moment.
ImplementsCalls == Calls!Spec

\* Interleaving alone loses no container: an operation returns an error and
\* leaves the container only to a caller whose context expired, or to whom
\* the daemon failed.
LostOnlyByFault == lost \subseteq expired \union erred

\* When TerminateContainer returns nil the container is gone, whoever else is
\* stopping, removing or inspecting it.
NilMeansRemoved == \A t \in Terminator : pc[t] = "nil" => container = "removed"

(***************************************************************************)
(* The inductive invariant behind these.                                   *)
(***************************************************************************)
StarterPC ==
  PullPC \union LaunchPC \union HealthPC \union EndPC
    \union {"mockPull", "mockLaunch", "mockStore"} \union MockHealthPC

TerminatorPC ==
  TermPC \union {"off", "mockOff", "mockStop", "mockRemove", "nil", "failed"}

\* Until it is launched the container is the starter's alone ...
StarterInv ==
  /\ pc[Starter] \in StarterPC
  /\ pc[Starter] \in PullPC \union {"create", "mockPull", "mockLaunch", "mockStore"} =>
       container = "absent"
  /\ pc[Starter] \in {"start", "cleanup", "inspect"} => container \in Existing
  /\ Launched => container \in Existing \union {"removed"}

\* ... and from then on it does not run again once it has been stopped.
TerminatorInv(t) ==
  /\ pc[t] \in TerminatorPC
  /\ pc[t] \notin {"off", "mockOff"} => Launched
  /\ pc[t] = "remove" => container \in {"exited", "removed"}

CallsInv ==
  /\ TypeOK
  /\ StarterInv
  /\ \A t \in Terminator : TerminatorInv(t)
  /\ LostOnlyByFault
  /\ NilMeansRemoved

\* Every operation returns, even if the daemon never answers: this is what
\* the goroutines of the control plane wait for.
CallsReturn ==
  /\ <>(pc[Starter] \in EndPC)
  /\ \A t \in Terminator : pc[t] \in TermPC \union {"mockStop"} ~> pc[t] \in EndPC

\* "Clean up the created container" when it does not start, where the daemon
\* itself never fails.
FailedStartCleansUp ==
  [][pc[Starter] = "cleanup" /\ pc'[Starter] = "failed" /\ erred = {}
       => container' \notin Existing]_vars

\* "Force remove if stop fails", where the daemon itself never fails.
ForceRemoves ==
  [][\A t \in Terminator :
       pc[t] = "forceRemove" /\ pc'[t] = "failed" /\ erred' = {}
         => container' \notin Existing]_vars

\* PullImage returns nil once the image is on the host.
PulledImageIsThere == pc[Starter] = "create" => image
=============================================================================
