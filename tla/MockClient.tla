----------------------------- MODULE MockClient -----------------------------
(***************************************************************************)
(* pkg/docker/mock_client.go: the client without a daemon.  Its map has    *)
(* the container or not; a container that was stopped is "exited" in it.   *)
(* Time passes in selects between a delay and the context, and each access *)
(* to the map is one critical section.                                     *)
(*                                                                         *)
(* These are its methods, not its use: of the repository only cmd/demo     *)
(* calls them, PullImage and then LaunchContainer, under a context that    *)
(* does not end.  The mock has the methods of Client and is one "for       *)
(* testing without actual containers": it is called here as the callers of *)
(* Client would call it, with the health check after the launch,           *)
(* TerminateContainers by whoever has the id, and a context that may end.  *)
(***************************************************************************)
EXTENDS DockerClient

MockHealthPC == {"mockCheck", "mockWait"}
MockPC == {"mockPull", "mockLaunch", "mockStore", "mockStop", "mockRemove", "mockOff"}
            \union MockHealthPC

\* LaunchContainer has returned the id.
MockIDKnown == pc[Starter] \in MockHealthPC \union {"nil", "unhealthy"}

MockInit ==
  /\ pc = [p \in Caller |-> IF p = Starter THEN "mockPull" ELSE "mockOff"]
  /\ expired = {} /\ erred = {} /\ lost = {}
  /\ image = TRUE /\ container = "absent"

\* FailPull and FailStart make the call fail.
MockFails(at) ==
  /\ pc[Starter] = at /\ Goto(Starter, "failed")
  /\ erred' = erred \union {Starter}
  /\ UNCHANGED <<expired, image, container, lost>>

\* select between the delay and the context.
MockDelay(at, ok, err) ==
  \/ Local(Starter, at, ok)
  \/ Starter \in expired /\ Local(Starter, at, err)

MockPullImage == MockFails("mockPull") \/ MockDelay("mockPull", "mockLaunch", "failed")

MockLaunchDelay ==
  MockFails("mockLaunch") \/ MockDelay("mockLaunch", "mockStore", "failed")

MockLaunchStore ==
  /\ pc[Starter] = "mockStore" /\ Goto(Starter, "mockCheck")
  /\ container' = "running"
  /\ UNCHANGED <<expired, image, erred, lost>>

\* Whether the container exists is looked up before the wait only.
MockHealthCheck ==
  Local(Starter, "mockCheck", IF container \in Existing THEN "mockWait" ELSE "unhealthy")

MockHealthWait == MockDelay("mockWait", "nil", "unhealthy")

\* TerminateContainer: the error of StopContainer is dropped, and the context is
\* not looked at.
MockTerminateCalled(t) == MockIDKnown /\ Local(t, "mockOff", "mockStop")

\* Mutant: the mock invents a status.
MockStopMislabels(t) ==
  /\ pc[t] = "mockStop" /\ Goto(t, "mockRemove")
  /\ container' = IF container \in Existing THEN "stopped" ELSE container
  /\ UNCHANGED <<expired, image, erred, lost>>

MockStopContainer(t) ==
  /\ pc[t] = "mockStop" /\ Goto(t, "mockRemove")
  /\ container' = IF container \in Existing THEN "exited" ELSE container
  /\ UNCHANGED <<expired, image, erred, lost>>

MockRemoveContainer(t) ==
  /\ pc[t] = "mockRemove" /\ Goto(t, "nil")
  /\ container' = "removed"
  /\ UNCHANGED <<expired, image, erred, lost>>

\* <-ctx.Done() of the selects.
MockExpire ==
  /\ pc[Starter] \in MockPC /\ Starter \notin expired
  /\ expired' = expired \union {Starter}
  /\ UNCHANGED <<pc, image, container, erred, lost>>

MockStarterStep ==
  \/ MockPullImage \/ MockLaunchDelay \/ MockLaunchStore
  \/ MockHealthCheck \/ MockHealthWait

MockTerminatorStep(t) == MockStopContainer(t) \/ MockRemoveContainer(t)

MockNext ==
  \/ MockStarterStep \/ MockExpire
  \/ \E t \in Terminator : MockTerminateCalled(t) \/ MockTerminatorStep(t)

\* Delays end.
MockFairness ==
  /\ WF_vars(MockStarterStep)
  /\ \A t \in Terminator : WF_vars(MockTerminatorStep(t))
=============================================================================
