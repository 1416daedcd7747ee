------------------------- MODULE DockerClientsProofs -------------------------
(***************************************************************************)
(* Proofs about DockerClients, for any number of TerminateContainer calls. *)
(*                                                                         *)
(* Before LaunchContainer returns only the starter's own calls change the  *)
(* container; afterwards it can only be stopped and removed.  So whatever  *)
(* the daemon does with a call, and whenever a context expires, the step   *)
(* at which an operation ends finds the container in a state that one of   *)
(* the outcomes of DockerCalls allows for.                                 *)
(***************************************************************************)
EXTENDS DockerClients, TLAPS

\* Each kind of step keeps the inductive invariant.
LEMMA PullKeepsInv ==
  ASSUME CallsInv, ImageInspect \/ ImagePull \/ CopyPullOutput PROVE CallsInv'
<1> USE DockerClientAssumption
    DEF CallsInv, TypeOK, StarterInv, TerminatorInv, LostOnlyByFault,
        NilMeansRemoved, Launched, IDKnown, MockIDKnown, StarterPC, TerminatorPC,
        PullPC, LaunchPC, HealthPC, TermPC, EndPC, MockPC, MockHealthPC, Existing,
        Caller
<1>1. CASE ImageInspect
  BY <1>1 DEF ImageInspect, Call, Goto, Account
<1>2. CASE ImagePull
  BY <1>2 DEF ImagePull, Call, Goto, Account
<1>3. CASE CopyPullOutput
  BY <1>3 DEF CopyPullOutput, Call, Goto, Account
<1> QED
  BY <1>1, <1>2, <1>3

\* LaunchContainer: nobody else knows the container yet.
LEMMA LaunchKeepsInv ==
  ASSUME CallsInv, ContainerCreate \/ ContainerStart \/ CleanupRemove \/ GetContainerInfo
  PROVE  CallsInv'
<1> USE DockerClientAssumption
    DEF CallsInv, TypeOK, StarterInv, TerminatorInv, LostOnlyByFault,
        NilMeansRemoved, Launched, IDKnown, MockIDKnown, StarterPC, TerminatorPC,
        PullPC, LaunchPC, HealthPC, TermPC, EndPC, MockPC, MockHealthPC, Existing,
        Caller
<1>1. CASE ContainerCreate
  BY <1>1 DEF ContainerCreate, Call, Goto, Account
<1>2. CASE ContainerStart
  BY <1>2 DEF ContainerStart, Call, Goto, Account
<1>3. CASE CleanupRemove
  BY <1>3 DEF CleanupRemove, Call, Goto, Account
<1>4. CASE GetContainerInfo
  BY <1>4 DEF GetContainerInfo, Call, Goto, Account
<1> QED
  BY <1>1, <1>2, <1>3, <1>4

\* WaitForHealthy and the exit of the container.
LEMMA HealthKeepsInv ==
  ASSUME CallsInv, DeadlineCheck \/ HealthInspect \/ Wait \/ ContainerExits PROVE CallsInv'
<1> USE DockerClientAssumption
    DEF CallsInv, TypeOK, StarterInv, TerminatorInv, LostOnlyByFault,
        NilMeansRemoved, Launched, IDKnown, MockIDKnown, StarterPC, TerminatorPC,
        PullPC, LaunchPC, HealthPC, TermPC, EndPC, MockPC, MockHealthPC, Existing,
        Caller
<1>1. CASE DeadlineCheck
  BY <1>1 DEF DeadlineCheck, Local, Goto
<1>2. CASE HealthInspect
  BY <1>2 DEF HealthInspect, Local, Call, Goto, Account
<1>3. CASE Wait
  BY <1>3 DEF Wait, Local, Goto
<1>4. CASE ContainerExits
  BY <1>4 DEF ContainerExits
<1> QED
  BY <1>1, <1>2, <1>3, <1>4

\* TerminateContainer of one terminator, while others are at theirs.
LEMMA TerminateKeepsInv ==
  ASSUME CallsInv, NEW t \in Terminator, TerminateCalled(t) \/ TerminatorStep(t)
  PROVE  CallsInv'
<1> USE DockerClientAssumption
    DEF CallsInv, TypeOK, StarterInv, TerminatorInv, LostOnlyByFault,
        NilMeansRemoved, Launched, IDKnown, MockIDKnown, StarterPC, TerminatorPC,
        PullPC, LaunchPC, HealthPC, TermPC, EndPC, MockPC, MockHealthPC, Existing,
        Caller
<1>1. CASE TerminateCalled(t)
  BY <1>1 DEF TerminateCalled, Local, Goto
<1>2. CASE StopContainer(t)
  BY <1>2 DEF StopContainer, Call, Goto, Account
<1>3. CASE RemoveContainer(t)
  BY <1>3 DEF RemoveContainer, Call, Goto, Account
<1> QED
  BY <1>1, <1>2, <1>3 DEF TerminatorStep

\* The mock, as startWorkerContainer uses it.
LEMMA MockStarterKeepsInv ==
  ASSUME CallsInv, MockStarterStep PROVE CallsInv'
<1> USE DockerClientAssumption
    DEF CallsInv, TypeOK, StarterInv, TerminatorInv, LostOnlyByFault,
        NilMeansRemoved, Launched, IDKnown, MockIDKnown, StarterPC, TerminatorPC,
        PullPC, LaunchPC, HealthPC, TermPC, EndPC, MockPC, MockHealthPC, Existing,
        Caller
<1>1. CASE MockPullImage
  BY <1>1 DEF MockPullImage, MockFails, MockDelay, Local, Goto
<1>2. CASE MockLaunchDelay
  BY <1>2 DEF MockLaunchDelay, MockFails, MockDelay, Local, Goto
<1>3. CASE MockLaunchStore
  BY <1>3 DEF MockLaunchStore, Goto
<1>4. CASE MockHealthCheck
  BY <1>4 DEF MockHealthCheck, Local, Goto
<1>5. CASE MockHealthWait
  BY <1>5 DEF MockHealthWait, MockDelay, Local, Goto
<1> QED
  BY <1>1, <1>2, <1>3, <1>4, <1>5 DEF MockStarterStep

\* The mock, as terminateWorker uses it.
LEMMA MockTerminateKeepsInv ==
  ASSUME CallsInv, NEW t \in Terminator, MockTerminateCalled(t) \/ MockTerminatorStep(t)
  PROVE  CallsInv'
<1> USE DockerClientAssumption
    DEF CallsInv, TypeOK, StarterInv, TerminatorInv, LostOnlyByFault,
        NilMeansRemoved, Launched, IDKnown, MockIDKnown, StarterPC, TerminatorPC,
        PullPC, LaunchPC, HealthPC, TermPC, EndPC, MockPC, MockHealthPC, Existing,
        Caller
<1>1. CASE MockTerminateCalled(t)
  BY <1>1 DEF MockTerminateCalled, Local, Goto
<1>2. CASE MockStopContainer(t)
  BY <1>2 DEF MockStopContainer, Goto
<1>3. CASE MockRemoveContainer(t)
  BY <1>3 DEF MockRemoveContainer, Goto
<1> QED
  BY <1>1, <1>2, <1>3 DEF MockTerminatorStep

\* The inductive invariant of the two clients.
THEOREM CallsInvariant == Spec => []CallsInv
<1>1. Init => CallsInv
  BY DockerClientAssumption
     DEF Init, ClientInit, MockInit, CallsInv, TypeOK, StarterInv, TerminatorInv,
         LostOnlyByFault, NilMeansRemoved, Launched, IDKnown, MockIDKnown, StarterPC,
         TerminatorPC, PullPC, LaunchPC, HealthPC, TermPC, EndPC, MockPC,
         MockHealthPC, Existing, Caller
<1>2. CallsInv /\ [Next]_vars => CallsInv'
  <2> SUFFICES ASSUME CallsInv, [Next]_vars PROVE CallsInv'
    OBVIOUS
  <2>1. CASE StarterStep
    BY <2>1, PullKeepsInv, LaunchKeepsInv, HealthKeepsInv DEF StarterStep
  <2>2. CASE ContainerExits
    BY <2>2, HealthKeepsInv
  <2>3. ASSUME NEW t \in Terminator, TerminateCalled(t) \/ TerminatorStep(t)
        PROVE  CallsInv'
    BY <2>3, TerminateKeepsInv
  <2>4. CASE MockStarterStep
    BY <2>4, MockStarterKeepsInv
  <2>5. ASSUME NEW t \in Terminator, MockTerminateCalled(t) \/ MockTerminatorStep(t)
        PROVE  CallsInv'
    BY <2>5, MockTerminateKeepsInv
  <2>6. ASSUME MockExpire \/ \E p \in Caller : Expire(p) PROVE CallsInv'
    BY <2>6 DEF MockExpire, Expire, CallsInv, TypeOK, StarterInv, TerminatorInv,
                LostOnlyByFault, NilMeansRemoved, Launched, IDKnown, MockIDKnown,
                Caller
  <2>7. CASE UNCHANGED vars
    BY <2>7 DEF vars, CallsInv, TypeOK, StarterInv, TerminatorInv, LostOnlyByFault,
                NilMeansRemoved, Launched, IDKnown, MockIDKnown
  <2> QED
    BY <2>1, <2>2, <2>3, <2>4, <2>5, <2>6, <2>7 DEF Next, ClientNext, MockNext
<1> QED
  BY <1>1, <1>2, PTL DEF Spec

\* The clients' and the daemon's state keep their types.
THEOREM DockerTypeCorrect == Spec => []TypeOK
<1>1. CallsInv => TypeOK
  BY DEF CallsInv
<1> QED
  BY <1>1, CallsInvariant, PTL

\* However many TerminateContainer calls race on a container, one that returns
\* an error and leaves it has seen its context expire or the daemon fail.
THEOREM LostOnlyByFaultTheorem == Spec => []LostOnlyByFault
<1>1. CallsInv => LostOnlyByFault
  BY DEF CallsInv
<1> QED
  BY <1>1, CallsInvariant, PTL

\* However many TerminateContainer calls race on a container, it is gone when
\* one of them returns nil.
THEOREM NilMeansRemovedTheorem == Spec => []NilMeansRemoved
<1>1. CallsInv => NilMeansRemoved
  BY DEF CallsInv
<1> QED
  BY <1>1, CallsInvariant, PTL

-----------------------------------------------------------------------------
(***************************************************************************)
(* Refinement: of the calls that an operation makes, one is its step in    *)
(* DockerCalls, and the others do not show there.                          *)
(***************************************************************************)
Stutter ==
  UNCHANGED <<StartCall, CallContainer, lost # {}, Returned>>

\* PullImage, of either client.
LEMMA PullOutcome ==
  ASSUME CallsInv, ImageInspect \/ ImagePull \/ CopyPullOutput \/ MockPullImage
  PROVE  Stutter \/ Calls!PullImage
<1> USE DockerClientAssumption
    DEF CallsInv, TypeOK, StarterInv, TerminatorInv, Launched, IDKnown, MockIDKnown,
        StarterPC, TerminatorPC, PullPC, LaunchPC, HealthPC, TermPC, EndPC, MockPC,
        MockHealthPC, Existing, Caller, Stutter, StartCall,
        CallContainer, Returned, Calls!PullImage
<1>1. CASE ImageInspect
  BY <1>1 DEF ImageInspect, Call, Goto, Account
<1>2. CASE ImagePull
  BY <1>2 DEF ImagePull, Call, Goto, Account
<1>3. CASE CopyPullOutput
  BY <1>3 DEF CopyPullOutput, Call, Goto, Account
<1>4. CASE MockPullImage
  BY <1>4 DEF MockPullImage, MockFails, MockDelay, Local, Goto
<1> QED
  BY <1>1, <1>2, <1>3, <1>4

\* LaunchContainer: a container that is left behind counts as lost.
LEMMA LaunchOutcome ==
  ASSUME CallsInv, ContainerCreate \/ ContainerStart \/ CleanupRemove \/ GetContainerInfo
           \/ MockLaunchDelay \/ MockLaunchStore
  PROVE  Stutter \/ Calls!LaunchContainer
<1> USE DockerClientAssumption
    DEF CallsInv, TypeOK, StarterInv, TerminatorInv, Launched, IDKnown, MockIDKnown,
        StarterPC, TerminatorPC, PullPC, LaunchPC, HealthPC, TermPC, EndPC, MockPC,
        MockHealthPC, Existing, Caller, Stutter, StartCall,
        CallContainer, Returned, Calls!LaunchContainer
<1>1. CASE ContainerCreate
  BY <1>1 DEF ContainerCreate, Call, Goto, Account
<1>2. CASE ContainerStart
  BY <1>2 DEF ContainerStart, Call, Goto, Account
<1>3. CASE CleanupRemove
  BY <1>3 DEF CleanupRemove, Call, Goto, Account
<1>4. CASE GetContainerInfo
  BY <1>4 DEF GetContainerInfo, Call, Goto, Account
<1>5. CASE MockLaunchDelay
  BY <1>5 DEF MockLaunchDelay, MockFails, MockDelay, Local, Goto
<1>6. CASE MockLaunchStore
  BY <1>6 DEF MockLaunchStore, Goto
<1> QED
  BY <1>1, <1>2, <1>3, <1>4, <1>5, <1>6

\* WaitForHealthy changes nothing, whatever becomes of the container.
LEMMA HealthOutcome ==
  ASSUME CallsInv, DeadlineCheck \/ HealthInspect \/ Wait \/ MockHealthCheck
           \/ MockHealthWait
  PROVE  Stutter \/ Calls!WaitForHealthy
<1> USE DockerClientAssumption
    DEF CallsInv, TypeOK, StarterInv, TerminatorInv, Launched, IDKnown, MockIDKnown,
        StarterPC, TerminatorPC, PullPC, LaunchPC, HealthPC, TermPC, EndPC, MockPC,
        MockHealthPC, Existing, Caller, Stutter, StartCall,
        CallContainer, Returned, Calls!WaitForHealthy
<1>1. CASE DeadlineCheck
  BY <1>1 DEF DeadlineCheck, Local, Goto
<1>2. CASE HealthInspect
  BY <1>2 DEF HealthInspect, Local, Call, Goto, Account
<1>3. CASE Wait
  BY <1>3 DEF Wait, Local, Goto
<1>4. CASE MockHealthCheck
  BY <1>4 DEF MockHealthCheck, Local, Goto
<1>5. CASE MockHealthWait
  BY <1>5 DEF MockHealthWait, MockDelay, Local, Goto
<1> QED
  BY <1>1, <1>2, <1>3, <1>4, <1>5

\* TerminateContainer: what counts is its last call.
LEMMA TerminateOutcome ==
  ASSUME CallsInv, NEW t \in Terminator,
         TerminateCalled(t) \/ StopContainer(t) \/ RemoveContainer(t) \/ MockTerminateCalled(t)
           \/ MockStopContainer(t) \/ MockRemoveContainer(t)
  PROVE  Stutter \/ Calls!TerminateContainer(t)
<1> USE DockerClientAssumption
    DEF CallsInv, TypeOK, StarterInv, TerminatorInv, Launched, IDKnown, MockIDKnown,
        StarterPC, TerminatorPC, PullPC, LaunchPC, HealthPC, TermPC, EndPC, MockPC,
        MockHealthPC, Existing, Caller, Stutter, StartCall,
        CallContainer, Returned, Calls!TerminateContainer
<1>1. CASE TerminateCalled(t)
  BY <1>1 DEF TerminateCalled, Local, Goto
<1>2. CASE StopContainer(t)
  BY <1>2 DEF StopContainer, Call, Goto, Account
<1>3. CASE RemoveContainer(t)
  BY <1>3 DEF RemoveContainer, Call, Goto, Account
<1>4. CASE MockTerminateCalled(t)
  BY <1>4 DEF MockTerminateCalled, Local, Goto
<1>5. CASE MockStopContainer(t)
  BY <1>5 DEF MockStopContainer, Goto
<1>6. CASE MockRemoveContainer(t)
  BY <1>6 DEF MockRemoveContainer, Goto
<1> QED
  BY <1>1, <1>2, <1>3, <1>4, <1>5, <1>6

\* A context that expires is not seen until somebody looks at it.
LEMMA ExpireOutcome ==
  ASSUME CallsInv, ContainerExits \/ MockExpire \/ \E p \in Caller : Expire(p)
  PROVE  Stutter
BY DEF ContainerExits, MockExpire, Expire, Stutter, StartCall, CallContainer, Returned,
       Launched, IDKnown, MockIDKnown, Existing

\* What the control plane relies on of pkg/docker is what either client does:
\* each operation, whatever happens between its calls to the daemon, has one
\* of its outcomes of DockerCalls, at one moment.
THEOREM ImplementsCallsTheorem == Spec => ImplementsCalls
<1>1. Init => Calls!Init
  <2> SUFFICES ASSUME Init PROVE Calls!Init
    OBVIOUS
  <2>1. StartCall = "pull" /\ CallContainer = "none" /\ lost = {}
    BY DEF Init, ClientInit, MockInit, StartCall, CallContainer, PullPC, LaunchPC,
           Caller
  <2>2. Returned = {}
    BY DockerClientAssumption
       DEF Init, ClientInit, MockInit, Returned, EndPC, Caller
  <2> QED
    BY <2>1, <2>2 DEF Calls!Init
<1>2. CallsInv /\ [Next]_vars => [Calls!Next]_Calls!callVars
  <2> SUFFICES ASSUME CallsInv, [Next]_vars PROVE Stutter \/ Calls!Next
    BY DEF Stutter, Calls!callVars
  <2>1. CASE StarterStep \/ MockStarterStep
    BY <2>1, PullOutcome, LaunchOutcome, HealthOutcome
       DEF StarterStep, MockStarterStep, Calls!Next
  <2>2. ASSUME NEW t \in Terminator,
               \/ TerminateCalled(t) \/ TerminatorStep(t)
               \/ MockTerminateCalled(t) \/ MockTerminatorStep(t)
        PROVE  Stutter \/ Calls!Next
    BY <2>2, TerminateOutcome DEF TerminatorStep, MockTerminatorStep, Calls!Next
  <2>3. CASE ContainerExits \/ MockExpire \/ \E p \in Caller : Expire(p)
    BY <2>3, ExpireOutcome
  <2>4. CASE UNCHANGED vars
    BY <2>4 DEF vars, Stutter, StartCall, CallContainer, Returned, Launched, IDKnown,
                MockIDKnown
  <2> QED
    BY <2>1, <2>2, <2>3, <2>4 DEF Next, ClientNext, MockNext
<1> QED
  BY <1>1, <1>2, CallsInvariant, PTL DEF Spec, ImplementsCalls, Calls!Spec
=============================================================================
