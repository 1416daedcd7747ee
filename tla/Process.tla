------------------------------- MODULE Process -------------------------------
(***************************************************************************)
(* cmd/aether as a process: it serves, gets a signal, shuts down in the    *)
(* order of main.go, exits, or fails at any moment, and is started again   *)
(* with an empty registry.  What goes on inside is ControlPlane; of the    *)
(* pool there are also stateUpdates, its reader and Stop.  Every start     *)
(* uses the worker ids anew, for the ids of requests are fresh UUIDs.      *)
(*                                                                         *)
(* Only the Docker daemon remembers anything across an exit.               *)
(***************************************************************************)
EXTENDS ControlPlane

CONSTANTS
  MaxStarts,    \* bound: how often the process is started
  BufferSize    \* capacity of stateUpdates (100)

ASSUME ProcessAssumption == MaxStarts \in Nat \ {0} /\ BufferSize \in Nat \ {0}

VARIABLES
  phase,     \* where main is
  starts,    \* how often the process has been started
  checker,   \* whether the goroutine of StartIdleChecker is "on" or has "ended"
  updates,   \* number of updates in stateUpdates
  reader,    \* whether processStateUpdates is "on" or has "ended"
  \* history
  tracked,   \* place of a tracked update in the channel, 0 if it has none
  patient,   \* whether Shutdown has not timed out
  left       \* containers of earlier processes, with their GPUs

channelVars == <<updates, reader, tracked>>
processVars == <<phase, starts, checker, channelVars, patient, left>>
allVars == <<vars, processVars>>

Phase == {"serving", "signalled", "draining", "drained", "stopped", "exited"}

ProcessTypeOK ==
  /\ phase \in Phase /\ starts \in 1..MaxStarts
  /\ checker \in {"on", "ended"} /\ reader \in {"on", "ended"}
  /\ updates \in 0..BufferSize /\ tracked \in 0..updates
  /\ patient \in BOOLEAN
  /\ left \subseteq Worker \X GPU

ProcessInit ==
  /\ Init
  /\ phase = "serving" /\ starts = 1 /\ checker = "on"
  /\ updates = 0 /\ reader = "on" /\ tracked = 0
  /\ patient = TRUE /\ left = {}

Running == phase # "exited"

\* stopChan is closed.
Stopped == phase = "stopped"

-----------------------------------------------------------------------------
(***************************************************************************)
(* Inside the process.  The listener is open until Shutdown closes it.  A  *)
(* connection that was accepted before brings a request to its handler     *)
(* later, too: until Shutdown has seen it idle and closed it, and, if      *)
(* Shutdown timed out, as long as the process lives.                       *)
(***************************************************************************)
Connected ==
  phase \in {"serving", "signalled", "draining"} \/ (Running /\ ~patient)

Request ==
  /\ Connected
  /\ \E w \in Worker : CreateWorker(w) \/ \E d \in Delete : DeleteWorker(w, d)
  /\ UNCHANGED processVars

Work(w) ==
  /\ Running
  /\ CreateStep(w) \/ StartStep(w) \/ \E t \in Caller : TermStep(w, t)
  /\ UNCHANGED processVars

Traffic ==
  /\ Running /\ \E w \in Worker : ReportTraffic(w)
  /\ UNCHANGED processVars

\* Once idleCtx is cancelled the select may still take a tick that is due.
IdleCheck ==
  /\ Running /\ checker = "on"
  /\ IdleStep \/ \E w \in Worker : IdleFound(w)
  /\ UNCHANGED processVars

IdleCheckerEnds ==
  /\ Running /\ phase # "serving" /\ checker = "on" /\ idle.at = "tick"
  /\ checker' = "ended"
  /\ UNCHANGED <<vars, phase, starts, channelVars, patient, left>>

\* The update is dropped when the channel is full.
NotifyStateChange ==
  /\ Running /\ updates < BufferSize
  /\ updates' = updates + 1
  /\ tracked' \in IF tracked = 0 THEN {0, updates'} ELSE {tracked}
  /\ UNCHANGED <<vars, phase, starts, checker, reader, patient, left>>

\* Mutant: the goroutine handles one update and returns.
ProcessOneUpdate ==
  /\ Running /\ reader = "on" /\ updates > 0
  /\ updates' = updates - 1 /\ tracked' = IF tracked = 0 THEN 0 ELSE tracked - 1
  /\ reader' = "ended"
  /\ UNCHANGED <<vars, phase, starts, checker, patient, left>>

ProcessStateUpdate ==
  /\ Running /\ reader = "on" /\ updates > 0
  /\ updates' = updates - 1 /\ tracked' = IF tracked = 0 THEN 0 ELSE tracked - 1
  /\ UNCHANGED <<vars, phase, starts, checker, reader, patient, left>>

ReaderEnds ==
  /\ Stopped /\ reader = "on" /\ reader' = "ended"
  /\ UNCHANGED <<vars, phase, starts, checker, updates, tracked, patient, left>>

-----------------------------------------------------------------------------
(***************************************************************************)
(* main, from the signal on.                                               *)
(***************************************************************************)
MainGoto(from, to) ==
  /\ phase = from /\ phase' = to
  /\ UNCHANGED <<vars, starts, checker, channelVars, left>>

\* SIGINT or SIGTERM; idleCancel.
Signal == MainGoto("serving", "signalled") /\ UNCHANGED patient

ShutdownBegins == MainGoto("signalled", "draining") /\ UNCHANGED patient

\* CreateWorker is on its way in a handler; DeleteWorker is one step.
InFlight ==
  \E w \in Worker :
    create[w] \in {"schedule", "count", "store", "allocate", "assign", "respond"}

\* Mutant: main waits for the goroutines of the pool before it stops them.
ShutdownWaitsForPool ==
  /\ MainGoto("draining", "drained")
  /\ checker = "ended" /\ reader = "ended"
  /\ \/ ~InFlight /\ UNCHANGED patient
     \/ patient' = FALSE

\* Shutdown waits for the handlers, or for 30 seconds: that is what net/http
\* promises of it.  It does not wait for the goroutines that they started.
ShutdownReturns ==
  /\ MainGoto("draining", "drained")
  /\ \/ ~InFlight /\ UNCHANGED patient
     \/ patient' = FALSE

Stop == MainGoto("drained", "stopped") /\ UNCHANGED patient

\* Init holds again: memory and goroutines are gone.  (TLC assigns variables
\* one by one.)
Forget ==
  /\ allocatedVRAM' = [g \in GPU |-> 0]
  /\ loadedModels'  = [g \in GPU |-> {}]
  /\ activeWorkers' = [g \in GPU |-> {}]
  /\ scan' = [w \in Worker |-> [todo |-> GPU, warm |-> {}, cold |-> {}, head |-> Unsorted]]
  /\ status' = [w \in Worker |-> NoStatus]
  /\ gpuAssignment' = [w \in Worker |-> NoGPU]
  /\ containerID' = [w \in Worker |-> FALSE]
  /\ workers' = {} /\ totalCreated' = 0 /\ totalTerminated' = 0
  /\ create' = [w \in Worker |-> "new"] /\ choice' = [w \in Worker |-> NoGPU]
  /\ start' = [w \in Worker |-> "off"] /\ idle' = Sleeping
  /\ term' = [w \in Worker |-> [t \in Caller |-> "off"]]
  /\ container' = [w \in Worker |-> "none"]
  /\ lost' = {} /\ unmatched' = {} /\ reaped' = {}

\* The daemon goes on running the containers.
Exits ==
  /\ phase' = "exited"
  /\ Forget
  /\ left' = left \union
               {x \in Worker \X GPU : container[x[1]] = "up" /\ choice[x[1]] = x[2]}
  /\ checker' = "on" /\ updates' = 0 /\ reader' = "on" /\ tracked' = 0
  /\ patient' = TRUE
  /\ UNCHANGED starts

Return == phase = "stopped" /\ Exits

\* ListenAndServe fails and os.Exit(1) follows, or the process is killed.
Crash == Running /\ Exits

Restart ==
  /\ phase = "exited" /\ starts < MaxStarts
  /\ phase' = "serving" /\ starts' = starts + 1
  /\ UNCHANGED <<vars, checker, channelVars, patient, left>>

Main == ShutdownBegins \/ ShutdownReturns \/ Stop \/ Return

ProcessNext ==
  \/ Request \/ Traffic
  \/ \E w \in Worker : Work(w)
  \/ IdleCheck \/ IdleCheckerEnds
  \/ NotifyStateChange \/ ProcessStateUpdate \/ ReaderEnds
  \/ Signal \/ Main \/ Crash \/ Restart

ProcessSpec == ProcessInit /\ [][ProcessNext]_allVars

\* main and the goroutines of the pool are scheduled, and Shutdown returns
\* after 30 seconds at the latest.
ProcessFairSpec == ProcessSpec /\ WF_allVars(Main) /\ WF_allVars(ProcessStateUpdate)

-----------------------------------------------------------------------------
ProcessInv == ProcessTypeOK /\ ControlInv

\* The shutdown ends, whatever the handlers and goroutines are doing.
ShutdownEnds == phase = "signalled" ~> phase = "exited"

\* An update that was accepted is handled unless the process ends first.
UpdateHandled == tracked > 0 ~> tracked = 0

\* A graceful shutdown finishes the terminations that were accepted.
DeleteSurvivesShutdown ==
  [][Return /\ patient =>
       \A w \in Worker, d \in Delete :
         term[w][d] # "off" => container[w] # "up" \/ w \in lost]_allVars

\* The containers on a GPU fit on it together, those that an earlier process
\* left behind included.
ContainersFit ==
  \A g \in GPU :
    VRAMOf({w \in Worker : container[w] = "up" /\ choice[w] = g})
      + VRAMOf({w \in Worker : <<w, g>> \in left}) <= TotalVRAM[g]
=============================================================================
