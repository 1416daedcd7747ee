----------------------------- MODULE Heartbeats -----------------------------
(***************************************************************************)
(* The heartbeat checker of pkg/orchestrator/worker_pool.go:               *)
(* RecordHeartbeat, called whenever a worker is heard of, and              *)
(* StartHeartbeatChecker, which at every tick calls CheckHeartbeats and    *)
(* then onOffline for each worker on the list that it returned.            *)
(*                                                                         *)
(* Instants are kept as ages, in seconds: how long ago they were, up to    *)
(* Cap, beyond which all comparisons come out the same.  CheckHeartbeats   *)
(* reads the clock once, before its Range, and takes one worker's lock at  *)
(* a time.                                                                 *)
(*                                                                         *)
(* A definition marked "Mutant" is a wrong variant of the one after it,    *)
(* which the properties must tell apart; nothing else refers to it.        *)
(***************************************************************************)
EXTENDS Integers

CONSTANTS
  Worker,
  Timeout,     \* HeartbeatConfig.Timeout
  MaxStall,    \* bound: how long one call of CheckHeartbeats may take
  Nil          \* the zero time.Time

ASSUME HeartbeatAssumption ==
  Timeout \in Nat /\ MaxStall \in Nat /\ Nil \notin Int

Cap == Timeout + MaxStall + 1
Age == 0..Cap

VARIABLES
  workers,       \* keys of the sync.Map
  terminating,   \* workers whose status is TERMINATING, or that are gone
  lastHeartbeat, \* the age of WorkerState.LastHeartbeat, or Nil
  \* StartHeartbeatChecker
  at,            \* "select", "range", "report" or "ended"
  todo,          \* workers that Range has not come to
  stall,         \* the age of CheckHeartbeats' now
  offline,       \* offlineWorkers
  \* history
  silent,        \* workers that had missed their heartbeat at that now
  heard,         \* workers heard of since
  told           \* workers that onOffline was called for since last heard of

poolVars    == <<workers, terminating, lastHeartbeat>>
checkerVars == <<at, todo, stall, offline>>
historyVars == <<silent, heard, told>>
vars == <<poolVars, checkerVars, historyVars>>

Init ==
  /\ workers = {} /\ terminating = {}
  /\ lastHeartbeat = [w \in Worker |-> Nil]
  /\ at = "select" /\ todo = {} /\ stall = 0 /\ offline = {}
  /\ silent = {} /\ heard = {} /\ told = {}

TypeOK ==
  /\ workers \subseteq Worker /\ terminating \subseteq Worker
  /\ lastHeartbeat \in [Worker -> Age \union {Nil}]
  /\ at \in {"select", "range", "report", "ended"}
  /\ todo \subseteq Worker /\ stall \in 0..MaxStall /\ offline \subseteq Worker
  /\ silent \subseteq Worker /\ heard \subseteq Worker /\ told \subseteq Worker

-----------------------------------------------------------------------------
\* One second passes.
Older(age) == IF age = Nil \/ age = Cap THEN age ELSE age + 1

Tick ==
  /\ lastHeartbeat' = [w \in Worker |-> Older(lastHeartbeat[w])]
  /\ IF at = "range" THEN stall < MaxStall /\ stall' = stall + 1 ELSE UNCHANGED stall
  /\ UNCHANGED <<workers, terminating, at, todo, offline, historyVars>>

\* A worker that has not been added before; ids are not reused.
AddWorker(w) ==
  /\ w \notin workers \union terminating
  /\ workers' = workers \union {w}
  /\ UNCHANGED <<terminating, lastHeartbeat, checkerVars, historyVars>>

\* Mutant: the worker's own clock is recorded, which may be ahead.
RecordHeartbeatSkewed(w) ==
  /\ w \in workers
  /\ \E skew \in {-1, 0} : lastHeartbeat' = [lastHeartbeat EXCEPT ![w] = skew]
  /\ heard' = heard \union {w} /\ told' = told \ {w}
  /\ UNCHANGED <<workers, terminating, checkerVars, silent>>

\* An unknown worker's heartbeat is refused and changes nothing.
RecordHeartbeat(w) ==
  /\ w \in workers
  /\ lastHeartbeat' = [lastHeartbeat EXCEPT ![w] = 0]
  /\ heard' = heard \union {w} /\ told' = told \ {w}
  /\ UNCHANGED <<workers, terminating, checkerVars, silent>>

\* terminateWorker makes the worker TERMINATING before it removes it; the idle
\* checker's callback removes it as it is.
Terminate(w) ==
  /\ w \in workers \ terminating
  /\ terminating' = terminating \union {w}
  /\ UNCHANGED <<workers, lastHeartbeat, checkerVars, historyVars>>

RemoveWorker(w) ==
  /\ w \in workers
  /\ workers' = workers \ {w} /\ terminating' = terminating \union {w}
  /\ UNCHANGED <<lastHeartbeat, checkerVars, historyVars>>

-----------------------------------------------------------------------------
\* now.Sub(LastHeartbeat) > timeout, for a now that is d seconds old.
Missed(w, d) == lastHeartbeat[w] # Nil /\ lastHeartbeat[w] - d > Timeout

\* The ticker fires: CheckHeartbeats reads the clock.
CheckBegins ==
  /\ at = "select" /\ at' = "range"
  /\ todo' = workers /\ stall' = 0 /\ offline' = {}
  /\ silent' = {w \in workers : Missed(w, 0)} /\ heard' = {}
  /\ UNCHANGED <<poolVars, told>>

\* Mutant: the clock is read again for each worker.
CheckWorkerNow(w) ==
  /\ at = "range" /\ w \in todo
  /\ todo' = todo \ {w}
  /\ offline' = IF w \in workers \ terminating /\ Missed(w, 0)
                  THEN offline \union {w} ELSE offline
  /\ UNCHANGED <<poolVars, at, stall, historyVars>>

\* One step of Range, under the worker's RLock; a worker that has been deleted
\* meanwhile is skipped.
CheckWorker(w) ==
  /\ at = "range" /\ w \in todo
  /\ todo' = todo \ {w}
  /\ offline' = IF w \in workers \ terminating /\ Missed(w, stall)
                  THEN offline \union {w} ELSE offline
  /\ UNCHANGED <<poolVars, at, stall, historyVars>>

CheckReturns ==
  /\ at = "range" /\ todo = {}
  /\ at' = "report" /\ stall' = 0
  /\ UNCHANGED <<poolVars, todo, offline, historyVars>>

\* Mutant: only the first worker on the list is told of.
OnOfflineOnce(w) ==
  /\ at = "report" /\ w \in offline
  /\ offline' = {} /\ told' = told \union {w}
  /\ UNCHANGED <<poolVars, at, todo, stall, silent, heard>>

\* onOffline(w), for the workers on the list one after the other.
OnOffline(w) ==
  /\ at = "report" /\ w \in offline
  /\ offline' = offline \ {w} /\ told' = told \union {w}
  /\ UNCHANGED <<poolVars, at, todo, stall, silent, heard>>

ReportEnds ==
  /\ at = "report" /\ offline = {}
  /\ at' = "select"
  /\ UNCHANGED <<poolVars, todo, stall, offline, historyVars>>

\* ctx is cancelled or stopChan closed, and select takes that case: in between
\* two checks only.
CheckerEnds ==
  /\ at = "select" /\ at' = "ended"
  /\ UNCHANGED <<poolVars, todo, stall, offline, historyVars>>

CheckerStep ==
  \/ CheckBegins \/ CheckReturns \/ ReportEnds
  \/ \E w \in Worker : CheckWorker(w) \/ OnOffline(w)

Next ==
  \/ Tick \/ CheckerStep \/ CheckerEnds
  \/ \E w \in Worker :
       AddWorker(w) \/ RecordHeartbeat(w) \/ Terminate(w) \/ RemoveWorker(w)

\* Time passes, and the checker's goroutine runs and its ticker fires.  Nothing
\* obliges anybody to stop it.
Spec == Init /\ [][Next]_vars
FairSpec == Spec /\ WF_vars(Tick) /\ WF_vars(CheckerStep)

-----------------------------------------------------------------------------
\* The list that CheckHeartbeats returns is right as of one moment, the one
\* when it read the clock, however long the Range takes and whatever happens
\* to the workers meanwhile: every worker on it had missed its heartbeat then
\* (one that was never heard of has not), and one that had is on it unless it
\* was heard of or terminated during the call.
OfflineAsOfNow ==
  /\ at = "range" => offline \subseteq silent
  /\ at = "range" /\ todo = {} =>
       (silent \intersect workers) \ (heard \union terminating) \subseteq offline

\* Why: a worker that was never added was never heard of; during the call the
\* workers not heard of since look as they did when the clock was read, no
\* other looks worse, and those already judged are right.
RangeInv ==
  /\ \A w \in Worker \ (workers \union terminating) : lastHeartbeat[w] = Nil
  /\ silent \subseteq workers \union terminating
  /\ at = "range" =>
       /\ offline \subseteq silent
       /\ \A w \in workers :
            /\ Missed(w, stall) => w \in silent
            /\ w \in silent \ heard => Missed(w, stall)
       /\ (silent \intersect workers) \ (heard \union terminating)
            \subseteq offline \union todo

HeartbeatInv == TypeOK /\ RangeInv

\* A worker that stays registered and silent is reported to onOffline, unless
\* the checker is stopped.
SilentWorkerReported ==
  \A w \in Worker :
    (w \in workers \ terminating /\ lastHeartbeat[w] = Cap)
      ~> \/ w \in told \/ w \notin workers \ terminating \/ lastHeartbeat[w] # Cap
         \/ at = "ended"
=============================================================================
