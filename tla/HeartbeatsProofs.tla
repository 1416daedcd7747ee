-------------------------- MODULE HeartbeatsProofs --------------------------
(***************************************************************************)
(* Proofs about Heartbeats, for any workers and any timeout.               *)
(***************************************************************************)
EXTENDS Heartbeats, TLAPS

\* A second more of both changes no verdict for the worse, and none for a
\* worker that has missed its heartbeat.
LEMMA MissedTick ==
  ASSUME TypeOK, Tick, at = "range", NEW w \in Worker
  PROVE  Missed(w, stall)' <=> Missed(w, stall)
<1>1. /\ lastHeartbeat[w] \in (0..Cap) \union {Nil}
      /\ lastHeartbeat'[w] = Older(lastHeartbeat[w])
      /\ stall \in 0..MaxStall /\ stall < MaxStall /\ stall' = stall + 1
  BY DEF TypeOK, Tick, Age
<1>2. CASE lastHeartbeat[w] = Nil
  BY <1>1, <1>2 DEF Missed, Older
<1>3. CASE lastHeartbeat[w] \in 0..Cap
  BY <1>1, <1>3, HeartbeatAssumption DEF Missed, Older, Cap
<1> QED
  BY <1>1, <1>2, <1>3

\* Every step keeps the types.
LEMMA HeartbeatTypes == ASSUME TypeOK, [Next]_vars PROVE TypeOK'
<1> USE HeartbeatAssumption DEF TypeOK, poolVars, checkerVars, historyVars
<1>1. CASE Tick
  <2>1. ASSUME NEW w \in Worker PROVE Older(lastHeartbeat[w]) \in Age \union {Nil}
    BY DEF Older, Age, Cap
  <2> QED
    BY <1>1, <2>1 DEF Tick
<1>2. CASE CheckerStep \/ CheckerEnds
  BY <1>2 DEF CheckerStep, CheckBegins, CheckWorker, CheckReturns, OnOffline, ReportEnds,
     CheckerEnds
<1>3. ASSUME NEW w \in Worker, RecordHeartbeat(w) PROVE TypeOK'
  <2>1. 0 \in Age
    BY DEF Age, Cap
  <2> QED
    BY <1>3, <2>1 DEF RecordHeartbeat
<1>4. ASSUME NEW w \in Worker, AddWorker(w) \/ Terminate(w) \/ RemoveWorker(w)
      PROVE  TypeOK'
  BY <1>4 DEF AddWorker, Terminate, RemoveWorker
<1>5. CASE UNCHANGED vars
  BY <1>5 DEF vars
<1> QED
  BY <1>1, <1>2, <1>3, <1>4, <1>5 DEF Next

\* Every step keeps the checker's list right as of its clock.
LEMMA RangeNext == ASSUME HeartbeatInv, [Next]_vars PROVE RangeInv'
<1> USE DEF HeartbeatInv, RangeInv, poolVars, checkerVars, historyVars
<1>1. CASE Tick
  <2>1. at = "range" => \A w \in Worker : Missed(w, stall)' <=> Missed(w, stall)
    BY <1>1, MissedTick
  <2>2. \A w \in Worker : lastHeartbeat[w] = Nil => lastHeartbeat'[w] = Nil
    BY <1>1 DEF Tick, Older
  <2> QED
    BY <1>1, <2>1, <2>2 DEF Tick, TypeOK
<1>2. ASSUME NEW w \in Worker, RecordHeartbeat(w) PROVE RangeInv'
  <2>1. stall \in Nat /\ Timeout \in Nat /\ lastHeartbeat \in [Worker -> Age \union {Nil}]
    BY HeartbeatAssumption DEF TypeOK
  <2>2. ~Missed(w, stall)'
    BY <1>2, <2>1 DEF RecordHeartbeat, Missed
  <2>3. \A v \in Worker : v # w => Missed(v, stall)' = Missed(v, stall)
    BY <1>2, <2>1 DEF RecordHeartbeat, Missed
  <2> QED
    BY <1>2, <2>1, <2>2, <2>3 DEF RecordHeartbeat, TypeOK
<1>3. ASSUME NEW w \in Worker, AddWorker(w) PROVE RangeInv'
  <2>1. ~Missed(w, stall) /\ w \notin silent
    BY <1>3 DEF AddWorker, Missed
  <2> QED
    BY <1>3, <2>1 DEF AddWorker, Missed
<1>4. ASSUME NEW w \in Worker, Terminate(w) \/ RemoveWorker(w) PROVE RangeInv'
  BY <1>4 DEF Terminate, RemoveWorker, Missed
<1>5. CASE CheckBegins
  <2>1. \A w \in workers' : Missed(w, stall)' <=> w \in silent'
    BY <1>5 DEF CheckBegins, Missed
  <2> QED
    BY <1>5, <2>1 DEF CheckBegins
<1>6. ASSUME NEW w \in Worker, CheckWorker(w) PROVE RangeInv'
  <2>1. \A v \in Worker : Missed(v, stall)' <=> Missed(v, stall)
    BY <1>6 DEF CheckWorker, Missed
  <2>2. offline' \subseteq silent'
    <3>1. at = "range" /\ offline \subseteq silent /\ silent' = silent
      BY <1>6 DEF CheckWorker
    <3>2. w \in workers /\ Missed(w, stall) => w \in silent
      BY <3>1
    <3> QED
      BY <1>6, <3>1, <3>2 DEF CheckWorker
  <2>3. w \in (silent \intersect workers) \ (heard \union terminating) => w \in offline'
    BY <1>6 DEF CheckWorker
  <2> QED
    BY <1>6, <2>1, <2>2, <2>3 DEF CheckWorker, TypeOK
<1>7. CASE CheckReturns \/ ReportEnds \/ CheckerEnds \/ \E w \in Worker : OnOffline(w)
  BY <1>7 DEF CheckReturns, ReportEnds, CheckerEnds, OnOffline
<1>8. CASE UNCHANGED vars
  BY <1>8 DEF vars, Missed
<1> QED
  BY <1>1, <1>2, <1>3, <1>4, <1>5, <1>6, <1>7, <1>8 DEF Next, CheckerStep

\* The inductive invariant of the heartbeat checker.
THEOREM HeartbeatInvariant == Spec => []HeartbeatInv
<1>1. Init => HeartbeatInv
  BY HeartbeatAssumption DEF Init, HeartbeatInv, TypeOK, RangeInv, Age
<1>2. HeartbeatInv /\ [Next]_vars => HeartbeatInv'
  BY HeartbeatTypes, RangeNext DEF HeartbeatInv
<1> QED
  BY <1>1, <1>2, PTL DEF Spec

\* Ages and the checker's lists keep their types, for any timeout.
THEOREM HeartbeatTypeCorrect == Spec => []TypeOK
<1>1. HeartbeatInv => TypeOK
  BY DEF HeartbeatInv
<1> QED
  BY <1>1, HeartbeatInvariant, PTL

\* The list of workers that CheckHeartbeats returns is right as of the moment
\* when it read the clock, for any number of workers, any timeout and any
\* duration of the Range.
THEOREM OfflineAsOfNowTheorem == Spec => []OfflineAsOfNow
<1>1. HeartbeatInv => OfflineAsOfNow
  BY DEF HeartbeatInv, RangeInv, OfflineAsOfNow
<1> QED
  BY <1>1, HeartbeatInvariant, PTL
=============================================================================
