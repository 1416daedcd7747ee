---------------------------- MODULE ScheduleLocks ----------------------------
(***************************************************************************)
(* The mutexes of pkg/orchestrator/scheduler.go: which GPUResidency.mu     *)
(* Schedule, Allocate and Release take, and in which order.  Scheduler     *)
(* treats each stretch under a lock as one step; this module asks whether  *)
(* the calls always get through to the next one.                           *)
(*                                                                         *)
(* Scheduler.mu is left out: after startup it is only taken for reading.   *)
(* What the calls read and write under the locks is left out too: any GPU  *)
(* may turn out to be a candidate.                                         *)
(*                                                                         *)
(* A definition marked "Mutant" is a wrong variant of the one after it,    *)
(* which the properties must tell apart; nothing else refers to it.        *)
(***************************************************************************)
EXTENDS Naturals, FiniteSets

CONSTANTS
  GPU,
  Reader,      \* calls of Schedule
  Writer,      \* calls of Allocate and Release
  NoCall, NoGPU \* nobody, nothing

\* setupSimulatedGPUs registers at least one GPU.
ASSUME LocksAssumption ==
  /\ GPU # {}
  /\ Reader \intersect Writer = {}
  /\ NoCall \notin Reader \union Writer

Call == Reader \union Writer

VARIABLES
  \* the sync.RWMutex of each GPU
  readers,     \* calls that hold it for reading
  waiting,     \* calls of RLock that wait for a writer to be done
  writer,      \* the call of Lock that readers wait for
  \* the calls
  pc,
  gpus,        \* the GPUs whose lock the call holds or asks for, by role
  todo,        \* GPUs that the loop of Schedule has not come to
  candidates,  \* the list that will be sorted
  compared     \* pairs of it that have been compared

lockVars == <<readers, waiting, writer>>
listVars == <<todo, candidates, compared>>
vars == <<lockVars, pc, gpus, listVars>>

NoGPUs == [first |-> NoGPU, second |-> NoGPU]

Init ==
  /\ readers = [g \in GPU |-> {}]
  /\ waiting = [g \in GPU |-> {}]
  /\ writer  = [g \in GPU |-> NoCall]
  /\ pc   = [c \in Call |-> "new"]
  /\ gpus = [c \in Call |-> NoGPUs]
  /\ todo = [c \in Reader |-> GPU]
  /\ candidates = [c \in Reader |-> {}]
  /\ compared   = [c \in Reader |-> {}]

-----------------------------------------------------------------------------
(***************************************************************************)
(* sync.RWMutex, from the Go library.  A reader that comes while a writer  *)
(* holds or waits for the lock waits for that writer, so that readers      *)
(* cannot starve writers; readers that wait get the lock from its Unlock.  *)
(***************************************************************************)
RLock(c, g) ==
  IF writer[g] = NoCall
    THEN readers' = [readers EXCEPT ![g] = @ \union {c}] /\ UNCHANGED waiting
    ELSE waiting' = [waiting EXCEPT ![g] = @ \union {c}] /\ UNCHANGED readers

RUnlock(c, S) == readers' = [g \in GPU |-> IF g \in S THEN readers[g] \ {c} ELSE readers[g]]

Holds(c, g) == c \in readers[g]

Goto(c, from, to) == pc[c] = from /\ pc' = [pc EXCEPT ![c] = to]

(***************************************************************************)
(* Schedule.                                                               *)
(***************************************************************************)
ScanLock(c, g) ==
  /\ g \in todo[c]
  /\ Goto(c, "new", "scan")
  /\ RLock(c, g)
  /\ gpus' = [gpus EXCEPT ![c].first = g]
  /\ UNCHANGED <<writer, listVars>>

ScanUnlock(c) ==
  LET g == gpus[c].first IN
  /\ Goto(c, "scan", IF todo[c] = {g} THEN "sort" ELSE "new")
  /\ Holds(c, g)
  /\ RUnlock(c, {g})
  /\ todo' = [todo EXCEPT ![c] = @ \ {g}]
  /\ \/ candidates' = [candidates EXCEPT ![c] = @ \union {g}]
     \/ UNCHANGED candidates
  /\ gpus' = [gpus EXCEPT ![c] = NoGPUs]
  /\ UNCHANGED <<waiting, writer, compared>>

\* The comparator of sort.Slice: RLock of one, then RLock of the other.  The
\* list starts in map order, so either of the two can be the one.
CompareFirst(c, g, h) ==
  /\ {g, h} \subseteq candidates[c] /\ g # h /\ {g, h} \notin compared[c]
  /\ Goto(c, "sort", "first")
  /\ RLock(c, g)
  /\ gpus' = [gpus EXCEPT ![c] = [first |-> g, second |-> h]]
  /\ UNCHANGED <<writer, listVars>>

CompareSecond(c) ==
  /\ Goto(c, "first", "second")
  /\ Holds(c, gpus[c].first)
  /\ RLock(c, gpus[c].second)
  /\ UNCHANGED <<writer, gpus, listVars>>

\* Mutant: one of the two RUnlocks is missing.
CompareDoneOnce(c) ==
  /\ Goto(c, "second", "sort")
  /\ Holds(c, gpus[c].second)
  /\ RUnlock(c, {gpus[c].second})
  /\ compared' = [compared EXCEPT ![c] = @ \union {{gpus[c].first, gpus[c].second}}]
  /\ gpus' = [gpus EXCEPT ![c] = NoGPUs]
  /\ UNCHANGED <<waiting, writer, todo, candidates>>

\* Both deferred RUnlocks.
CompareDone(c) ==
  /\ Goto(c, "second", "sort")
  /\ Holds(c, gpus[c].second)
  /\ RUnlock(c, {gpus[c].first, gpus[c].second})
  /\ compared' = [compared EXCEPT ![c] = @ \union {{gpus[c].first, gpus[c].second}}]
  /\ gpus' = [gpus EXCEPT ![c] = NoGPUs]
  /\ UNCHANGED <<waiting, writer, todo, candidates>>

\* Sorting takes at least one comparison of every element.
Sorted(c) ==
  Cardinality(candidates[c]) > 1 => candidates[c] \subseteq UNION compared[c]

ReturnNil(c) ==
  /\ candidates[c] = {}
  /\ Goto(c, "sort", "done")
  /\ UNCHANGED <<lockVars, gpus, listVars>>

\* The head of the list is locked while the result is built.
ReturnLock(c, g) ==
  /\ g \in candidates[c] /\ Sorted(c)
  /\ Goto(c, "sort", "return")
  /\ RLock(c, g)
  /\ gpus' = [gpus EXCEPT ![c].first = g]
  /\ UNCHANGED <<writer, listVars>>

\* Mutant: the deferred RUnlock is missing.
ReturnForgetsUnlock(c) ==
  /\ Goto(c, "return", "done")
  /\ Holds(c, gpus[c].first)
  /\ UNCHANGED <<lockVars, gpus, listVars>>

Return(c) ==
  /\ Goto(c, "return", "done")
  /\ Holds(c, gpus[c].first)
  /\ RUnlock(c, {gpus[c].first})
  /\ gpus' = [gpus EXCEPT ![c] = NoGPUs]
  /\ UNCHANGED <<waiting, writer, listVars>>

ScheduleStep(c) ==
  \/ \E g \in GPU : ScanLock(c, g) \/ ReturnLock(c, g)
  \/ \E g, h \in GPU : CompareFirst(c, g, h)
  \/ ScanUnlock(c) \/ CompareSecond(c) \/ CompareDone(c)
  \/ ReturnNil(c) \/ Return(c)

(***************************************************************************)
(* Allocate and Release.                                                   *)
(***************************************************************************)

\* Lock waits for other writers, then keeps new readers out.
Lock(c, g) ==
  /\ writer[g] = NoCall
  /\ Goto(c, "new", "lock")
  /\ writer' = [writer EXCEPT ![g] = c]
  /\ gpus' = [gpus EXCEPT ![c].first = g]
  /\ UNCHANGED <<readers, waiting, listVars>>

\* The readers are gone: the critical section runs and Unlock lets the
\* readers in that came meanwhile.
Unlock(c) ==
  LET g == gpus[c].first IN
  /\ Goto(c, "lock", "done")
  /\ readers[g] = {}
  /\ readers' = [readers EXCEPT ![g] = waiting[g]]
  /\ waiting' = [waiting EXCEPT ![g] = {}]
  /\ writer'  = [writer EXCEPT ![g] = NoCall]
  /\ gpus' = [gpus EXCEPT ![c] = NoGPUs]
  /\ UNCHANGED listVars

WriteStep(c) == (\E g \in GPU : Lock(c, g)) \/ Unlock(c)

-----------------------------------------------------------------------------
Next == (\E c \in Reader : ScheduleStep(c)) \/ (\E c \in Writer : WriteStep(c))

\* Goroutines that can go on do.
Fairness ==
  /\ \A c \in Reader : WF_vars(ScheduleStep(c))
  /\ \A c \in Writer : WF_vars(WriteStep(c))

Spec == Init /\ [][Next]_vars
FairSpec == Spec /\ Fairness

-----------------------------------------------------------------------------
\* The GPUs that a call has asked a read lock of and not given it back.
Asked(c) ==
  IF pc[c] \in {"scan", "first", "return"} THEN {gpus[c].first}
  ELSE IF pc[c] = "second" THEN {gpus[c].first, gpus[c].second} ELSE {}

\* No path through Schedule leaves a lock behind: the read locks that a call
\* holds or waits for are the ones its position in the code accounts for.
NoLockLeak ==
  \A c \in Reader, g \in GPU : Holds(c, g) \/ c \in waiting[g] <=> g \in Asked(c)

\* What each step of a call waits for: the guards of ScheduleStep, WriteStep.
CanGo(c) ==
  \/ c \in Reader /\ pc[c] = "new" /\ todo[c] # {}
  \/ pc[c] \in {"scan", "first", "return"} /\ Holds(c, gpus[c].first)
  \/ pc[c] = "second" /\ Holds(c, gpus[c].second)
  \/ /\ pc[c] = "sort"
     /\ \/ candidates[c] = {} \/ Sorted(c)
        \/ \E g, h \in candidates[c] : g # h /\ {g, h} \notin compared[c]
  \/ c \in Writer /\ pc[c] = "new" /\ \E g \in GPU : writer[g] = NoCall
  \/ pc[c] = "lock" /\ readers[gpus[c].first] = {}

\* The calls block one another only while writers wait for two different GPUs.
\* A comparator that cannot take its second lock waits behind a writer; with
\* no other writer about, it is not held up by whom that writer waits for.
StuckBetweenWriters ==
  \/ \A c \in Call : pc[c] = "done"
  \/ \E c \in Call : CanGo(c)
  \/ \E g, h \in GPU : g # h /\ writer[g] # NoCall /\ writer[h] # NoCall

(***************************************************************************)
(* The inductive invariant behind these: nobody both has a lock and waits for *)
(* it, a comparator asks for two different locks, and has the first when   *)
(* it asks for the second; readers wait only for a writer, which waits in  *)
(* its Lock.                                                               *)
(***************************************************************************)
ReaderPC == {"new", "scan", "sort", "first", "second", "return", "done"}

LocksTypeOK ==
  /\ readers \in [GPU -> SUBSET Call] /\ waiting \in [GPU -> SUBSET Call]
  /\ writer \in [GPU -> Call \union {NoCall}]
  /\ pc \in [Call -> ReaderPC \union {"lock"}]
  /\ gpus \in [Call -> [first: GPU \union {NoGPU}, second: GPU \union {NoGPU}]]
  /\ todo \in [Reader -> SUBSET GPU] /\ candidates \in [Reader -> SUBSET GPU]

ReaderInv(c) ==
  /\ pc[c] \in ReaderPC
  /\ Asked(c) \subseteq GPU
  /\ pc[c] \in {"first", "second"} =>
       gpus[c].second \in GPU /\ gpus[c].second # gpus[c].first
  /\ pc[c] = "second" => Holds(c, gpus[c].first)
  /\ pc[c] \in {"new", "scan"} => todo[c] # {}

WriterInv(g) ==
  /\ readers[g] \union waiting[g] \subseteq Reader
  /\ waiting[g] # {} => writer[g] # NoCall
  /\ writer[g] # NoCall =>
       writer[g] \in Writer /\ pc[writer[g]] = "lock" /\ gpus[writer[g]].first = g

LockInv ==
  /\ LocksTypeOK
  /\ \A c \in Reader : ReaderInv(c)
  /\ \A g \in GPU : WriterInv(g)
  /\ \A c \in Writer :
       /\ pc[c] \in {"new", "lock", "done"}
       /\ pc[c] = "lock" => gpus[c].first \in GPU /\ writer[gpus[c].first] = c
  /\ \A g \in GPU : readers[g] \intersect waiting[g] = {}
  /\ NoLockLeak

\* Every call of Schedule, Allocate and Release returns.  It holds with a
\* single writer at a time and not with two: see the two configurations.
EveryCallReturns == \A c \in Call : <>(pc[c] = "done")
=============================================================================
