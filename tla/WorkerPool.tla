----------------------------- MODULE WorkerPool -----------------------------
(***************************************************************************)
(* pkg/orchestrator/worker_pool.go: the registry itself.  AddWorker counts *)
(* with a Range over the sync.Map, and only then stores; RemoveWorker      *)
(* deletes, and only then counts; Stats ranges while it holds the read     *)
(* lock of the counters.  A Range is no snapshot: it visits every key      *)
(* once, at a moment of its own, while others store and delete.            *)
(***************************************************************************)
EXTENDS Integers, FiniteSets

CONSTANTS
  Worker,       \* worker ids, each created by one POST
  Remover,      \* RemoveWorker calls, each of some worker
  MaxWorkers,   \* WorkerPoolConfig.MaxWorkers
  NoWorker

ASSUME WorkerPoolAssumption ==
  /\ IsFiniteSet(Worker) /\ IsFiniteSet(Remover)
  /\ NoWorker \notin Worker
  /\ MaxWorkers \in Nat

VARIABLES
  workers,                        \* keys of the sync.Map
  totalCreated, totalTerminated,  \* under mu
  add,       \* where AddWorker of each worker is, and the locals of its Count
  remove,    \* where each RemoveWorker call is
  stats,     \* where Stats is, and its result so far
  \* history
  peak       \* most AddWorker calls that were in progress at the same time

vars == <<workers, totalCreated, totalTerminated, add, remove, stats, peak>>

NoCall(at) == [at |-> at, todo |-> {}, count |-> 0]
NoStats == [at |-> "off", todo |-> {}, active |-> 0, created |-> 0, terminated |-> 0]

AddPC == {"off", "count", "store", "created", "done", "full"}

TypeOK ==
  /\ workers \subseteq Worker
  /\ totalCreated \in 0..Cardinality(Worker)
  /\ totalTerminated \in 0..Cardinality(Remover)
  /\ add \in [Worker -> [at: AddPC, todo: SUBSET Worker, count: 0..Cardinality(Worker)]]
  /\ remove \in [Remover -> [at: {"off", "counter", "done"}, worker: Worker \union {NoWorker}]]
  /\ stats \in [at: {"off", "range", "done"}, todo: SUBSET Worker,
                 active: 0..Cardinality(Worker), created: 0..Cardinality(Worker),
                 terminated: 0..Cardinality(Remover)]
  /\ peak \in 0..Cardinality(Worker)

Init ==
  /\ workers = {} /\ totalCreated = 0 /\ totalTerminated = 0
  /\ add    = [w \in Worker |-> NoCall("off")]
  /\ remove = [r \in Remover |-> [at |-> "off", worker |-> NoWorker]]
  /\ stats  = NoStats
  /\ peak = 0

-----------------------------------------------------------------------------
(***************************************************************************)
(* AddWorker.                                                              *)
(***************************************************************************)
WorkersAt(where) == {w \in Worker : add[w].at \in where}
Adding == WorkersAt({"count", "store"})

\* Count has all the other keys to visit; w's own, a fresh id, is not there.
AddWorker(w) ==
  /\ add[w].at = "off"
  /\ add' = [add EXCEPT ![w] = [NoCall("count") EXCEPT !.todo = Worker \ {w}]]
  /\ peak' = IF Cardinality(Adding) + 1 > peak THEN Cardinality(Adding) + 1 ELSE peak
  /\ UNCHANGED <<workers, totalCreated, totalTerminated, remove, stats>>

\* One key of the Range in Count.
CountKey(w, k) ==
  /\ add[w].at = "count" /\ k \in add[w].todo
  /\ add' = [add EXCEPT ![w] =
                [at |-> "count", todo |-> @.todo \ {k},
                 count |-> IF k \in workers THEN @.count + 1 ELSE @.count]]
  /\ UNCHANGED <<workers, totalCreated, totalTerminated, remove, stats, peak>>

\* Mutant: the pool is full one worker too late.
CapacityCheckOffByOne(w) ==
  /\ add[w].at = "count" /\ add[w].todo = {}
  /\ add' = [add EXCEPT ![w] = NoCall(IF add[w].count > MaxWorkers THEN "full" ELSE "store")]
  /\ UNCHANGED <<workers, totalCreated, totalTerminated, remove, stats, peak>>

CapacityCheck(w) ==
  /\ add[w].at = "count" /\ add[w].todo = {}
  /\ add' = [add EXCEPT ![w] = NoCall(IF add[w].count >= MaxWorkers THEN "full" ELSE "store")]
  /\ UNCHANGED <<workers, totalCreated, totalTerminated, remove, stats, peak>>

Store(w) ==
  /\ add[w].at = "store"
  /\ add' = [add EXCEPT ![w].at = "created"]
  /\ workers' = workers \union {w}
  /\ UNCHANGED <<totalCreated, totalTerminated, remove, stats, peak>>

\* Lock waits for the read lock of Stats.
CountCreated(w) ==
  /\ add[w].at = "created" /\ stats.at # "range"
  /\ add' = [add EXCEPT ![w].at = "done"]
  /\ totalCreated' = totalCreated + 1
  /\ UNCHANGED <<workers, totalTerminated, remove, stats, peak>>

AddStep(w) ==
  \/ \E k \in Worker : CountKey(w, k)
  \/ CapacityCheck(w) \/ Store(w) \/ CountCreated(w)

(***************************************************************************)
(* RemoveWorker, called by those who got the worker from the pool or are   *)
(* starting it; more than one may.                                         *)
(***************************************************************************)
EverStored == WorkersAt({"created", "done"})
RemovalsAt(at) == {r \in Remover : remove[r].at = at}

RemoveWorker(w, r) ==
  /\ w \in EverStored /\ remove[r].at = "off"
  /\ remove' = [remove EXCEPT ![r] = [at |-> "counter", worker |-> w]]
  /\ workers' = workers \ {w}
  /\ UNCHANGED <<totalCreated, totalTerminated, add, stats, peak>>

\* Mutant: only the removal of a worker that was counted as created counts.
CountTerminatedCreated(r) ==
  /\ remove[r].at = "counter" /\ stats.at # "range"
  /\ remove' = [remove EXCEPT ![r] = [at |-> "done", worker |-> NoWorker]]
  /\ totalTerminated' =
       IF add[remove[r].worker].at = "done" THEN totalTerminated + 1 ELSE totalTerminated
  /\ UNCHANGED <<workers, totalCreated, add, stats, peak>>

\* Mutant: the counter of terminated workers goes down.
CountTerminatedDown(r) ==
  /\ remove[r].at = "counter" /\ stats.at # "range"
  /\ remove' = [remove EXCEPT ![r] = [at |-> "done", worker |-> NoWorker]]
  /\ totalTerminated' = totalTerminated - 1
  /\ UNCHANGED <<workers, totalCreated, add, stats, peak>>

CountTerminated(r) ==
  /\ remove[r].at = "counter" /\ stats.at # "range"
  /\ remove' = [remove EXCEPT ![r] = [at |-> "done", worker |-> NoWorker]]
  /\ totalTerminated' = totalTerminated + 1
  /\ UNCHANGED <<workers, totalCreated, add, stats, peak>>

(***************************************************************************)
(* Stats, called once.                                                     *)
(***************************************************************************)
StatsBegins ==
  /\ stats.at = "off"
  /\ stats' = [at |-> "range", todo |-> Worker, active |-> 0,
               created |-> totalCreated, terminated |-> totalTerminated]
  /\ UNCHANGED <<workers, totalCreated, totalTerminated, add, remove, peak>>

\* Mutant: the callback of the Range returns false for a key that is gone.
StatsKeyStops(k) ==
  /\ stats.at = "range" /\ k \in stats.todo
  /\ stats' = [stats EXCEPT !.todo = IF k \in workers THEN @ \ {k} ELSE {},
                            !.active = IF k \in workers THEN @ + 1 ELSE @]
  /\ UNCHANGED <<workers, totalCreated, totalTerminated, add, remove, peak>>

StatsKey(k) ==
  /\ stats.at = "range" /\ k \in stats.todo
  /\ stats' = [stats EXCEPT !.todo = @ \ {k},
                            !.active = IF k \in workers THEN @ + 1 ELSE @]
  /\ UNCHANGED <<workers, totalCreated, totalTerminated, add, remove, peak>>

StatsReturns ==
  /\ stats.at = "range" /\ stats.todo = {}
  /\ stats' = [stats EXCEPT !.at = "done"]
  /\ UNCHANGED <<workers, totalCreated, totalTerminated, add, remove, peak>>

-----------------------------------------------------------------------------
Next ==
  \/ \E w \in Worker :
       AddWorker(w) \/ AddStep(w) \/ \E r \in Remover : RemoveWorker(w, r)
  \/ \E r \in Remover : CountTerminated(r)
  \/ StatsBegins \/ StatsReturns \/ \E k \in Worker : StatsKey(k)

Spec == Init /\ [][Next]_vars

-----------------------------------------------------------------------------
\* The capacity check is not atomic with the store, and Count is no snapshot,
\* but the pool exceeds MaxWorkers by less than the number of AddWorker calls
\* that were ever in progress at once; one at a time, not at all.
OverrunBounded ==
  Cardinality(workers) <= MaxWorkers + (IF peak = 0 THEN 0 ELSE peak - 1)

\* A worker counted in TotalCreated is in CurrentActive of the same Stats, or
\* has been deleted by the time Stats returns: the counters cannot run ahead
\* of a Range that began after they were read.
StatsMissesNobody ==
  stats.at = "done" =>
    stats.created <= stats.active + Cardinality(EverStored \ workers)

\* The counters never claim more workers than are there, but for those whose
\* RemoveWorker is between its two halves.  (They may claim fewer: every
\* RemoveWorker call counts.)
CountersCoverRemovals ==
  totalCreated - totalTerminated <=
    Cardinality(workers) + Cardinality(RemovalsAt("counter"))

-----------------------------------------------------------------------------
(***************************************************************************)
(* Why they hold.                                                          *)
(***************************************************************************)
\* The counters are what they count, and no removal takes more than one key.
CountersInv ==
  /\ workers \subseteq EverStored
  /\ totalCreated = Cardinality(WorkersAt({"done"}))
  /\ totalTerminated = Cardinality(RemovalsAt("done"))
  /\ Cardinality(EverStored) <=
       Cardinality(workers) + Cardinality(RemovalsAt("counter")) + Cardinality(RemovalsAt("done"))

\* A Range counts a key at most once, and the one of Stats has counted, has
\* still to visit or has lost to a removal what was created before it.
RangesInv ==
  /\ \A w \in Worker :
       /\ w \notin add[w].todo
       /\ add[w].count + Cardinality(add[w].todo) <= Cardinality(Worker)
  /\ stats.active + Cardinality(stats.todo) <= Cardinality(Worker)
  /\ stats.at = "done" => stats.todo = {}
  /\ stats.at # "off" =>
       stats.created <= stats.active + Cardinality(EverStored \ workers)
                          + Cardinality(workers \intersect stats.todo)

Began    == WorkersAt(AddPC \ {"off"})
Counting == WorkersAt({"count"})
Passed   == WorkersAt({"store", "created", "done"})

\* rank: an order in which the calls may have begun.  Those that are in the
\* pool, or on their way, and began no later than w; and those of them that
\* w has still to count.
UpTo(rank, w) == {v \in workers \union Adding : rank[v] <= rank[w]}
Unvisited(rank, w) == {v \in workers \intersect add[w].todo : rank[v] <= rank[w]}

\* When w began, all but those that were adding with it were in the pool, and
\* its Count has counted them, has still to visit them or has lost them to a
\* removal; so when w passes the check, it is one of less than MaxWorkers of
\* them and of those that were adding.  The last to begin of those that passed
\* bounds all who passed.
RankInv(rank) ==
  /\ \A w \in Began : rank[w] <= Cardinality(Began)
  /\ \A w \in Counting :
       Cardinality(UpTo(rank, w)) <= add[w].count + Cardinality(Unvisited(rank, w)) + peak
  /\ Passed # {} =>
       \E last \in Passed :
         /\ \A w \in Passed : rank[w] <= rank[last]
         /\ Cardinality(UpTo(rank, last)) <= MaxWorkers + peak - 1

OverrunInv ==
  /\ Cardinality(Adding) <= peak
  /\ \E rank \in [Worker -> 1..Cardinality(Worker)] : RankInv(rank)

PoolInv == TypeOK /\ CountersInv /\ RangesInv /\ OverrunInv
=============================================================================
