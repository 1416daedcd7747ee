-------------------------- MODULE WorkerPoolProofs --------------------------
(***************************************************************************)
(* The counters, Stats and the capacity of the pool, for any workers, any  *)
(* number of RemoveWorker calls and any MaxWorkers.                        *)
(***************************************************************************)
EXTENDS WorkerPool, FiniteSetTheorems, TLAPS

-----------------------------------------------------------------------------
(***************************************************************************)
(* Counting.                                                               *)
(***************************************************************************)

\* A part of a finite set is finite and no larger.
LEMMA PartCounts ==
  ASSUME NEW T, IsFiniteSet(T), NEW S \in SUBSET T
  PROVE  IsFiniteSet(S) /\ Cardinality(S) \in Nat /\ Cardinality(S) <= Cardinality(T)
BY FS_Subset, FS_CardinalityType

\* An element that comes or goes counts one, and none if it was, or was not,
\* there.
LEMMA ElementCounts ==
  ASSUME NEW S, IsFiniteSet(S), NEW x, NEW T, T = S \union {x} \/ T = S \ {x}
  PROVE  /\ IsFiniteSet(T) /\ Cardinality(S) \in Nat /\ Cardinality(T) \in Nat
         /\ x \in S /\ x \in T => Cardinality(T) = Cardinality(S)
         /\ x \notin S /\ x \notin T => Cardinality(T) = Cardinality(S)
         /\ x \notin S /\ x \in T => Cardinality(T) = Cardinality(S) + 1
         /\ x \in S /\ x \notin T => Cardinality(T) = Cardinality(S) - 1
<1>0. Cardinality(S) \in Nat
  BY FS_CardinalityType
<1>1. CASE x \in S <=> x \in T
  <2>1. T = S
    BY <1>1
  <2> QED
    BY <1>0, <1>1, <2>1, Zenon
<1>2. CASE x \notin S /\ x \in T
  <2>1. IsFiniteSet(T) /\ Cardinality(T) = Cardinality(S) + 1
    BY <1>2, FS_AddElement
  <2> QED
    BY <1>0, <1>2, <2>1
<1>3. CASE x \in S /\ x \notin T
  <2>1. IsFiniteSet(T) /\ Cardinality(T) = Cardinality(S) - 1
    BY <1>3, FS_RemoveElement
  <2>2. Cardinality(T) \in Nat
    BY <2>1, FS_CardinalityType
  <2> QED
    BY <1>0, <1>3, <2>1, <2>2
<1> QED
  BY <1>1, <1>2, <1>3

\* The number of calls at some places after one call has moved.
LEMMA WorkerCounts ==
  ASSUME NEW CONSTANT w \in Worker, NEW CONSTANT where, NEW CONSTANT at,
         add'[w].at = at,
         \A v \in Worker \ {w} : add'[v].at = add[v].at
  PROVE  Cardinality(WorkersAt(where)') = Cardinality(WorkersAt(where)) +
           IF at \in where THEN IF add[w].at \in where THEN 0 ELSE 1
                           ELSE IF add[w].at \in where THEN -1 ELSE 0
<1> DEFINE S == WorkersAt(where)   T == WorkersAt(where)'
<1>1. IsFiniteSet(S) /\ (w \in S <=> add[w].at \in where) /\ (w \in T <=> at \in where)
  BY PartCounts, WorkerPoolAssumption DEF WorkersAt
<1>2. T = S \union {w} \/ T = S \ {w}
  BY DEF WorkersAt
<1> HIDE DEF S, T
<1>3. /\ Cardinality(S) \in Nat /\ Cardinality(T) \in Nat
      /\ w \in S /\ w \in T => Cardinality(T) = Cardinality(S)
      /\ w \notin S /\ w \notin T => Cardinality(T) = Cardinality(S)
      /\ w \notin S /\ w \in T => Cardinality(T) = Cardinality(S) + 1
      /\ w \in S /\ w \notin T => Cardinality(T) = Cardinality(S) - 1
  BY <1>1, <1>2, ElementCounts
<1> QED
  BY <1>1, <1>3 DEF S, T

\* The same for the calls of RemoveWorker.
LEMMA RemovalCounts ==
  ASSUME NEW CONSTANT r \in Remover, NEW CONSTANT where, NEW CONSTANT at,
         remove'[r].at = at,
         \A q \in Remover \ {r} : remove'[q].at = remove[q].at
  PROVE  Cardinality(RemovalsAt(where)') = Cardinality(RemovalsAt(where)) +
           IF at = where THEN IF remove[r].at = where THEN 0 ELSE 1
                         ELSE IF remove[r].at = where THEN -1 ELSE 0
<1> DEFINE S == RemovalsAt(where)   T == RemovalsAt(where)'
<1>1. IsFiniteSet(S) /\ (r \in S <=> remove[r].at = where) /\ (r \in T <=> at = where)
  BY PartCounts, WorkerPoolAssumption DEF RemovalsAt
<1>2. T = S \union {r} \/ T = S \ {r}
  BY DEF RemovalsAt
<1> HIDE DEF S, T
<1>3. /\ Cardinality(S) \in Nat /\ Cardinality(T) \in Nat
      /\ r \in S /\ r \in T => Cardinality(T) = Cardinality(S)
      /\ r \notin S /\ r \notin T => Cardinality(T) = Cardinality(S)
      /\ r \notin S /\ r \in T => Cardinality(T) = Cardinality(S) + 1
      /\ r \in S /\ r \notin T => Cardinality(T) = Cardinality(S) - 1
  BY <1>1, <1>2, ElementCounts
<1> QED
  BY <1>1, <1>3 DEF S, T

\* What is counted is finite.
LEMMA FinitePool ==
  ASSUME NEW CONSTANT where
  PROVE  /\ IsFiniteSet(WorkersAt(where)) /\ Cardinality(WorkersAt(where)) \in Nat
         /\ IsFiniteSet(RemovalsAt(where)) /\ Cardinality(RemovalsAt(where)) \in Nat
         /\ Cardinality(WorkersAt(where)) <= Cardinality(Worker)
         /\ Cardinality(RemovalsAt(where)) <= Cardinality(Remover)
         /\ Cardinality(Worker) \in Nat /\ Cardinality(Remover) \in Nat
<1>1. WorkersAt(where) \subseteq Worker /\ RemovalsAt(where) \subseteq Remover
  BY DEF WorkersAt, RemovalsAt
<1> QED
  BY <1>1, PartCounts, FS_CardinalityType, WorkerPoolAssumption

-----------------------------------------------------------------------------
(***************************************************************************)
(* The steps, by what they move.                                           *)
(***************************************************************************)

\* What a step of an AddWorker call does to the call: it moves one call from
\* one place to the next.
LEMMA AddMoves ==
  ASSUME TypeOK, NEW CONSTANT w \in Worker, AddWorker(w) \/ AddStep(w)
  PROVE  /\ add' \in [Worker -> [at: AddPC, todo: SUBSET Worker, count: Int]]
         /\ \A v \in Worker \ {w} : add'[v] = add[v]
         /\ \/ AddWorker(w) /\ add'[w].at = "count"
               /\ add'[w].todo = Worker \ {w} /\ add'[w].count = 0
            \/ \E k \in Worker :
                 /\ CountKey(w, k) /\ add'[w].at = "count" /\ add'[w].todo = add[w].todo \ {k}
                 /\ add'[w].count = IF k \in workers THEN add[w].count + 1 ELSE add[w].count
            \/ /\ CapacityCheck(w) /\ add'[w].todo = {} /\ add'[w].count = 0
               /\ add'[w].at = IF add[w].count >= MaxWorkers THEN "full" ELSE "store"
            \/ /\ Store(w) /\ add'[w].at = "created"
               /\ add'[w].todo = add[w].todo /\ add'[w].count = add[w].count
            \/ /\ CountCreated(w) /\ add'[w].at = "done"
               /\ add'[w].todo = add[w].todo /\ add'[w].count = add[w].count
<1> USE WorkerPoolAssumption DEF TypeOK, AddPC
<1>0. Cardinality(Worker) \in Nat
  BY FS_CardinalityType
<1>1. CASE AddWorker(w)
  BY <1>0, <1>1 DEF AddWorker, NoCall
<1>2. CASE \E k \in Worker : CountKey(w, k)
  <2>1. PICK k \in Worker : CountKey(w, k)
    BY <1>2
  <2>2. /\ add' \in [Worker -> [at: AddPC, todo: SUBSET Worker, count: Int]]
        /\ \A v \in Worker \ {w} : add'[v] = add[v]
        /\ add'[w].at = "count" /\ add'[w].todo = add[w].todo \ {k}
        /\ add'[w].count = IF k \in workers THEN add[w].count + 1 ELSE add[w].count
    BY <1>0, <2>1 DEF CountKey
  <2> HIDE DEF TypeOK, AddPC
  <2> QED
    BY <2>1, <2>2, Zenon
<1>3. CASE CapacityCheck(w)
  BY <1>0, <1>3 DEF CapacityCheck, NoCall
<1>4. CASE Store(w)
  BY <1>0, <1>4 DEF Store
<1>5. CASE CountCreated(w)
  BY <1>0, <1>5 DEF CountCreated
<1> HIDE DEF TypeOK, AddPC
<1> QED
  BY <1>1, <1>2, <1>3, <1>4, <1>5, Zenon DEF AddStep

\* What a step of a RemoveWorker call does to the call.
LEMMA RemoveMoves ==
  ASSUME TypeOK, NEW CONSTANT r \in Remover,
         (\E w \in Worker : RemoveWorker(w, r)) \/ CountTerminated(r)
  PROVE  /\ remove' \in [Remover -> [at: {"off", "counter", "done"},
                                     worker: Worker \union {NoWorker}]]
         /\ \A q \in Remover \ {r} : remove'[q] = remove[q]
         /\ \/ (\E w \in Worker : RemoveWorker(w, r)) /\ remove'[r].at = "counter"
            \/ CountTerminated(r) /\ remove'[r].at = "done"
<1> USE DEF TypeOK
<1>1. CASE \E w \in Worker : RemoveWorker(w, r)
  <2>1. PICK w \in Worker : RemoveWorker(w, r)
    BY <1>1
  <2> QED
    BY <1>1, <2>1 DEF RemoveWorker
<1>2. CASE CountTerminated(r)
  BY <1>2 DEF CountTerminated
<1> HIDE DEF TypeOK
<1> QED
  BY <1>1, <1>2, Zenon
-----------------------------------------------------------------------------
(***************************************************************************)
(* The counters.                                                           *)
(***************************************************************************)

\* Of one AddWorker call only Store changes what is stored, and only
\* CountCreated what is counted.
LEMMA CountersAdd ==
  ASSUME TypeOK, CountersInv, NEW CONSTANT w \in Worker, AddWorker(w) \/ AddStep(w)
  PROVE  CountersInv'
<1> DEFINE S == Cardinality(EverStored)   D == Cardinality(WorkersAt({"done"}))
           Rc == Cardinality(RemovalsAt("counter"))   Rd == Cardinality(RemovalsAt("done"))
           N == Cardinality(workers)
<1>0. /\ S \in Nat /\ D \in Nat /\ Rc \in Nat /\ Rd \in Nat
      /\ IsFiniteSet(workers) /\ N \in Nat
  BY FinitePool, PartCounts, WorkerPoolAssumption DEF TypeOK, EverStored
<1>1. \A v \in Worker \ {w} : add'[v].at = add[v].at
  BY AddMoves
<1>2. S' = S + IF add'[w].at \in {"created", "done"}
                 THEN IF add[w].at \in {"created", "done"} THEN 0 ELSE 1
                 ELSE IF add[w].at \in {"created", "done"} THEN -1 ELSE 0
  BY <1>1, WorkerCounts DEF EverStored
<1>3. D' = D + IF add'[w].at \in {"done"} THEN IF add[w].at \in {"done"} THEN 0 ELSE 1
                 ELSE IF add[w].at \in {"done"} THEN -1 ELSE 0
  BY <1>1, WorkerCounts
<1>4. UNCHANGED <<remove, totalTerminated>>
  BY DEF AddWorker, AddStep, CountKey, CapacityCheck, Store, CountCreated
<1>5. Rc' = Rc /\ Rd' = Rd
  BY <1>4 DEF RemovalsAt
<1>6. CASE ~ Store(w) /\ ~ CountCreated(w)
  <2>1. /\ add[w].at \in {"off", "count"} /\ add'[w].at \in {"count", "store", "full"}
        /\ UNCHANGED <<workers, totalCreated>>
    BY <1>6, AddMoves DEF AddWorker, AddStep, CountKey, CapacityCheck
  <2>2. S' = S /\ D' = D
    BY <1>0, <1>2, <1>3, <2>1
  <2>3. EverStored \subseteq EverStored'
    BY <1>1, <2>1 DEF EverStored, WorkersAt
  <2> QED
    BY <1>4, <1>5, <2>1, <2>2, <2>3 DEF CountersInv
<1>7. CASE Store(w)
  <2>1. /\ add[w].at = "store" /\ add'[w].at = "created"
        /\ workers' = workers \union {w} /\ UNCHANGED totalCreated
    BY <1>7, AddMoves DEF AddWorker, CountKey, CapacityCheck, Store, CountCreated
  <2>2. S' = S + 1 /\ D' = D
    BY <1>0, <1>2, <1>3, <2>1
  <2>3. EverStored' = EverStored \union {w} /\ w \notin EverStored
    BY <1>1, <2>1 DEF EverStored, WorkersAt
  <2>4. N' = N + 1
    BY <1>0, <2>1, <2>3, FS_AddElement DEF CountersInv
  <2> QED
    BY <1>0, <1>4, <1>5, <2>1, <2>2, <2>3, <2>4 DEF CountersInv
<1>8. CASE CountCreated(w)
  <2>1. /\ add[w].at = "created" /\ add'[w].at = "done"
        /\ totalCreated' = totalCreated + 1 /\ UNCHANGED workers
    BY <1>8, AddMoves DEF AddWorker, CountKey, CapacityCheck, Store, CountCreated
  <2>2. S' = S /\ D' = D + 1
    BY <1>0, <1>2, <1>3, <2>1
  <2>3. EverStored' = EverStored
    BY <1>1, <2>1 DEF EverStored, WorkersAt
  <2> QED
    BY <1>4, <1>5, <2>1, <2>2, <2>3 DEF CountersInv
<1> QED
  BY <1>6, <1>7, <1>8

\* A removal takes at most one key, and is between its halves until it is
\* counted.
LEMMA CountersRemove ==
  ASSUME TypeOK, CountersInv, NEW CONSTANT r \in Remover,
         (\E w \in Worker : RemoveWorker(w, r)) \/ CountTerminated(r)
  PROVE  CountersInv'
<1> DEFINE S == Cardinality(EverStored)   N == Cardinality(workers)
           Rc == Cardinality(RemovalsAt("counter"))   Rd == Cardinality(RemovalsAt("done"))
<1>0. /\ S \in Nat /\ Rc \in Nat /\ Rd \in Nat /\ IsFiniteSet(workers) /\ N \in Nat
  BY FinitePool, PartCounts, WorkerPoolAssumption DEF TypeOK, EverStored
<1>1. \A q \in Remover \ {r} : remove'[q].at = remove[q].at
  BY RemoveMoves
<1>2. Rc' = Rc + IF remove'[r].at = "counter" THEN IF remove[r].at = "counter" THEN 0 ELSE 1
                   ELSE IF remove[r].at = "counter" THEN -1 ELSE 0
  BY <1>1, RemovalCounts
<1>3. Rd' = Rd + IF remove'[r].at = "done" THEN IF remove[r].at = "done" THEN 0 ELSE 1
                   ELSE IF remove[r].at = "done" THEN -1 ELSE 0
  BY <1>1, RemovalCounts
<1>4. UNCHANGED <<add, totalCreated>>
  BY DEF RemoveWorker, CountTerminated
<1>5. /\ EverStored' = EverStored /\ S' = S
      /\ Cardinality(WorkersAt({"done"}))' = Cardinality(WorkersAt({"done"}))
  BY <1>4 DEF EverStored, WorkersAt
<1>6. ASSUME NEW CONSTANT w \in Worker, RemoveWorker(w, r) PROVE CountersInv'
  <2>1. /\ remove[r].at = "off" /\ remove'[r].at = "counter"
        /\ workers' = workers \ {w} /\ UNCHANGED totalTerminated
    BY <1>6, RemoveMoves DEF RemoveWorker, CountTerminated
  <2>2. N <= N' + 1 /\ N' \in Nat
    <3>1. workers' = workers \union {w} \/ workers' = workers \ {w}
      BY <2>1
    <3>2. /\ N' \in Nat
          /\ w \in workers /\ w \in workers' => N' = N
          /\ w \notin workers /\ w \notin workers' => N' = N
          /\ w \notin workers /\ w \in workers' => N' = N + 1
          /\ w \in workers /\ w \notin workers' => N' = N - 1
      BY <1>0, <3>1, ElementCounts
    <3> QED
      BY <1>0, <3>2
  <2>3. Rc' = Rc + 1 /\ Rd' = Rd
    BY <1>0, <1>2, <1>3, <2>1
  <2> QED
    BY <1>0, <1>4, <1>5, <2>1, <2>2, <2>3 DEF CountersInv
<1>7. CASE CountTerminated(r)
  <2>1. /\ remove[r].at = "counter" /\ remove'[r].at = "done"
        /\ totalTerminated' = totalTerminated + 1 /\ UNCHANGED workers
    BY <1>7, RemoveMoves DEF RemoveWorker, CountTerminated
  <2>2. Rc' = Rc - 1 /\ Rd' = Rd + 1
    BY <1>0, <1>2, <1>3, <2>1
  <2> QED
    BY <1>0, <1>4, <1>5, <2>1, <2>2 DEF CountersInv
<1> QED
  BY <1>6, <1>7

\* Stats changes nothing, and every step is one of these.
LEMMA CountersNext ==
  ASSUME TypeOK, CountersInv, [Next]_vars
  PROVE  CountersInv'
<1>1. CASE \E w \in Worker : AddWorker(w) \/ AddStep(w)
  BY <1>1, CountersAdd
<1>2. CASE \E r \in Remover : (\E w \in Worker : RemoveWorker(w, r)) \/ CountTerminated(r)
  BY <1>2, CountersRemove
<1>3. CASE StatsBegins \/ StatsReturns \/ (\E k \in Worker : StatsKey(k)) \/ UNCHANGED vars
  <2>1. UNCHANGED <<workers, totalCreated, totalTerminated, add, remove>>
    BY <1>3 DEF StatsBegins, StatsReturns, StatsKey, vars
  <2> QED
    BY <2>1 DEF CountersInv, EverStored, WorkersAt, RemovalsAt
<1> QED
  BY <1>1, <1>2, <1>3 DEF Next
-----------------------------------------------------------------------------
(***************************************************************************)
(* The Ranges of Count and of Stats.                                       *)
(***************************************************************************)

\* A Count visits each key once.
LEMMA CountsNext ==
  ASSUME TypeOK, RangesInv, NEW CONSTANT w \in Worker, AddWorker(w) \/ AddStep(w)
  PROVE  \A v \in Worker :
           /\ v \notin add'[v].todo
           /\ add'[v].count + Cardinality(add'[v].todo) <= Cardinality(Worker)
<1> DEFINE N == Cardinality(Worker)   t == add[w].todo   c == add[w].count
           done == add'[w].todo       d == add'[w].count
<1>1. /\ IsFiniteSet(Worker) /\ N \in Nat /\ t \subseteq Worker /\ c \in Int
  BY FS_CardinalityType, WorkerPoolAssumption DEF TypeOK
<1>2. IsFiniteSet(t) /\ Cardinality(t) \in Nat /\ w \notin t /\ c + Cardinality(t) <= N
  BY <1>1, PartCounts DEF RangesInv
<1>3. \A v \in Worker \ {w} : add'[v] = add[v]
  BY AddMoves
<1>4. w \notin done /\ d + Cardinality(done) <= N
  <2>1. CASE done = Worker \ {w} /\ d = 0
    <3>1. Cardinality(Worker \ {w}) <= N /\ Cardinality(Worker \ {w}) \in Nat
      BY <1>1, PartCounts
    <3> QED
      BY <1>1, <2>1, <3>1
  <2>2. ASSUME NEW CONSTANT k \in t, done = t \ {k}, d \in {c, c + 1}
        PROVE  w \notin done /\ d + Cardinality(done) <= N
    <3>1. Cardinality(t \ {k}) = Cardinality(t) - 1
      BY <1>2, FS_RemoveElement
    <3> QED
      BY <1>1, <1>2, <2>2, <3>1
  <2>3. CASE done = {} /\ d = 0
    BY <1>1, <2>3, FS_EmptySet
  <2>4. CASE done = t /\ d = c
    BY <1>2, <2>4
  <2>5. \/ done = Worker \ {w} /\ d = 0
        \/ \E k \in t : done = t \ {k} /\ d \in {c, c + 1}
        \/ done = {} /\ d = 0
        \/ done = t /\ d = c
    <3>1. ASSUME NEW CONSTANT k \in Worker, CountKey(w, k) PROVE k \in t
      BY <3>1 DEF CountKey
    <3> QED
      BY <3>1, AddMoves
  <2> QED
    BY <2>1, <2>2, <2>3, <2>4, <2>5
<1> QED
  BY <1>3, <1>4 DEF RangesInv

\* What Stats has not counted is still to be visited or gone.
StatsCovers ==
  stats.created <= stats.active + Cardinality(EverStored \ workers)
                     + Cardinality(workers \intersect stats.todo)

\* A store and a removal leave nothing uncovered.
LEMMA StatsCoversMoves ==
  ASSUME TypeOK, CountersInv, StatsCovers, UNCHANGED stats, NEW CONSTANT w \in Worker,
         \/ EverStored' = EverStored /\ UNCHANGED workers
         \/ /\ EverStored' = EverStored \union {w} /\ w \notin EverStored
            /\ workers' = workers \union {w}
         \/ EverStored' = EverStored /\ workers' = workers \ {w} /\ w \in EverStored
  PROVE  StatsCovers'
<1> DEFINE G == EverStored \ workers             G1 == EverStored' \ workers'
           H == workers \intersect stats.todo     H1 == workers' \intersect stats.todo
<1>1. /\ IsFiniteSet(G) /\ IsFiniteSet(H) /\ Cardinality(G) \in Nat /\ Cardinality(H) \in Nat
      /\ IsFiniteSet(H1) /\ Cardinality(H1) \in Nat
      /\ IsFiniteSet(G1) /\ Cardinality(G1) \in Nat
  <2>1. G \subseteq Worker /\ H \subseteq Worker /\ H1 \subseteq Worker /\ G1 \subseteq Worker
    BY DEF TypeOK, EverStored, WorkersAt
  <2> QED
    BY <2>1, PartCounts, WorkerPoolAssumption
<1>2. \/ G1 = G /\ H \subseteq H1
      \/ G1 = G \union {w} /\ w \notin G /\ H1 = H \ {w}
  <2>1. CASE EverStored' = EverStored /\ UNCHANGED workers
    BY <2>1
  <2>2. CASE /\ EverStored' = EverStored \union {w} /\ w \notin EverStored
             /\ workers' = workers \union {w}
    BY <2>2 DEF CountersInv
  <2>3. CASE EverStored' = EverStored /\ workers' = workers \ {w} /\ w \in EverStored
    BY <2>3
  <2> QED
    BY <2>1, <2>2, <2>3
<1> HIDE DEF G, H, G1, H1
<1>5. Cardinality(G) + Cardinality(H) <= Cardinality(G1) + Cardinality(H1)
  <2>1. CASE G1 = G /\ H \subseteq H1
    <3>1. Cardinality(H) <= Cardinality(H1) /\ Cardinality(G1) = Cardinality(G)
      BY <1>1, <2>1, PartCounts
    <3> QED
      BY <1>1, <3>1
  <2>2. CASE G1 = G \union {w} /\ w \notin G /\ H1 = H \ {w}
    <3>1. Cardinality(G1) = Cardinality(G) + 1
      BY <1>1, <2>2, FS_AddElement
    <3>2. /\ w \in H /\ w \in H1 => Cardinality(H1) = Cardinality(H)
          /\ w \notin H /\ w \notin H1 => Cardinality(H1) = Cardinality(H)
          /\ w \notin H /\ w \in H1 => Cardinality(H1) = Cardinality(H) + 1
          /\ w \in H /\ w \notin H1 => Cardinality(H1) = Cardinality(H) - 1
      BY <1>1, <2>2, ElementCounts
    <3> QED
      BY <1>1, <3>1, <3>2
  <2> QED
    BY <1>2, <2>1, <2>2
<1>3. stats.created \in Int /\ stats.active \in Int
  BY FS_CardinalityType, WorkerPoolAssumption DEF TypeOK
<1>4. stats.created <= stats.active + Cardinality(G) + Cardinality(H)
  BY DEF StatsCovers, G, H
<1>6. stats.created <= stats.active + Cardinality(G1) + Cardinality(H1)
  BY <1>1, <1>3, <1>4, <1>5
<1> QED
  BY <1>6 DEF StatsCovers, G1, H1

\* Stats begins with everything to visit, and counts what it meets.
LEMMA StatsNext ==
  ASSUME TypeOK, CountersInv, RangesInv,
         StatsBegins \/ StatsReturns \/ \E k \in Worker : StatsKey(k)
  PROVE  /\ stats' \in [at: {"off", "range", "done"}, todo: SUBSET Worker,
                        active: 0..Cardinality(Worker), created: 0..Cardinality(Worker),
                        terminated: 0..Cardinality(Remover)]
         /\ stats'.active + Cardinality(stats'.todo) <= Cardinality(Worker)
         /\ stats'.at = "done" => stats'.todo = {}
         /\ StatsCovers'
<1> DEFINE N == Cardinality(Worker)   t == stats.todo
<1>1. N \in Nat /\ Cardinality(Remover) \in Nat
  BY FS_CardinalityType, WorkerPoolAssumption
<1>2. IsFiniteSet(t) /\ Cardinality(t) \in Nat
  BY PartCounts, WorkerPoolAssumption DEF TypeOK
<1>3. CASE StatsBegins
  <2>1. stats' = [at |-> "range", todo |-> Worker, active |-> 0,
                  created |-> totalCreated, terminated |-> totalTerminated]
        /\ UNCHANGED <<workers, add>>
    BY <1>3 DEF StatsBegins
  <2>2. totalCreated <= Cardinality(EverStored \ workers) + Cardinality(workers \intersect Worker)
    <3> DEFINE E == EverStored   D == WorkersAt({"done"})
    <3>1. IsFiniteSet(E) /\ D \subseteq E /\ workers \subseteq E
      BY FinitePool DEF EverStored, WorkersAt, CountersInv
    <3>2. Cardinality(D) <= Cardinality(E) /\ Cardinality(D) \in Nat /\ Cardinality(E) \in Nat
      BY <3>1, PartCounts
    <3>3. Cardinality(E \ workers) = Cardinality(E) - Cardinality(E \intersect workers)
      BY <3>1, FS_Difference
    <3>4. E \intersect workers = workers \intersect Worker
      BY <3>1 DEF EverStored, WorkersAt
    <3>5. Cardinality(E \intersect workers) = Cardinality(workers \intersect Worker)
      BY <3>4, Zenon
    <3>6. Cardinality(workers \intersect Worker) \in Nat
      BY PartCounts, WorkerPoolAssumption
    <3> QED
      BY <3>2, <3>3, <3>5, <3>6 DEF CountersInv
  <2>3. EverStored' = EverStored
    BY <2>1 DEF EverStored, WorkersAt
  <2>4. StatsCovers'
    <3>1. totalCreated <= 0 + Cardinality(EverStored \ workers)
                            + Cardinality(workers \intersect Worker)
      <4>1. Cardinality(EverStored \ workers) \in Nat
        BY FinitePool, PartCounts DEF EverStored
      <4> QED
        BY <2>2, <4>1
    <3>2. stats'.created = totalCreated /\ stats'.active = 0 /\ stats'.todo = Worker
      BY <2>1
    <3> QED
      BY <2>1, <2>3, <3>1, <3>2, Zenon DEF StatsCovers
  <2> QED
    BY <1>1, <2>1, <2>4 DEF TypeOK
<1>4. CASE StatsReturns
  <2>1. /\ stats.todo = {} /\ UNCHANGED <<workers, add>>
        /\ stats.at = "range" /\ stats' = [stats EXCEPT !.at = "done"]
    BY <1>4 DEF StatsReturns
  <2>2. stats' \in [at: {"off", "range", "done"}, todo: SUBSET Worker,
                    active: 0..Cardinality(Worker), created: 0..Cardinality(Worker),
                    terminated: 0..Cardinality(Remover)]
    BY <2>1 DEF TypeOK
  <2>3. stats'.todo = stats.todo /\ stats'.active = stats.active
        /\ stats'.created = stats.created
    BY <2>1 DEF TypeOK
  <2>4. EverStored' = EverStored
    BY <2>1 DEF EverStored, WorkersAt
  <2>5. stats.active + Cardinality(stats.todo) <= Cardinality(Worker) /\ StatsCovers
    BY <2>1 DEF RangesInv, StatsCovers
  <2> QED
    BY <2>1, <2>2, <2>3, <2>4, <2>5, Zenon DEF StatsCovers
<1>5. ASSUME NEW CONSTANT k \in Worker, StatsKey(k)
      PROVE  /\ stats' \in [at: {"off", "range", "done"}, todo: SUBSET Worker,
                            active: 0..Cardinality(Worker), created: 0..Cardinality(Worker),
                            terminated: 0..Cardinality(Remover)]
             /\ stats'.active + Cardinality(stats'.todo) <= Cardinality(Worker)
             /\ stats'.at = "done" => stats'.todo = {}
             /\ StatsCovers'
  <2> DEFINE a == IF k \in workers THEN stats.active + 1 ELSE stats.active
             H == workers \intersect t   H1 == workers \intersect (t \ {k})
             G == EverStored \ workers
  <2>1. /\ stats.at = "range" /\ k \in t /\ UNCHANGED <<workers, add>>
        /\ stats' = [stats EXCEPT !.todo = t \ {k}, !.active = a]
    BY <1>5 DEF StatsKey
  <2>2. /\ stats'.at = "range" /\ stats'.todo = t \ {k} /\ stats'.active = a
        /\ stats'.created = stats.created /\ stats'.terminated = stats.terminated
    BY <2>1 DEF TypeOK
  <2>3. Cardinality(t \ {k}) = Cardinality(t) - 1 /\ Cardinality(t \ {k}) \in Nat
    BY <1>2, <2>1, FS_RemoveElement, FS_CardinalityType
  <2>4. a \in Int /\ a + Cardinality(t \ {k}) <= N /\ a >= 0
    BY <1>1, <1>2, <2>3 DEF TypeOK, RangesInv
  <2>5. stats' \in [at: {"off", "range", "done"}, todo: SUBSET Worker,
                    active: 0..Cardinality(Worker), created: 0..Cardinality(Worker),
                    terminated: 0..Cardinality(Remover)]
    <3>1. a \in 0..N
      BY <1>1, <2>3, <2>4
    <3> HIDE DEF a
    <3> QED
      BY <2>1, <3>1 DEF TypeOK
  <2>6. EverStored' = EverStored
    BY <2>1 DEF EverStored, WorkersAt
  <2>7. stats.created <= a + Cardinality(G) + Cardinality(H1)
    <3>1. /\ IsFiniteSet(H) /\ Cardinality(H) \in Nat /\ Cardinality(H1) \in Nat
          /\ Cardinality(G) \in Nat
      BY PartCounts, FinitePool, WorkerPoolAssumption DEF TypeOK, EverStored
    <3>2. stats.created <= stats.active + Cardinality(G) + Cardinality(H)
      BY <2>1 DEF RangesInv
    <3>3. CASE k \in workers
      <4>1. k \in H /\ H1 = H \ {k}
        BY <2>1, <3>3
      <4>2. Cardinality(H1) = Cardinality(H) - 1
        <5> HIDE DEF H, H1
        <5> QED
          BY <3>1, <4>1, FS_RemoveElement
      <4> QED
        BY <3>1, <3>2, <3>3, <4>2 DEF TypeOK
    <3>4. CASE k \notin workers
      <4>1. H1 = H
        BY <3>4
      <4>2. Cardinality(H1) = Cardinality(H)
        BY <4>1, Zenon
      <4> QED
        BY <3>1, <3>2, <3>4, <4>2 DEF TypeOK
    <3> QED
      BY <3>3, <3>4
  <2> HIDE DEF a
  <2>8. StatsCovers'
    BY <2>1, <2>2, <2>6, <2>7, Zenon DEF StatsCovers
  <2>9. stats'.active + Cardinality(stats'.todo) <= N
    BY <2>2, <2>4, Zenon
  <2> QED
    BY <2>2, <2>5, <2>8, <2>9
<1> QED
  BY <1>3, <1>4, <1>5

\* Every step keeps what the Ranges have covered.
LEMMA RangesNext ==
  ASSUME TypeOK, CountersInv, RangesInv, [Next]_vars
  PROVE  RangesInv'
<1>1. CASE \E w \in Worker : AddWorker(w) \/ AddStep(w)
  <2>1. PICK w \in Worker : AddWorker(w) \/ AddStep(w)
    BY <1>1
  <2>2. UNCHANGED stats
    BY <2>1 DEF AddWorker, AddStep, CountKey, CapacityCheck, Store, CountCreated
  <2>3. \A v \in Worker :
          /\ v \notin add'[v].todo
          /\ add'[v].count + Cardinality(add'[v].todo) <= Cardinality(Worker)
    BY <2>1, CountsNext
  <2>4. \/ EverStored' = EverStored /\ UNCHANGED workers
        \/ /\ EverStored' = EverStored \union {w} /\ w \notin EverStored
           /\ workers' = workers \union {w}
    <3>1. \A v \in Worker \ {w} : add'[v].at = add[v].at
      BY <2>1, AddMoves
    <3>2. \/ /\ add[w].at \in {"off", "count"} /\ add'[w].at \in {"count", "store", "full"}
             /\ UNCHANGED workers
          \/ /\ add[w].at = "created" /\ add'[w].at = "done" /\ UNCHANGED workers
          \/ /\ add[w].at = "store" /\ add'[w].at = "created"
             /\ workers' = workers \union {w}
      BY <2>1, AddMoves DEF AddWorker, CountKey, CapacityCheck, Store, CountCreated
    <3> QED
      BY <3>1, <3>2 DEF EverStored, WorkersAt
  <2>5. stats.at # "off" => StatsCovers'
    BY <2>2, <2>4, StatsCoversMoves DEF RangesInv, StatsCovers
  <2> QED
    BY <2>2, <2>3, <2>5 DEF RangesInv, StatsCovers
<1>2. CASE \E r \in Remover : (\E w \in Worker : RemoveWorker(w, r)) \/ CountTerminated(r)
  <2>1. UNCHANGED <<stats, add>>
    BY <1>2 DEF RemoveWorker, CountTerminated
  <2>2. stats.at # "off" => StatsCovers'
    <3>1. EverStored' = EverStored
      BY <2>1 DEF EverStored, WorkersAt
    <3>2. CASE UNCHANGED workers
      BY <2>1, <3>1, <3>2 DEF RangesInv, StatsCovers
    <3>3. ASSUME NEW CONSTANT w \in EverStored, workers' = workers \ {w}, stats.at # "off"
          PROVE  StatsCovers'
      <4>1. StatsCovers /\ w \in Worker
        BY <3>3 DEF RangesInv, StatsCovers, EverStored, WorkersAt
      <4> QED
        BY <2>1, <3>1, <3>3, <4>1, StatsCoversMoves
    <3>4. \/ UNCHANGED workers
          \/ \E w \in EverStored : workers' = workers \ {w}
      BY <1>2 DEF RemoveWorker, CountTerminated
    <3> QED
      BY <3>2, <3>3, <3>4
  <2> QED
    BY <2>1, <2>2 DEF RangesInv, StatsCovers
<1>3. CASE StatsBegins \/ StatsReturns \/ \E k \in Worker : StatsKey(k)
  <2>1. UNCHANGED <<workers, add>>
    BY <1>3 DEF StatsBegins, StatsReturns, StatsKey
  <2> QED
    BY <1>3, <2>1, StatsNext DEF RangesInv, StatsCovers
<1>4. CASE UNCHANGED vars
  BY <1>4 DEF vars, RangesInv, EverStored, WorkersAt
<1> QED
  BY <1>1, <1>2, <1>3, <1>4 DEF Next
-----------------------------------------------------------------------------
(***************************************************************************)
(* Types: the counters are no larger than what they count.                 *)
(***************************************************************************)

\* Every step keeps the types.
LEMMA TypeNext ==
  ASSUME TypeOK, CountersInv, RangesInv, [Next]_vars
  PROVE  TypeOK'
<1>1. Cardinality(Worker) \in Nat /\ Cardinality(Remover) \in Nat
  BY FS_CardinalityType, WorkerPoolAssumption
<1>2. /\ totalCreated' \in 0..Cardinality(Worker)
      /\ totalTerminated' \in 0..Cardinality(Remover)
  <2>1. WorkersAt({"done"})' \subseteq Worker /\ RemovalsAt("done")' \subseteq Remover
    BY DEF WorkersAt, RemovalsAt
  <2>2. /\ Cardinality(WorkersAt({"done"})') \in 0..Cardinality(Worker)
        /\ Cardinality(RemovalsAt("done")') \in 0..Cardinality(Remover)
    BY <1>1, <2>1, PartCounts, WorkerPoolAssumption
  <2>3. CountersInv'
    BY CountersNext
  <2> QED
    BY <2>2, <2>3 DEF CountersInv
<1>3. CASE \E w \in Worker : AddWorker(w) \/ AddStep(w)
  <2>1. PICK w \in Worker : AddWorker(w) \/ AddStep(w)
    BY <1>3
  <2>2. UNCHANGED <<remove, stats>> /\ workers' \subseteq Worker
    BY <2>1 DEF AddWorker, AddStep, CountKey, CapacityCheck, Store, CountCreated, TypeOK
  <2>3. add' \in [Worker -> [at: AddPC, todo: SUBSET Worker, count: 0..Cardinality(Worker)]]
    <3>1. add' \in [Worker -> [at: AddPC, todo: SUBSET Worker, count: Int]]
      BY <2>1, AddMoves
    <3>2. ASSUME NEW CONSTANT v \in Worker PROVE add'[v].count \in 0..Cardinality(Worker)
      <4>1. /\ add'[v].todo \subseteq Worker /\ add'[v].count \in Int
            /\ add'[v].count + Cardinality(add'[v].todo) <= Cardinality(Worker)
        BY <2>1, <3>1, CountsNext
      <4>2. Cardinality(add'[v].todo) \in Nat
        BY <4>1, PartCounts, WorkerPoolAssumption
      <4>3. add'[v].count >= 0
        <5>1. /\ add[v].count \in 0..Cardinality(Worker)
              /\ \/ add'[v] = add[v]
                 \/ add'[v].count \in {0, add[v].count, add[v].count + 1}
          BY <2>1, AddMoves DEF TypeOK
        <5> QED
          BY <1>1, <5>1
      <4> QED
        BY <1>1, <4>1, <4>2, <4>3
    <3> QED
      BY <3>1, <3>2
  <2>4. peak' \in 0..Cardinality(Worker)
    <3>1. CASE AddWorker(w)
      <4>1. Adding \union {w} \subseteq Worker /\ w \notin Adding
        BY <3>1 DEF AddWorker, Adding, WorkersAt
      <4>2. /\ IsFiniteSet(Adding) /\ Cardinality(Adding) \in Nat
            /\ Cardinality(Adding \union {w}) <= Cardinality(Worker)
        BY <4>1, PartCounts, WorkerPoolAssumption
      <4>3. Cardinality(Adding \union {w}) = Cardinality(Adding) + 1
        BY <4>1, <4>2, FS_AddElement
      <4> QED
        BY <1>1, <3>1, <4>2, <4>3 DEF AddWorker, TypeOK
    <3>2. CASE AddStep(w)
      BY <3>2 DEF AddStep, CountKey, CapacityCheck, Store, CountCreated, TypeOK
    <3> QED
      BY <2>1, <3>1, <3>2
  <2> QED
    BY <1>2, <2>2, <2>3, <2>4 DEF TypeOK
<1>4. CASE \E r \in Remover : (\E w \in Worker : RemoveWorker(w, r)) \/ CountTerminated(r)
  <2>1. UNCHANGED <<add, stats, peak>> /\ workers' \subseteq Worker
    BY <1>4 DEF RemoveWorker, CountTerminated, TypeOK
  <2>2. remove' \in [Remover -> [at: {"off", "counter", "done"},
                                worker: Worker \union {NoWorker}]]
    BY <1>4, RemoveMoves
  <2> QED
    BY <1>2, <2>1, <2>2 DEF TypeOK
<1>5. CASE StatsBegins \/ StatsReturns \/ \E k \in Worker : StatsKey(k)
  <2>1. UNCHANGED <<workers, add, remove, peak>>
    BY <1>5 DEF StatsBegins, StatsReturns, StatsKey
  <2>2. stats' \in [at: {"off", "range", "done"}, todo: SUBSET Worker,
                   active: 0..Cardinality(Worker), created: 0..Cardinality(Worker),
                   terminated: 0..Cardinality(Remover)]
    BY <1>5, StatsNext
  <2> QED
    BY <1>2, <2>1, <2>2 DEF TypeOK
<1>6. CASE UNCHANGED vars
  BY <1>6 DEF vars, TypeOK
<1> QED
  BY <1>3, <1>4, <1>5, <1>6 DEF Next

-----------------------------------------------------------------------------
(***************************************************************************)
(* The capacity.                                                           *)
(***************************************************************************)
Ranks == [Worker -> 1..Cardinality(Worker)]

\* What the bound counts is finite.
LEMMA FiniteUpTo ==
  ASSUME TypeOK, NEW CONSTANT rank, NEW CONSTANT w
  PROVE  /\ IsFiniteSet(UpTo(rank, w)) /\ Cardinality(UpTo(rank, w)) \in Nat
         /\ IsFiniteSet(Unvisited(rank, w)) /\ Cardinality(Unvisited(rank, w)) \in Nat
         /\ IsFiniteSet(workers \union Adding)
<1>1. workers \union Adding \subseteq Worker
  BY DEF TypeOK, Adding, WorkersAt
<1>2. UpTo(rank, w) \subseteq Worker /\ Unvisited(rank, w) \subseteq Worker
  BY <1>1 DEF UpTo, Unvisited
<1> QED
  BY <1>1, <1>2, PartCounts, WorkerPoolAssumption

\* A call that begins is the last in the order, and all that are in the pool
\* are before its Count.
LEMMA OverrunBegins ==
  ASSUME TypeOK, TypeOK', CountersInv, Cardinality(Adding) <= peak,
         NEW CONSTANT rank \in Ranks, RankInv(rank),
         NEW CONSTANT w \in Worker, AddWorker(w)
  PROVE  OverrunInv'
<1>1. /\ add[w].at = "off" /\ add'[w].at = "count" /\ add'[w].todo = Worker \ {w}
      /\ add'[w].count = 0 /\ \A v \in Worker \ {w} : add'[v] = add[v]
      /\ UNCHANGED workers
  BY AddMoves DEF AddWorker, CountKey, CapacityCheck, Store, CountCreated
<1>2. /\ Adding' = Adding \union {w} /\ w \notin Adding
      /\ Began' = Began \union {w} /\ w \notin Began
      /\ Passed' = Passed /\ Passed \subseteq Began
      /\ Counting' = Counting \union {w}
      /\ workers \union Adding \subseteq Began
      /\ Began \subseteq Worker
  BY <1>1 DEF Adding, Began, Passed, Counting, WorkersAt, AddPC, CountersInv, EverStored
<1>3. /\ Cardinality(Began') = Cardinality(Began) + 1 /\ Cardinality(Began) \in Nat
      /\ Cardinality(Began) + 1 <= Cardinality(Worker) /\ Cardinality(Worker) \in Nat
  <2>1. IsFiniteSet(Began) /\ Cardinality(Began) \in Nat
    BY FinitePool DEF Began
  <2>2. Cardinality(Began') = Cardinality(Began) + 1
    BY <1>2, <2>1, FS_AddElement
  <2>3. Cardinality(Began') <= Cardinality(Worker)
    <3>1. Began' \subseteq Worker
      BY DEF Began, WorkersAt
    <3> QED
      BY <3>1, PartCounts, WorkerPoolAssumption
  <2> QED
    BY <2>1, <2>2, <2>3, FS_CardinalityType, WorkerPoolAssumption
<1>4. /\ Cardinality(Adding') <= peak' /\ peak <= peak' /\ peak \in Nat /\ peak' \in Nat
      /\ Cardinality(Adding') \in Nat
  <2>1. IsFiniteSet(Adding) /\ Cardinality(Adding) \in Nat
    BY FinitePool DEF Adding
  <2>2. Cardinality(Adding') = Cardinality(Adding) + 1
    BY <1>2, <2>1, FS_AddElement
  <2>3. peak \in Nat
    BY FS_CardinalityType, WorkerPoolAssumption DEF TypeOK
  <2> QED
    BY <2>1, <2>2, <2>3 DEF AddWorker
<1>5. PICK after \in Ranks : after = [rank EXCEPT ![w] = Cardinality(Began) + 1]
  <2>1. [rank EXCEPT ![w] = Cardinality(Began) + 1] \in Ranks
    BY <1>3 DEF Ranks
  <2> QED
    BY <2>1, Zenon
<1>6. /\ after[w] = Cardinality(Began) + 1
      /\ \A v \in Began : after[v] = rank[v] /\ rank[v] \in Nat /\ after[v] < after[w]
  <2>1. after[w] = Cardinality(Began) + 1
    BY <1>5 DEF Ranks
  <2>2. ASSUME NEW v \in Began
        PROVE  after[v] = rank[v] /\ rank[v] \in Nat /\ after[v] < after[w]
    <3>1. v \in Worker /\ v # w
      BY <1>2
    <3>2. after[v] = rank[v] /\ rank[v] \in 1..Cardinality(Worker)
      BY <1>5, <3>1 DEF Ranks
    <3>3. rank[v] <= Cardinality(Began)
      BY DEF RankInv
    <3> QED
      BY <1>3, <2>1, <3>2, <3>3
  <2> QED
    BY <2>1, <2>2
<1>7. \A v \in Began : UpTo(after, v)' = UpTo(rank, v)
  BY <1>1, <1>2, <1>3, <1>6 DEF UpTo
<1>8. \A v \in Began : Unvisited(after, v)' = Unvisited(rank, v)
  BY <1>1, <1>2, <1>3, <1>6 DEF Unvisited
<1>9. \A v \in Began' : after[v] <= Cardinality(Began')
  BY <1>2, <1>3, <1>6
<1>10. ASSUME NEW CONSTANT v \in Counting'
       PROVE  Cardinality(UpTo(after, v)') <=
                add'[v].count + Cardinality(Unvisited(after, v)') + peak'
  <2>1. CASE v = w
    <3>1. UpTo(after, v)' = workers \union Adding'
      BY <1>1, <1>2, <1>3, <1>6, <2>1 DEF UpTo
    <3>2. Unvisited(after, v)' = workers
      BY <1>1, <1>2, <1>3, <1>6, <2>1 DEF Unvisited
    <3>3. /\ IsFiniteSet(workers) /\ IsFiniteSet(Adding') /\ Cardinality(workers) \in Nat
          /\ Cardinality(workers \intersect Adding') \in Nat
      BY PartCounts, WorkerPoolAssumption DEF TypeOK, Adding, WorkersAt
    <3>4. Cardinality(workers \union Adding') =
            Cardinality(workers) + Cardinality(Adding') - Cardinality(workers \intersect Adding')
      BY <3>3, FS_Union
    <3>5. /\ Cardinality(UpTo(after, v)') = Cardinality(workers \union Adding')
          /\ Cardinality(Unvisited(after, v)') = Cardinality(workers)
      BY <3>1, <3>2, Zenon
    <3>6. add'[v].count = 0
      BY <1>1, <2>1
    <3> QED
      BY <1>4, <3>3, <3>4, <3>5, <3>6
  <2>2. CASE v # w
    <3>1. v \in Counting /\ v \in Began /\ v \in Worker
      BY <1>2, <2>2 DEF Counting, Began, WorkersAt, AddPC
    <3>2. /\ Cardinality(UpTo(after, v)') = Cardinality(UpTo(rank, v))
          /\ Cardinality(Unvisited(after, v)') = Cardinality(Unvisited(rank, v))
      BY <1>7, <1>8, <3>1, Zenon
    <3>3. add'[v].count = add[v].count /\ add[v].count \in Int
      <4>1. add[v].count \in Int
        BY <3>1, FS_CardinalityType, WorkerPoolAssumption DEF TypeOK
      <4>2. add'[v] = add[v]
        BY <1>1, <2>2, <3>1
      <4> QED
        BY <4>1, <4>2
    <3>4. Cardinality(UpTo(rank, v)) <= add[v].count + Cardinality(Unvisited(rank, v)) + peak
      BY <3>1 DEF RankInv
    <3>5. Cardinality(UpTo(rank, v)) \in Nat /\ Cardinality(Unvisited(rank, v)) \in Nat
      BY FiniteUpTo
    <3> QED
      BY <1>4, <3>2, <3>3, <3>4, <3>5
  <2> QED
    BY <2>1, <2>2
<1>11. ASSUME Passed' # {}
       PROVE  \E last \in Passed' :
                /\ \A v \in Passed' : after[v] <= after[last]
                /\ Cardinality(UpTo(after, last)') <= MaxWorkers + peak' - 1
  <2>1. PICK last \in Passed :
          /\ \A v \in Passed : rank[v] <= rank[last]
          /\ Cardinality(UpTo(rank, last)) <= MaxWorkers + peak - 1
    BY <1>2, <1>11 DEF RankInv
  <2>2. \A v \in Passed' : after[v] <= after[last]
    BY <1>2, <1>6, <2>1
  <2>3. Cardinality(UpTo(after, last)') = Cardinality(UpTo(rank, last))
    BY <1>2, <1>7, <2>1, Zenon
  <2>4. Cardinality(UpTo(rank, last)) \in Nat
    BY FiniteUpTo
  <2>5. Cardinality(UpTo(after, last)') <= MaxWorkers + peak' - 1
    BY <1>4, <2>1, <2>3, <2>4, WorkerPoolAssumption
  <2> QED
    BY <1>2, <2>2, <2>5
<1>12. RankInv(after)'
  BY <1>9, <1>10, <1>11 DEF RankInv
<1> QED
  BY <1>4, <1>5, <1>12 DEF OverrunInv, Ranks

\* A Count that visits a key has one more of them behind it, or nobody.
LEMMA OverrunCounts ==
  ASSUME TypeOK, NEW CONSTANT rank \in Ranks, RankInv(rank),
         NEW CONSTANT w \in Worker, NEW CONSTANT k \in Worker, CountKey(w, k)
  PROVE  RankInv(rank)'
<1>1. /\ add[w].at = "count" /\ add'[w].at = "count" /\ add'[w].todo = add[w].todo \ {k}
      /\ k \in add[w].todo /\ UNCHANGED <<workers, peak>>
      /\ add[w].count \in Int
      /\ add'[w].count = IF k \in workers THEN add[w].count + 1 ELSE add[w].count
      /\ \A v \in Worker \ {w} : add'[v] = add[v]
  BY FS_CardinalityType, WorkerPoolAssumption DEF CountKey, TypeOK
<1>2. Adding' = Adding /\ Began' = Began /\ Counting' = Counting /\ Passed' = Passed
  BY <1>1 DEF Adding, Began, Counting, Passed, WorkersAt, AddPC
<1>3. \A v \in Worker : UpTo(rank, v)' = UpTo(rank, v)
  BY <1>1, <1>2 DEF UpTo
<1>4. ASSUME NEW CONSTANT v \in Counting
      PROVE  Cardinality(UpTo(rank, v)) <=
               add'[v].count + Cardinality(Unvisited(rank, v)') + peak
  <2>0. v \in Worker /\ peak \in Nat
        /\ Cardinality(UpTo(rank, v)) <= add[v].count + Cardinality(Unvisited(rank, v)) + peak
    BY FS_CardinalityType, WorkerPoolAssumption DEF RankInv, Counting, WorkersAt, TypeOK
  <2>1. CASE v # w
    <3>1. add'[v] = add[v] /\ Unvisited(rank, v)' = Unvisited(rank, v)
      BY <1>1, <2>0, <2>1 DEF Unvisited
    <3> QED
      BY <2>0, <3>1
  <2>2. CASE v = w
    <3> DEFINE U == Unvisited(rank, w)   U1 == Unvisited(rank, w)'
    <3>1. U1 = U \ {k} /\ (k \in U => k \in workers)
      BY <1>1 DEF Unvisited
    <3>2. /\ IsFiniteSet(U) /\ Cardinality(U) \in Nat /\ Cardinality(UpTo(rank, w)) \in Nat
      BY FiniteUpTo
    <3> HIDE DEF U, U1
    <3>3. /\ Cardinality(U1) \in Nat
          /\ k \in U /\ k \in U1 => Cardinality(U1) = Cardinality(U)
          /\ k \notin U /\ k \notin U1 => Cardinality(U1) = Cardinality(U)
          /\ k \notin U /\ k \in U1 => Cardinality(U1) = Cardinality(U) + 1
          /\ k \in U /\ k \notin U1 => Cardinality(U1) = Cardinality(U) - 1
      BY <3>1, <3>2, ElementCounts
    <3>4. Cardinality(UpTo(rank, w)) <= add[w].count + Cardinality(U) + peak
      BY <2>0, <2>2 DEF U
    <3>5. Cardinality(UpTo(rank, w)) <= add'[w].count + Cardinality(U1) + peak
      BY <1>1, <2>0, <3>1, <3>2, <3>3, <3>4
    <3> QED
      BY <2>2, <3>5 DEF U1
  <2> QED
    BY <2>1, <2>2
<1>5. \A v \in Counting' : Cardinality(UpTo(rank, v)') <=
               add'[v].count + Cardinality(Unvisited(rank, v)') + peak'
  <2>1. TAKE v \in Counting'
  <2>2. v \in Counting /\ v \in Worker
    BY <1>2 DEF Counting, WorkersAt
  <2>3. Cardinality(UpTo(rank, v)') = Cardinality(UpTo(rank, v))
    BY <1>3, <2>2, Zenon
  <2> QED
    BY <1>1, <1>4, <2>2, <2>3
<1>6. Passed' # {} =>
        \E last \in Passed' : /\ \A v \in Passed' : rank[v] <= rank[last]
                             /\ Cardinality(UpTo(rank, last)') <= MaxWorkers + peak' - 1
  <2>1. \A v \in Passed : Cardinality(UpTo(rank, v)') = Cardinality(UpTo(rank, v))
    <3>1. Passed \subseteq Worker
      BY DEF Passed, WorkersAt
    <3> QED
      BY <1>3, <3>1, Zenon
  <2> QED
    BY <1>1, <1>2, <2>1 DEF RankInv
<1> QED
  BY <1>2, <1>5, <1>6 DEF RankInv

\* The bound of a Count goes on to hold when what it bounds and has still to
\* count change by the same, or to its favour.
LEMMA CountingKeeps ==
  ASSUME TypeOK, TypeOK', NEW CONSTANT rank \in Ranks, RankInv(rank), UNCHANGED peak,
         Counting' \subseteq Counting,
         \A v \in Counting' :
           /\ add'[v] = add[v]
           /\ Cardinality(UpTo(rank, v)') + Cardinality(Unvisited(rank, v)) <=
                Cardinality(UpTo(rank, v)) + Cardinality(Unvisited(rank, v)')
  PROVE  \A v \in Counting' : Cardinality(UpTo(rank, v)') <=
               add'[v].count + Cardinality(Unvisited(rank, v)') + peak'
<1>1. TAKE v \in Counting'
<1> DEFINE a == Cardinality(UpTo(rank, v))        b == Cardinality(Unvisited(rank, v))
           c == Cardinality(UpTo(rank, v)')       d == Cardinality(Unvisited(rank, v)')
           n == add[v].count
<1>2. a \in Nat /\ b \in Nat /\ c \in Nat /\ d \in Nat
  <2>1. a \in Nat /\ b \in Nat
    BY FiniteUpTo
  <2>2. /\ UpTo(rank, v)' \subseteq Worker /\ Unvisited(rank, v)' \subseteq Worker
    BY DEF UpTo, Unvisited, Adding, WorkersAt, TypeOK
  <2>3. c \in Nat /\ d \in Nat
    BY <2>2, PartCounts, WorkerPoolAssumption
  <2> QED
    BY <2>1, <2>3
<1>3. n \in Int /\ peak \in Int /\ v \in Worker
  BY FS_CardinalityType, WorkerPoolAssumption DEF TypeOK, Counting, WorkersAt
<1>4. a <= n + b + peak /\ c + b <= a + d
  BY DEF RankInv
<1> HIDE DEF a, b, c, d, n
<1>5. c <= n + d + peak
  BY <1>2, <1>3, <1>4
<1> QED
  BY <1>5 DEF c, d, n

\* The bound on those that passed goes on to hold when nobody passes or comes.
LEMMA PassedKeeps ==
  ASSUME TypeOK, NEW CONSTANT rank \in Ranks, RankInv(rank), UNCHANGED peak, Passed' = Passed,
         (workers \union Adding)' \subseteq workers \union Adding
  PROVE  Passed' # {} =>
           \E last \in Passed' : /\ \A v \in Passed' : rank[v] <= rank[last]
                                /\ Cardinality(UpTo(rank, last)') <= MaxWorkers + peak' - 1
<1>1. HAVE Passed' # {}
<1>2. PICK last \in Passed : /\ \A v \in Passed : rank[v] <= rank[last]
                            /\ Cardinality(UpTo(rank, last)) <= MaxWorkers + peak - 1
  BY <1>1 DEF RankInv
<1>3. UpTo(rank, last)' \subseteq UpTo(rank, last)
  BY DEF UpTo
<1>4. /\ Cardinality(UpTo(rank, last)') <= Cardinality(UpTo(rank, last))
      /\ Cardinality(UpTo(rank, last)') \in Nat /\ Cardinality(UpTo(rank, last)) \in Nat
  BY <1>3, FiniteUpTo, PartCounts
<1>5. peak \in Nat /\ MaxWorkers \in Nat
  BY FS_CardinalityType, WorkerPoolAssumption DEF TypeOK
<1>6. Cardinality(UpTo(rank, last)') <= MaxWorkers + peak' - 1
  BY <1>2, <1>4, <1>5
<1> QED
  BY <1>2, <1>6

\* A call that passes the check is one of few, or one of those that began
\* before the last one that passed.
LEMMA OverrunChecks ==
  ASSUME TypeOK, TypeOK', RangesInv, NEW CONSTANT rank \in Ranks, RankInv(rank),
         NEW CONSTANT w \in Worker, CapacityCheck(w)
  PROVE  RankInv(rank)'
<1>1. /\ add[w].at = "count" /\ add[w].todo = {} /\ UNCHANGED <<workers, peak>>
      /\ add'[w].at = IF add[w].count >= MaxWorkers THEN "full" ELSE "store"
      /\ \A v \in Worker \ {w} : add'[v] = add[v]
  <2>1. /\ add[w].at = "count" /\ add[w].todo = {} /\ UNCHANGED <<workers, peak>>
    BY DEF CapacityCheck
  <2>2. \A v \in Worker \ {w} : add'[v] = add[v]
    BY AddMoves DEF AddStep
  <2>3. add'[w].at = IF add[w].count >= MaxWorkers THEN "full" ELSE "store"
    BY <2>1, AddMoves DEF AddStep, AddWorker, CountKey, CapacityCheck, Store, CountCreated
  <2> QED
    BY <2>1, <2>2, <2>3
<1>2. /\ Adding' \subseteq Adding /\ Began' = Began
      /\ Counting' = Counting \ {w} /\ w \in Counting
      /\ Passed' = IF add[w].count >= MaxWorkers THEN Passed ELSE Passed \union {w}
  BY <1>1 DEF Adding, Began, Counting, Passed, WorkersAt, AddPC
<1>3. \A v : UpTo(rank, v)' \subseteq UpTo(rank, v)
  BY <1>1, <1>2 DEF UpTo
<1>4. \A v \in Worker : /\ Cardinality(UpTo(rank, v)') <= Cardinality(UpTo(rank, v))
                       /\ Cardinality(UpTo(rank, v)') \in Nat
                       /\ Cardinality(UpTo(rank, v)) \in Nat
  BY <1>3, FiniteUpTo, PartCounts
<1>5. \A v \in Counting' : Cardinality(UpTo(rank, v)') <=
               add'[v].count + Cardinality(Unvisited(rank, v)') + peak'
  <2>1. ASSUME NEW CONSTANT v \in Counting'
        PROVE  /\ add'[v] = add[v]
               /\ Cardinality(UpTo(rank, v)') + Cardinality(Unvisited(rank, v)) <=
                    Cardinality(UpTo(rank, v)) + Cardinality(Unvisited(rank, v)')
    <3>1. v \in Worker /\ add'[v] = add[v]
      BY <1>1, <1>2 DEF Counting, WorkersAt
    <3>2. Unvisited(rank, v)' = Unvisited(rank, v)
      BY <1>1, <3>1 DEF Unvisited
    <3>3. Cardinality(Unvisited(rank, v)') = Cardinality(Unvisited(rank, v))
      BY <3>2, Zenon
    <3>4. Cardinality(Unvisited(rank, v)) \in Nat
      BY FiniteUpTo
    <3> QED
      BY <1>4, <3>1, <3>3, <3>4
  <2> QED
    BY <1>1, <1>2, <2>1, CountingKeeps
<1>6. ASSUME Passed' # {}
      PROVE  \E last \in Passed' : /\ \A v \in Passed' : rank[v] <= rank[last]
                                  /\ Cardinality(UpTo(rank, last)') <= MaxWorkers + peak' - 1
  <2>0. \A v \in Worker : rank[v] \in Int
    BY FS_CardinalityType, WorkerPoolAssumption DEF Ranks
  <2>1. Passed \subseteq Worker /\ Passed' \subseteq Worker
    BY DEF Passed, WorkersAt
  <2>2. CASE Passed' = Passed
    BY <1>1, <1>2, <1>6, <2>2, PassedKeeps
  <2>3. CASE Passed' = Passed \union {w} /\ add[w].count < MaxWorkers
    <3>1. Cardinality(UpTo(rank, w)') <= MaxWorkers + peak' - 1
      <4>1. Unvisited(rank, w) = {}
        BY <1>1 DEF Unvisited
      <4>2. Cardinality(Unvisited(rank, w)) = 0
        BY <4>1, FS_EmptySet, Zenon
      <4>3. Cardinality(UpTo(rank, w)) <= add[w].count + Cardinality(Unvisited(rank, w)) + peak
        BY <1>2 DEF RankInv
      <4>4. add[w].count \in Int /\ peak \in Nat /\ MaxWorkers \in Nat
        BY FS_CardinalityType, WorkerPoolAssumption DEF TypeOK
      <4> QED
        BY <1>1, <1>4, <2>3, <4>2, <4>3, <4>4
    <3>2. CASE Passed = {}
      BY <2>0, <2>3, <3>1, <3>2
    <3>3. CASE Passed # {}
      <4>1. PICK last \in Passed : /\ \A v \in Passed : rank[v] <= rank[last]
                                  /\ Cardinality(UpTo(rank, last)) <= MaxWorkers + peak - 1
        BY <3>3 DEF RankInv
      <4>2. CASE rank[w] <= rank[last]
        <5>1. Cardinality(UpTo(rank, last)') <= MaxWorkers + peak' - 1
          <6>1. peak \in Nat /\ MaxWorkers \in Nat
            BY FS_CardinalityType, WorkerPoolAssumption DEF TypeOK
          <6> QED
            BY <1>1, <1>4, <2>1, <4>1, <6>1
        <5> QED
          BY <2>3, <4>1, <4>2, <5>1
      <4>3. CASE rank[last] <= rank[w]
        <5>1. \A v \in Passed' : rank[v] <= rank[w]
          BY <2>0, <2>1, <2>3, <4>1, <4>3
        <5> QED
          BY <2>3, <3>1, <5>1
      <4> QED
        BY <2>0, <2>1, <4>1, <4>2, <4>3
    <3> QED
      BY <3>2, <3>3
  <2> QED
    <3>1. add[w].count \in Int /\ MaxWorkers \in Nat
      BY FS_CardinalityType, WorkerPoolAssumption DEF TypeOK
    <3> QED
      BY <1>2, <2>2, <2>3, <3>1
<1> QED
  <2>1. \A v \in Began' : rank[v] <= Cardinality(Began')
    BY <1>2 DEF RankInv
  <2> QED
    BY <2>1, <1>5, <1>6 DEF RankInv

\* A call that stores its worker was bounded before, and what it stores can
\* only add to what others have still to count.
LEMMA OverrunStores ==
  ASSUME TypeOK, TypeOK', NEW CONSTANT rank \in Ranks, RankInv(rank),
         NEW CONSTANT w \in Worker, Store(w) \/ CountCreated(w)
  PROVE  RankInv(rank)'
<1>1. /\ UNCHANGED peak /\ \A v \in Worker \ {w} : add'[v] = add[v]
      /\ \/ /\ add[w].at = "store" /\ add'[w].at = "created" /\ workers' = workers \union {w}
         \/ /\ add[w].at = "created" /\ add'[w].at = "done" /\ workers' = workers
  BY AddMoves DEF AddStep, AddWorker, CountKey, CapacityCheck, Store, CountCreated
<1>2. /\ (workers \union Adding)' = workers \union Adding /\ workers \subseteq workers'
      /\ Began' = Began /\ Counting' = Counting /\ Passed' = Passed /\ w \notin Counting
  BY <1>1 DEF Adding, Began, Counting, Passed, WorkersAt, AddPC
<1>3. ASSUME NEW CONSTANT v \in Counting'
      PROVE  /\ add'[v] = add[v]
             /\ Cardinality(UpTo(rank, v)') + Cardinality(Unvisited(rank, v)) <=
                  Cardinality(UpTo(rank, v)) + Cardinality(Unvisited(rank, v)')
  <2>1. v \in Worker /\ add'[v] = add[v]
    BY <1>1, <1>2 DEF Counting, WorkersAt
  <2>2. UpTo(rank, v)' = UpTo(rank, v) /\ Unvisited(rank, v) \subseteq Unvisited(rank, v)'
    BY <1>2, <2>1 DEF UpTo, Unvisited
  <2>3. Cardinality(UpTo(rank, v)') = Cardinality(UpTo(rank, v))
    BY <2>2, Zenon
  <2>4. IsFiniteSet(Unvisited(rank, v)')
    <3>1. Unvisited(rank, v)' \subseteq Worker
      BY DEF Unvisited, TypeOK
    <3> QED
      BY <3>1, PartCounts, WorkerPoolAssumption
  <2>5. /\ Cardinality(Unvisited(rank, v)) <= Cardinality(Unvisited(rank, v)')
        /\ Cardinality(UpTo(rank, v)) \in Nat
        /\ Cardinality(Unvisited(rank, v)) \in Nat /\ Cardinality(Unvisited(rank, v)') \in Nat
    BY <2>2, <2>4, FiniteUpTo, PartCounts, FS_CardinalityType
  <2> QED
    BY <2>1, <2>3, <2>5
<1>4. \A v \in Counting' : Cardinality(UpTo(rank, v)') <=
               add'[v].count + Cardinality(Unvisited(rank, v)') + peak'
  BY <1>1, <1>2, <1>3, CountingKeeps
<1>5. Passed' # {} =>
        \E last \in Passed' : /\ \A v \in Passed' : rank[v] <= rank[last]
                             /\ Cardinality(UpTo(rank, last)') <= MaxWorkers + peak' - 1
  BY <1>1, <1>2, PassedKeeps
<1>6. \A v \in Began' : rank[v] <= Cardinality(Began')
  BY <1>2 DEF RankInv
<1> QED
  BY <1>4, <1>5, <1>6 DEF RankInv

\* A removal takes from what a Count bounds whatever it takes from what the
\* Count has still to visit.
LEMMA OverrunRemoves ==
  ASSUME TypeOK, TypeOK', NEW CONSTANT rank \in Ranks, RankInv(rank),
         NEW CONSTANT w \in Worker, NEW CONSTANT r \in Remover, RemoveWorker(w, r)
  PROVE  RankInv(rank)'
<1>1. /\ UNCHANGED <<peak, add>> /\ workers' = workers \ {w} /\ w \notin Adding
  BY DEF RemoveWorker, EverStored, Adding, WorkersAt
<1>2. /\ Adding' = Adding /\ Began' = Began /\ Counting' = Counting /\ Passed' = Passed
  BY <1>1 DEF Adding, Began, Counting, Passed, WorkersAt
<1>3. ASSUME NEW CONSTANT v \in Counting'
      PROVE  /\ add'[v] = add[v]
             /\ Cardinality(UpTo(rank, v)') + Cardinality(Unvisited(rank, v)) <=
                  Cardinality(UpTo(rank, v)) + Cardinality(Unvisited(rank, v)')
  <2> DEFINE U == UpTo(rank, v)   U1 == UpTo(rank, v)'
             V == Unvisited(rank, v)   V1 == Unvisited(rank, v)'
  <2>1. U1 = U \ {w} /\ V1 = V \ {w} /\ V \subseteq U
    BY <1>1, <1>2 DEF UpTo, Unvisited
  <2>2. IsFiniteSet(U) /\ IsFiniteSet(V)
    BY FiniteUpTo
  <2> HIDE DEF U, U1, V, V1
  <2>3. /\ Cardinality(U) \in Nat /\ Cardinality(U1) \in Nat
        /\ w \in U /\ w \in U1 => Cardinality(U1) = Cardinality(U)
        /\ w \notin U /\ w \notin U1 => Cardinality(U1) = Cardinality(U)
        /\ w \notin U /\ w \in U1 => Cardinality(U1) = Cardinality(U) + 1
        /\ w \in U /\ w \notin U1 => Cardinality(U1) = Cardinality(U) - 1
    BY <2>1, <2>2, ElementCounts
  <2>4. /\ Cardinality(V) \in Nat /\ Cardinality(V1) \in Nat
        /\ w \in V /\ w \in V1 => Cardinality(V1) = Cardinality(V)
        /\ w \notin V /\ w \notin V1 => Cardinality(V1) = Cardinality(V)
        /\ w \notin V /\ w \in V1 => Cardinality(V1) = Cardinality(V) + 1
        /\ w \in V /\ w \notin V1 => Cardinality(V1) = Cardinality(V) - 1
    BY <2>1, <2>2, ElementCounts
  <2>5. Cardinality(U1) + Cardinality(V) <= Cardinality(U) + Cardinality(V1)
    BY <2>1, <2>3, <2>4
  <2> QED
    BY <1>1, <2>5 DEF U, U1, V, V1
<1>4. \A v \in Counting' : Cardinality(UpTo(rank, v)') <=
               add'[v].count + Cardinality(Unvisited(rank, v)') + peak'
  BY <1>1, <1>2, <1>3, CountingKeeps
<1>5. Passed' # {} =>
        \E last \in Passed' : /\ \A v \in Passed' : rank[v] <= rank[last]
                             /\ Cardinality(UpTo(rank, last)') <= MaxWorkers + peak' - 1
  BY <1>1, <1>2, PassedKeeps
<1>6. \A v \in Began' : rank[v] <= Cardinality(Began')
  BY <1>2 DEF RankInv
<1> QED
  BY <1>4, <1>5, <1>6 DEF RankInv

\* Every step but the beginning of a call keeps the order that there was.
LEMMA OverrunNext ==
  ASSUME TypeOK, TypeOK', CountersInv, RangesInv, OverrunInv, [Next]_vars
  PROVE  OverrunInv'
<1>1. PICK rank \in Ranks : RankInv(rank)
  BY DEF OverrunInv, Ranks
<1>2. CASE \E w \in Worker : AddWorker(w)
  BY <1>1, <1>2, OverrunBegins DEF OverrunInv
<1>3. CASE RankInv(rank)' /\ Adding' \subseteq Adding /\ UNCHANGED peak
  <2>1. /\ Cardinality(Adding') <= Cardinality(Adding) /\ Cardinality(Adding') \in Nat
        /\ Cardinality(Adding) \in Nat /\ peak \in Nat
    BY <1>3, PartCounts, FinitePool, FS_CardinalityType, WorkerPoolAssumption DEF Adding, TypeOK
  <2>2. Cardinality(Adding') <= peak'
    BY <1>3, <2>1 DEF OverrunInv
  <2> QED
    BY <1>1, <1>3, <2>2 DEF OverrunInv, Ranks
<1>4. CASE \E w \in Worker : AddStep(w)
  <2>1. PICK w \in Worker : AddStep(w)
    BY <1>4
  <2>2. RankInv(rank)'
    BY <1>1, <2>1, OverrunCounts, OverrunChecks, OverrunStores DEF AddStep
  <2>3. UNCHANGED peak
    BY <2>1 DEF AddStep, CountKey, CapacityCheck, Store, CountCreated
  <2>4. Adding' \subseteq Adding
    <3>1. \A v \in Worker \ {w} : add'[v] = add[v]
      BY <2>1, AddMoves
    <3>2. add[w].at \in {"count", "store"} \/ add'[w].at = "done"
      BY <2>1, AddMoves DEF AddStep, AddWorker, CountKey, CapacityCheck, Store, CountCreated
    <3> QED
      BY <3>1, <3>2 DEF Adding, WorkersAt
  <2> QED
    BY <1>3, <2>2, <2>3, <2>4
<1>5. CASE \E w \in Worker, r \in Remover : RemoveWorker(w, r)
  <2>1. RankInv(rank)'
    BY <1>1, <1>5, OverrunRemoves
  <2>2. UNCHANGED <<add, peak>>
    BY <1>5 DEF RemoveWorker
  <2>3. Adding' = Adding
    BY <2>2 DEF Adding, WorkersAt
  <2> QED
    BY <1>3, <2>1, <2>2, <2>3
<1>6. CASE \/ \E r \in Remover : CountTerminated(r)
           \/ StatsBegins \/ StatsReturns \/ (\E k \in Worker : StatsKey(k)) \/ UNCHANGED vars
  <2>1. UNCHANGED <<workers, add, peak>>
    BY <1>6 DEF CountTerminated, StatsBegins, StatsReturns, StatsKey, vars
  <2>2. RankInv(rank)' /\ Adding' = Adding
    BY <1>1, <2>1 DEF RankInv, Began, Counting, Passed, Adding, WorkersAt, UpTo, Unvisited
  <2> QED
    BY <1>3, <2>1, <2>2
<1> QED
  BY <1>2, <1>4, <1>5, <1>6 DEF Next

-----------------------------------------------------------------------------
(***************************************************************************)
(* The invariant, and what it says.                                        *)
(***************************************************************************)

\* The pool starts empty.
LEMMA PoolInit == Init => PoolInv
<1> SUFFICES ASSUME Init PROVE PoolInv
  OBVIOUS
<1>1. /\ Cardinality(Worker) \in Nat /\ Cardinality(Remover) \in Nat
      /\ Cardinality({}) = 0
  BY FS_CardinalityType, FS_EmptySet, WorkerPoolAssumption
<1>2. TypeOK
  BY <1>1 DEF Init, TypeOK, NoCall, NoStats, AddPC
<1>3. \A where : where \subseteq AddPC \ {"off"} => WorkersAt(where) = {}
  BY DEF Init, NoCall, WorkersAt
<1>4. /\ EverStored = {} /\ WorkersAt({"done"}) = {} /\ Adding = {}
      /\ Began = {} /\ Counting = {} /\ Passed = {}
  BY <1>3 DEF EverStored, Adding, Began, Counting, Passed, AddPC
<1>5. RemovalsAt("counter") = {} /\ RemovalsAt("done") = {}
  BY DEF Init, RemovalsAt
<1>6. CountersInv
  <2>1. workers = {} /\ totalCreated = 0 /\ totalTerminated = 0
    BY DEF Init
  <2>2. /\ Cardinality(WorkersAt({"done"})) = 0 /\ Cardinality(RemovalsAt("done")) = 0
        /\ Cardinality(RemovalsAt("counter")) = 0
        /\ Cardinality(workers) = 0 /\ Cardinality(EverStored) = 0
    BY <1>1, <1>4, <1>5, <2>1, Zenon
  <2> QED
    BY <2>1, <2>2 DEF CountersInv
<1>7. RangesInv
  <2>1. \A w \in Worker : add[w].todo = {} /\ add[w].count = 0
    BY DEF Init, NoCall
  <2>2. \A w \in Worker : Cardinality(add[w].todo) = 0
    BY <1>1, <2>1, Zenon
  <2>3. stats.at = "off" /\ stats.todo = {} /\ stats.active = 0
    BY DEF Init, NoStats
  <2>4. Cardinality(stats.todo) = 0
    BY <1>1, <2>3, Zenon
  <2> QED
    BY <1>1, <2>1, <2>2, <2>3, <2>4 DEF RangesInv
<1>8. OverrunInv
  <2>1. [v \in Worker |-> Cardinality(Worker)] \in [Worker -> 1..Cardinality(Worker)]
    <3>1. ASSUME NEW v \in Worker PROVE Cardinality(Worker) \in 1..Cardinality(Worker)
      <4>1. Cardinality(Worker) # 0
        BY FS_EmptySet, WorkerPoolAssumption
      <4> QED
        BY <1>1, <4>1
    <3> QED
      BY <3>1
  <2>2. RankInv([v \in Worker |-> Cardinality(Worker)])
    BY <1>4 DEF RankInv
  <2>3. Cardinality(Adding) <= peak
    BY <1>1, <1>4 DEF Init
  <2> QED
    BY <2>1, <2>2, <2>3 DEF OverrunInv
<1> QED
  BY <1>2, <1>6, <1>7, <1>8 DEF PoolInv

\* The invariant holds in every state.
THEOREM PoolInvariant == Spec => []PoolInv
<1>1. PoolInv /\ [Next]_vars => PoolInv'
  BY TypeNext, CountersNext, RangesNext, OverrunNext DEF PoolInv
<1> QED
  BY PoolInit, <1>1, PTL DEF Spec

\* Every variable of the registry keeps its type: no counter counts more
\* workers, or more removals, than there are.
THEOREM PoolTypeCorrect == Spec => []TypeOK
BY PoolInvariant, PTL DEF PoolInv

\* The pool exceeds MaxWorkers by less than the number of AddWorker calls that
\* were ever in progress at once, however Count's Range interleaves with other
\* calls' stores and removals.
THEOREM OverrunBoundedTheorem == Spec => []OverrunBounded
<1>1. PoolInv => OverrunBounded
  <2> SUFFICES ASSUME PoolInv PROVE OverrunBounded
    OBVIOUS
  <2>1. MaxWorkers \in Nat /\ peak \in Nat
    BY FS_CardinalityType, WorkerPoolAssumption DEF PoolInv, TypeOK
  <2>2. workers \subseteq Passed
    BY DEF PoolInv, CountersInv, EverStored, Passed, WorkersAt
  <2>3. CASE Passed = {}
    <3>1. Cardinality(workers) = 0
      <4>1. workers = {}
        BY <2>2, <2>3
      <4> QED
        BY <4>1, FS_EmptySet
    <3> QED
      BY <2>1, <3>1 DEF OverrunBounded
  <2>4. CASE Passed # {}
    <3>1. PICK rank \in Ranks : RankInv(rank)
      BY DEF PoolInv, OverrunInv, Ranks
    <3>2. PICK last \in Passed : /\ \A w \in Passed : rank[w] <= rank[last]
                                /\ Cardinality(UpTo(rank, last)) <= MaxWorkers + peak - 1
      BY <2>4, <3>1 DEF RankInv
    <3>3. workers \subseteq UpTo(rank, last)
      BY <2>2, <3>2 DEF UpTo
    <3>4. /\ Cardinality(workers) <= Cardinality(UpTo(rank, last))
          /\ Cardinality(workers) \in Nat /\ Cardinality(UpTo(rank, last)) \in Nat
      BY <3>3, FiniteUpTo, PartCounts DEF PoolInv
    <3> QED
      BY <2>1, <3>2, <3>4 DEF OverrunBounded
  <2> QED
    BY <2>3, <2>4
<1> QED
  BY PoolInvariant, <1>1, PTL

\* Stats misses no worker that it counts as created, unless the worker has been
\* deleted by the time it returns.
THEOREM StatsMissesNobodyTheorem == Spec => []StatsMissesNobody
<1>1. PoolInv => StatsMissesNobody
  <2> SUFFICES ASSUME PoolInv, stats.at = "done"
               PROVE  stats.created <= stats.active + Cardinality(EverStored \ workers)
    BY DEF StatsMissesNobody
  <2>1. stats.todo = {}
    BY DEF PoolInv, RangesInv
  <2>2. workers \intersect stats.todo = {}
    BY <2>1
  <2>3. Cardinality(workers \intersect stats.todo) = 0
    BY <2>2, FS_EmptySet, Zenon
  <2>4. stats.created <= stats.active + Cardinality(EverStored \ workers)
                           + Cardinality(workers \intersect stats.todo)
    BY DEF PoolInv, RangesInv
  <2>5. /\ Cardinality(EverStored \ workers) \in Nat
        /\ stats.created \in Int /\ stats.active \in Int
    BY FinitePool, PartCounts, FS_CardinalityType, WorkerPoolAssumption
      DEF EverStored, PoolInv, TypeOK
  <2> QED
    BY <2>3, <2>4, <2>5
<1> QED
  BY PoolInvariant, <1>1, PTL

\* TotalCreated - TotalTerminated never exceeds the workers that are there and
\* those whose removal has not been counted yet.
THEOREM CountersCoverRemovalsTheorem == Spec => []CountersCoverRemovals
<1>1. PoolInv => CountersCoverRemovals
  <2> SUFFICES ASSUME PoolInv PROVE CountersCoverRemovals
    OBVIOUS
  <2> DEFINE D == Cardinality(WorkersAt({"done"}))   S == Cardinality(EverStored)
             Rc == Cardinality(RemovalsAt("counter"))   Rd == Cardinality(RemovalsAt("done"))
             N == Cardinality(workers)
  <2>1. D \in Nat /\ S \in Nat /\ Rc \in Nat /\ Rd \in Nat /\ N \in Nat
    BY FinitePool, PartCounts, WorkerPoolAssumption DEF EverStored, PoolInv, TypeOK
  <2>2. D <= S
    <3>1. WorkersAt({"done"}) \subseteq EverStored
      BY DEF EverStored, WorkersAt
    <3>2. IsFiniteSet(EverStored)
      BY FinitePool DEF EverStored
    <3> QED
      BY <3>1, <3>2, PartCounts
  <2>3. totalCreated = D /\ totalTerminated = Rd /\ S <= N + Rc + Rd
    BY DEF PoolInv, CountersInv
  <2>4. totalCreated - totalTerminated <= N + Rc
    <3> HIDE DEF D, S, Rc, Rd, N
    <3> QED
      BY <2>1, <2>2, <2>3
  <2> QED
    BY <2>4 DEF CountersCoverRemovals
<1> QED
  BY PoolInvariant, <1>1, PTL
=============================================================================
