--------------------------- MODULE SchedulerProofs ---------------------------
(***************************************************************************)
(* What each operation of the scheduler preserves, for any GPUs, workers   *)
(* and sizes.  The proofs about SchedulerClients and ControlPlane cite     *)
(* these lemmas for the steps that call the operations.                    *)
(***************************************************************************)
EXTENDS Scheduler, FiniteSetTheorems, TLAPS

\* A Schedule call only moves GPUs between its own lists.
LEMMA ScanTypeOK ==
  ASSUME SchedulerTypeOK, NEW w \in Worker, NEW g \in GPU,
         \/ ScanGPU(w, g) \/ CompareGPU(w, g)
         \/ ScheduleReturns(w, g) \/ ScheduleReturnsNil(w)
  PROVE  SchedulerTypeOK' /\ UNCHANGED ledgerVars
<1>1. CASE ScanGPU(w, g)
  BY <1>1 DEF ScanGPU, SchedulerTypeOK, ledgerVars
<1>2. CASE CompareGPU(w, g)
  <2>1. PICK h \in Candidates(w) :
          scan' = [scan EXCEPT ![w].head =
                     [x \in GPU |-> IF @[x] = g THEN @[h] ELSE @[x]]]
    BY <1>2 DEF CompareGPU
  <2>2. h \in GPU
    BY DEF Candidates, SchedulerTypeOK
  <2>3. scan[w].head \in [GPU -> GPU]
    BY DEF SchedulerTypeOK
  <2> DEFINE H == [x \in GPU |-> IF scan[w].head[x] = g THEN scan[w].head[h]
                                                     ELSE scan[w].head[x]]
  <2>4. H \in [GPU -> GPU]
    BY <2>2, <2>3
  <2>5. scan' = [scan EXCEPT ![w].head = H]
    BY <2>1
  <2>6. [scan[w] EXCEPT !.head = H]
          \in [todo: SUBSET GPU, warm: SUBSET GPU, cold: SUBSET GPU, head: [GPU -> GPU]]
    BY <2>4 DEF SchedulerTypeOK
  <2> HIDE DEF H
  <2> QED
    BY <1>2, <2>5, <2>6 DEF CompareGPU, SchedulerTypeOK, ledgerVars
<1>3. CASE ScheduleReturns(w, g) \/ ScheduleReturnsNil(w)
  <2>1. Unsorted \in [GPU -> GPU]
    BY DEF Unsorted
  <2> QED
    BY <1>3, <2>1 DEF ScheduleReturns, ScheduleReturnsNil, EndSchedule,
                      SchedulerTypeOK, ledgerVars
<1> QED
  BY <1>1, <1>2, <1>3

\* Allocate and Release keep the ledger well typed.
LEMMA LedgerTypeOK ==
  ASSUME SchedulerTypeOK, NEW w \in Worker, NEW g \in GPU,
         AllocateSucceeds(g, w) \/ AllocateFails(g, w) \/ Release(g, w)
  PROVE  SchedulerTypeOK'
<1> USE SchedulerAssumption
<1>1. CASE AllocateSucceeds(g, w)
  BY <1>1 DEF AllocateSucceeds, SchedulerTypeOK
<1>2. CASE AllocateFails(g, w)
  BY <1>2 DEF AllocateFails, SchedulerTypeOK, schedulerVars
<1>3. CASE Release(g, w)
  BY <1>3 DEF Release, SchedulerTypeOK
<1> QED
  BY <1>1, <1>2, <1>3

\* Allocate checks the room under the same lock as it takes it, and Release
\* clamps: neither takes a GPU out of 0..TotalVRAMMB, whoever calls it and in
\* whatever order, unless for a worker that asked for less than nothing.
LEMMA WithinTotalStays ==
  ASSUME SchedulerTypeOK, NEW w \in Worker, NEW g \in GPU, NEW h \in GPU,
         allocatedVRAM[h] \in 0..TotalVRAM[h],
         g = h => VRAMRequirement[w] >= 0,
         AllocateSucceeds(g, w) \/ AllocateFails(g, w) \/ Release(g, w)
  PROVE  allocatedVRAM'[h] \in 0..TotalVRAM[h]
<1> USE SchedulerAssumption DEF SchedulerTypeOK
<1>1. VRAMRequirement[w] \in Int
  OBVIOUS
<1>2. CASE AllocateSucceeds(g, w)
  BY <1>1, <1>2 DEF AllocateSucceeds, Fits, Available
<1>3. CASE AllocateFails(g, w)
  BY <1>3 DEF AllocateFails, schedulerVars
<1>4. CASE Release(g, w)
  BY <1>1, <1>4 DEF Release
<1> QED
  BY <1>2, <1>3, <1>4

-----------------------------------------------------------------------------
(***************************************************************************)
(* Sums of requirements.                                                   *)
(***************************************************************************)

\* Nobody has asked for anything.
LEMMA VRAMOfNobody == VRAMOf({}) = 0 /\ IsFiniteSet(Megabytes({}))
<1>1. Megabytes({}) = {}
  BY DEF Megabytes
<1> QED
  BY <1>1, FS_EmptySet DEF VRAMOf

\* One more worker adds what it asked for.
LEMMA VRAMOfOneMore ==
  ASSUME NEW S \in SUBSET Worker, IsFiniteSet(Megabytes(S)),
         NEW w \in Worker, w \notin S, VRAMRequirement[w] >= 0
  PROVE  /\ IsFiniteSet(Megabytes(S \union {w}))
         /\ VRAMOf(S \union {w}) = VRAMOf(S) + VRAMRequirement[w]
<1> DEFINE r == VRAMRequirement[w]
           T == {w} \X (1..r)
<1>1. r \in Nat
  BY SchedulerAssumption
<1>2. IsFiniteSet({w}) /\ Cardinality({w}) = 1
  BY FS_Singleton
<1> HIDE DEF r
<1>3. IsFiniteSet(1..r) /\ Cardinality(1..r) = r
  <2>1. /\ IsFiniteSet(1..r)
        /\ Cardinality(1..r) = IF 1 > r THEN 0 ELSE r - 1 + 1
    BY <1>1, FS_Interval
  <2> QED
    BY <1>1, <2>1
<1>4. IsFiniteSet(T) /\ Cardinality(T) = r
  <2>1. IsFiniteSet(T) /\ Cardinality(T) = Cardinality({w}) * Cardinality(1..r)
    BY <1>2, <1>3, FS_Product
  <2> QED
    BY <1>1, <1>2, <1>3, <2>1
<1>5. Megabytes(S \union {w}) = Megabytes(S) \union T
  BY DEF Megabytes, r
<1>6. Megabytes(S) \intersect T = {}
  BY DEF Megabytes
<1> HIDE DEF T
<1>7. Cardinality(Megabytes(S)) \in Nat
  BY FS_CardinalityType
<1>8. /\ IsFiniteSet(Megabytes(S) \union T)
      /\ Cardinality(Megabytes(S) \union T) = Cardinality(Megabytes(S)) + r
  <2> DEFINE m == Cardinality(Megabytes(S))
             u == Cardinality(Megabytes(S) \union T)
  <2>1. IsFiniteSet(Megabytes(S) \union T) /\ u = m + r - 0
    BY <1>4, <1>6, FS_Union, FS_EmptySet
  <2>2. m \in Nat
    BY <1>7
  <2> HIDE DEF m, u
  <2>3. u = m + r
    BY <1>1, <2>1, <2>2
  <2> QED
    BY <2>1, <2>3 DEF m, u
<1>9. VRAMOf(S \union {w}) = VRAMOf(S) + r
  BY <1>5, <1>8, Zenon DEF VRAMOf
<1> QED
  BY <1>5, <1>8, <1>9 DEF r

\* One worker fewer takes away what it asked for.
LEMMA VRAMOfOneLess ==
  ASSUME NEW S \in SUBSET Worker, IsFiniteSet(Megabytes(S)),
         NEW w \in S, VRAMRequirement[w] >= 0
  PROVE  /\ IsFiniteSet(Megabytes(S \ {w}))
         /\ VRAMOf(S \ {w}) \in Nat
         /\ VRAMOf(S) = VRAMOf(S \ {w}) + VRAMRequirement[w]
<1>1. Megabytes(S \ {w}) \in SUBSET Megabytes(S)
  BY DEF Megabytes
<1>2. IsFiniteSet(Megabytes(S \ {w}))
  BY <1>1, FS_Subset
<1>3. S = (S \ {w}) \union {w}
  OBVIOUS
<1>4. VRAMOf((S \ {w}) \union {w}) = VRAMOf(S \ {w}) + VRAMRequirement[w]
  BY <1>2, VRAMOfOneMore
<1> QED
  BY <1>2, <1>3, <1>4, FS_CardinalityType DEF VRAMOf

\* Allocate of a worker that is not on the GPU's list adds to the counter and
\* to the sum alike.  Release takes from both if the worker is on the list, and
\* the clamp does not come into it as long as they agree; if it is not, only
\* the counter goes down.
Bounded(g) ==
  IsFiniteSet(Megabytes(activeWorkers[g])) /\ allocatedVRAM[g] <= VRAMOf(activeWorkers[g])

LEMMA LedgerStays ==
  ASSUME SchedulerTypeOK, NEW w \in Worker, NEW g \in GPU,
         Bounded(g), VRAMRequirement[w] >= 0,
         \/ AllocateSucceeds(g, w) /\ w \notin activeWorkers[g]
         \/ AllocateFails(g, w)
         \/ Release(g, w)
  PROVE  /\ Bounded(g)'
         /\ ExactOn(g) /\ (\/ AllocateSucceeds(g, w) \/ AllocateFails(g, w)
                          \/ w \in activeWorkers[g]) => ExactOn(g)'
<1> DEFINE S == activeWorkers[g]
           r == VRAMRequirement[w]
           a == allocatedVRAM[g]
<1>1. /\ S \in SUBSET Worker /\ IsFiniteSet(Megabytes(S)) /\ VRAMOf(S) \in Nat
      /\ a \in Int /\ a <= VRAMOf(S) /\ r \in Nat
  BY SchedulerAssumption, FS_CardinalityType DEF SchedulerTypeOK, Bounded, VRAMOf
<1>2. CASE AllocateSucceeds(g, w) /\ w \notin S
  <2>1. activeWorkers'[g] = S \union {w} /\ allocatedVRAM'[g] = a + r
    BY <1>2 DEF AllocateSucceeds, SchedulerTypeOK
  <2>2. /\ IsFiniteSet(Megabytes(S \union {w}))
        /\ VRAMOf(S \union {w}) = VRAMOf(S) + r
    BY <1>1, <1>2, VRAMOfOneMore
  <2> QED
    BY <1>1, <2>1, <2>2 DEF Bounded, ExactOn
<1>3. CASE AllocateFails(g, w)
  BY <1>3 DEF AllocateFails, schedulerVars, Bounded, ExactOn
<1>4. ASSUME Release(g, w) PROVE Bounded(g)' /\ (ExactOn(g) /\ w \in S => ExactOn(g)')
  <2>1. /\ activeWorkers'[g] = S \ {w}
        /\ allocatedVRAM'[g] = IF a - r < 0 THEN 0 ELSE a - r
    BY <1>4 DEF Release, SchedulerTypeOK
  <2>2. CASE w \in S
    <3>1. /\ IsFiniteSet(Megabytes(S \ {w})) /\ VRAMOf(S \ {w}) \in Nat
          /\ VRAMOf(S) = VRAMOf(S \ {w}) + r
      BY <1>1, <2>2, VRAMOfOneLess
    <3> QED
      BY <1>1, <2>1, <3>1 DEF Bounded, ExactOn
  <2>3. CASE w \notin S
    <3>1. activeWorkers'[g] = S
      BY <2>1, <2>3
    <3>2. allocatedVRAM'[g] <= VRAMOf(S)
      BY <1>1, <2>1
    <3>3. Bounded(g)'
      BY <1>1, <3>1, <3>2 DEF Bounded
    <3> QED
      BY <2>3, <3>3
  <2> QED
    BY <2>2, <2>3
<1> QED
  BY <1>2, <1>3, <1>4
=============================================================================
