----------------------- MODULE SchedulerClientsProofs -----------------------
(***************************************************************************)
(* Proofs about SchedulerClients, for any number of GPUs and callers.      *)
(*                                                                         *)
(* ClientInv is inductive.  The steps of a Schedule call only touch that   *)
(* call's lists; an Allocate or Release of another caller can only shrink  *)
(* the set of GPUs that have had room since the call began, and models are *)
(* never unloaded, so what the call has already concluded stays true of    *)
(* the GPUs in that set.                                                   *)
(***************************************************************************)
EXTENDS SchedulerClients, SchedulerProofs

\* The initial state: no call has begun.
LEMMA ClientsInit == Init => ClientInv
BY DEF Init, SchedulerInit, Unsorted, ClientInv, TypeOK, SchedulerTypeOK, PC, CallInv,
       NilOverlooksNothing, WarmPreferred

\* What other callers' Allocate and Release leave of a caller's conclusions.
LEMMA WitnessPreserves ==
  ASSUME ClientInv, NEW w \in Worker, NEW v \in Worker, v # w,
         Allocated(w) \/ Released(w)
  PROVE  /\ CallInv(v)'
         /\ pc[v]' = "exhausted" => steady[v]' = {}
         /\ pc[v]' = "allocate" /\ steady[v]' \intersect warmAtCall[v]' # {}
              => ModelOf[v] \in loadedModels[choice[v]]'
<1>1. /\ pc[v]' = pc[v] /\ choice' = choice /\ warmAtCall' = warmAtCall
      /\ scan' = scan
      /\ steady[v]' \subseteq steady[v]
      /\ pc[v] # "schedule" => steady[v]' = steady[v]
      /\ pc[v] = "schedule" => steady[v]' \subseteq Room(v)'
      /\ \A g \in GPU : loadedModels[g] \subseteq loadedModels[g]'
  BY DEF Allocated, Released, Goto, Witness, AllocateSucceeds, Release, ClientInv,
         TypeOK, SchedulerTypeOK
<1>2. CallInv(v) /\ warmAtCall[v] \subseteq GPU
  BY DEF ClientInv, TypeOK
<1>3. CallInv(v)'
  BY <1>1, <1>2 DEF CallInv
<1>4. pc[v]' = "exhausted" => steady[v]' = {}
  BY <1>1 DEF ClientInv, NilOverlooksNothing
<1>5. pc[v]' = "allocate" /\ steady[v]' \intersect warmAtCall[v]' # {}
        => ModelOf[v] \in loadedModels[choice[v]]'
  BY <1>1, <1>2 DEF ClientInv, WarmPreferred, CallInv
<1> QED
  BY <1>3, <1>4, <1>5

\* Every step preserves ClientInv.
LEMMA ClientsNext == ClientInv /\ [Next]_vars => ClientInv'
<1> SUFFICES ASSUME ClientInv, [Next]_vars PROVE ClientInv'
  OBVIOUS
<1> USE DEF ClientInv, Goto
<1>1. ASSUME NEW w \in Worker, CallSchedule(w) PROVE ClientInv'
  <2>1. TypeOK'
    BY <1>1 DEF CallSchedule, TypeOK, SchedulerTypeOK, schedulerVars, PC, Room
  <2>2. ASSUME NEW v \in Worker PROVE CallInv(v)'
    <3>1. Room(v)' = Room(v) /\ UNCHANGED <<scan, loadedModels>>
      BY <1>1 DEF CallSchedule, schedulerVars, Room, Fits, Available
    <3>2. CASE v = w
      <4>1. /\ scan[w].todo = GPU /\ scan[w].warm = {}
            /\ scan[w].cold \subseteq GPU
        BY <1>1 DEF CallSchedule, CallInv, TypeOK, SchedulerTypeOK
      <4>2. /\ pc[w]' = "schedule" /\ steady[w]' = Room(w) /\ Room(w) \subseteq GPU
            /\ warmAtCall[w]' = {g \in GPU : ModelOf[w] \in loadedModels[g]}
        BY <1>1 DEF CallSchedule, TypeOK, Room
      <4> QED
        BY <3>1, <3>2, <4>1, <4>2 DEF CallInv
    <3>3. CASE v # w
      <4>1. /\ pc[v]' = pc[v] /\ steady[v]' = steady[v]
            /\ warmAtCall[v]' = warmAtCall[v] /\ choice[v]' = choice[v]
        BY <1>1, <3>3 DEF CallSchedule, TypeOK
      <4> QED
        BY <3>1, <4>1 DEF CallInv
    <3> QED
      BY <3>2, <3>3
  <2>3. NilOverlooksNothing' /\ WarmPreferred'
    BY <1>1 DEF CallSchedule, TypeOK, schedulerVars, NilOverlooksNothing, WarmPreferred
  <2> QED
    BY <2>1, <2>2, <2>3
<1>2. ASSUME NEW w \in Worker, NEW g \in GPU, Look(w, g) PROVE ClientInv'
  <2>1. TypeOK'
    BY <1>2, ScanTypeOK DEF Look, TypeOK, historyVars
  <2>2. ASSUME NEW v \in Worker PROVE CallInv(v)'
    <3>1. Room(v)' = Room(v) /\ UNCHANGED <<pc, choice, steady, warmAtCall, loadedModels>>
      BY <1>2, ScanTypeOK DEF Look, TypeOK, historyVars, ledgerVars, Room, Fits, Available
    <3>2. CASE v # w
      <4>1. scan[v]' = scan[v]
        BY <1>2, <3>2 DEF Look, ScanGPU, CompareGPU, TypeOK, SchedulerTypeOK
      <4> QED
        BY <3>1, <4>1 DEF CallInv
    <3>3. CASE v = w /\ ScanGPU(w, g)
      <4>1. g \in steady[w] => Fits(g, w)
        BY <1>2 DEF Look, CallInv, Room
      <4>2. pc[w] = "schedule"
        BY <1>2 DEF Look
      <4>3. /\ scan[w]'.todo = scan[w].todo \ {g}
            /\ scan[w]'.warm = IF Fits(g, w) /\ ModelOf[w] \in loadedModels[g]
                                 THEN scan[w].warm \union {g} ELSE scan[w].warm
            /\ scan[w]'.cold = IF Fits(g, w) /\ ModelOf[w] \notin loadedModels[g]
                                 THEN scan[w].cold \union {g} ELSE scan[w].cold
        BY <3>3 DEF ScanGPU, TypeOK, SchedulerTypeOK
      <4>4. CallInv(w)
        OBVIOUS
      <4> QED
        BY <3>1, <3>3, <4>1, <4>2, <4>3, <4>4 DEF CallInv
    <3>4. CASE v = w /\ CompareGPU(w, g)
      <4>1. /\ pc[w] = "schedule"
            /\ scan[w]'.todo = scan[w].todo
            /\ scan[w]'.warm = scan[w].warm
            /\ scan[w]'.cold = scan[w].cold
        BY <1>2, <3>4 DEF Look, CompareGPU, TypeOK, SchedulerTypeOK
      <4> QED
        BY <3>1, <3>4, <4>1 DEF CallInv
    <3> QED
      BY <1>2, <3>2, <3>3, <3>4 DEF Look
  <2>3. NilOverlooksNothing' /\ WarmPreferred'
    BY <1>2, ScanTypeOK DEF Look, TypeOK, historyVars, ledgerVars,
                            NilOverlooksNothing, WarmPreferred
  <2> QED
    BY <2>1, <2>2, <2>3
<1>3. ASSUME NEW w \in Worker, NEW g \in GPU, Found(w, g) PROVE ClientInv'
  <2>1. TypeOK'
    BY <1>3, ScanTypeOK DEF Found, TypeOK, PC
  <2>2. \A v \in Worker \ {w} :
          pc[v]' = pc[v] /\ choice[v]' = choice[v] /\ scan[v]' = scan[v]
    BY <1>3 DEF Found, ScheduleReturns, EndSchedule, TypeOK, SchedulerTypeOK
  <2>3. UNCHANGED <<ledgerVars, steady, warmAtCall, sawFull>>
    BY <1>3 DEF Found, ScheduleReturns, EndSchedule
  <2>4. pc[w]' = "allocate" /\ choice[w]' = g
    BY <1>3 DEF Found, TypeOK
  <2>5. \A v \in Worker : Room(v)' = Room(v)
    BY <2>3 DEF ledgerVars, Room, Fits, Available
  <2>6. \A v \in Worker : CallInv(v)'
    BY <2>2, <2>3, <2>4, <2>5 DEF CallInv, ledgerVars
  <2>7. NilOverlooksNothing'
    BY <2>2, <2>3, <2>4 DEF NilOverlooksNothing
  <2>8. steady[w] \intersect warmAtCall[w] # {} => ModelOf[w] \in loadedModels[g]
    <3>1. scan[w].todo = {} /\ Contenders(w) = {g} /\ pc[w] = "schedule"
      BY <1>3 DEF Found, ScheduleReturns
    <3>2. CallInv(w)
      OBVIOUS
    <3> QED
      BY <3>1, <3>2 DEF CallInv, Contenders, Candidates
  <2>9. WarmPreferred'
    BY <2>2, <2>3, <2>4, <2>8 DEF WarmPreferred, ledgerVars
  <2> QED
    BY <2>1, <2>6, <2>7, <2>9
<1>4. ASSUME NEW w \in Worker, Exhausted(w) PROVE ClientInv'
  <2>1. /\ \A v \in Worker \ {w} : pc[v]' = pc[v] /\ scan[v]' = scan[v]
        /\ pc[w]' = "exhausted"
        /\ UNCHANGED <<ledgerVars, steady, warmAtCall, sawFull, choice>>
    BY <1>4 DEF Exhausted, ScheduleReturnsNil, EndSchedule, TypeOK, SchedulerTypeOK
  <2>2. TypeOK'
    BY <1>4, ScanTypeOK DEF Exhausted, ScheduleReturnsNil, EndSchedule, TypeOK,
       SchedulerTypeOK, Unsorted, ledgerVars, PC
  <2>3. \A v \in Worker : Room(v)' = Room(v)
    BY <2>1 DEF ledgerVars, Room, Fits, Available
  <2>4. \A v \in Worker : CallInv(v)'
    BY <2>1, <2>3 DEF CallInv, ledgerVars
  <2>5. steady[w] = {}
    <3>1. scan[w].todo = {} /\ Candidates(w) = {} /\ pc[w] = "schedule"
      BY <1>4 DEF Exhausted, ScheduleReturnsNil
    <3>2. CallInv(w)
      OBVIOUS
    <3> QED
      BY <3>1, <3>2 DEF CallInv, Candidates
  <2>6. NilOverlooksNothing' /\ WarmPreferred'
    BY <2>1, <2>5 DEF NilOverlooksNothing, WarmPreferred, ledgerVars
  <2> QED
    BY <2>2, <2>4, <2>6
<1>5. ASSUME NEW w \in Worker, Allocated(w) \/ Released(w) PROVE ClientInv'
  <2>1. choice[w] \in GPU
    BY <1>5 DEF CallInv, Allocated, Released
  <2>2. TypeOK'
    <3>1. SchedulerTypeOK'
      BY <1>5, <2>1, LedgerTypeOK DEF Allocated, Released, TypeOK
    <3> QED
      BY <1>5, <2>1, <3>1 DEF Allocated, Released, Witness, TypeOK, PC
  <2>3. pc[w]' \in {"held", "released"} /\ choice[w]' = choice[w]
    BY <1>5 DEF Allocated, Released, TypeOK
  <2>4. CallInv(w)'
    BY <2>1, <2>3 DEF CallInv
  <2>5. \A v \in Worker : CallInv(v)'
    BY <1>5, <2>4, WitnessPreserves
  <2>6. NilOverlooksNothing' /\ WarmPreferred'
    BY <1>5, <2>3, WitnessPreserves DEF NilOverlooksNothing, WarmPreferred
  <2> QED
    BY <2>2, <2>5, <2>6
<1>6. ASSUME NEW w \in Worker, Refused(w) PROVE ClientInv'
  <2>1. /\ \A v \in Worker \ {w} : pc[v]' = pc[v]
        /\ pc[w]' = "refused"
        /\ UNCHANGED <<schedulerVars, historyVars, choice>>
    BY <1>6 DEF Refused, AllocateFails, TypeOK
  <2>2. TypeOK'
    BY <1>6, <2>1 DEF Refused, TypeOK, SchedulerTypeOK, schedulerVars, historyVars, PC
  <2>3. \A v \in Worker : Room(v)' = Room(v)
    BY <2>1 DEF schedulerVars, Room, Fits, Available
  <2>4. \A v \in Worker : CallInv(v)'
    BY <2>1, <2>3 DEF CallInv, schedulerVars, historyVars
  <2>5. NilOverlooksNothing' /\ WarmPreferred'
    BY <2>1 DEF NilOverlooksNothing, WarmPreferred, schedulerVars, historyVars
  <2> QED
    BY <2>2, <2>4, <2>5
<1>7. CASE UNCHANGED vars
  BY <1>7 DEF vars, schedulerVars, historyVars, TypeOK, SchedulerTypeOK, CallInv,
              Room, Fits, Available, NilOverlooksNothing, WarmPreferred
<1> QED
  BY <1>1, <1>2, <1>3, <1>4, <1>5, <1>6, <1>7 DEF Next

\* The inductive invariant of the concurrent callers of the scheduler.
THEOREM ClientsInvariant == Spec => []ClientInv
BY ClientsInit, ClientsNext, PTL DEF Spec

\* The ledger, the scans and the callers keep their types, for any number of
\* GPUs and callers.
THEOREM ClientsTypeCorrect == Spec => []TypeOK
<1>1. ClientInv => TypeOK
  BY DEF ClientInv
<1> QED
  BY <1>1, ClientsInvariant, PTL

\* Schedule never reports that no GPU is available when one had room during
\* the whole call, for any number of GPUs and of concurrent callers.
THEOREM NilOverlooksNothingTheorem == Spec => []NilOverlooksNothing
<1>1. ClientInv => NilOverlooksNothing
  BY DEF ClientInv
<1> QED
  BY <1>1, ClientsInvariant, PTL

\* Schedule never returns a cold GPU when a warm one had room during the
\* whole call.
THEOREM WarmPreferredTheorem == Spec => []WarmPreferred
<1>1. ClientInv => WarmPreferred
  BY DEF ClientInv
<1> QED
  BY <1>1, ClientsInvariant, PTL

-----------------------------------------------------------------------------
SortsInv == \A w \in Worker : SortInv(w)

\* Availabilities can be compared.
LEMMA AvailableInt ==
  ASSUME TypeOK, NEW g \in GPU PROVE Available(g) \in Int
BY SchedulerAssumption DEF TypeOK, SchedulerTypeOK, Available

\* A call that a step does not concern has sorted what it had sorted.
LEMMA SortFrame ==
  ASSUME NEW w \in Worker, SortInv(w), pc[w]' = pc[w], scan[w]' = scan[w],
         touched[w]' = touched[w], UNCHANGED <<allocatedVRAM, loadedModels>>
  PROVE  SortInv(w)'
BY DEF SortInv, Candidates, Contenders, Fits, Available

\* A GPU that is looked at goes on the list where it belongs, and stands behind
\* nobody.
LEMMA ScanSorts ==
  ASSUME ClientInv, NEW w \in Worker, NEW g \in GPU, SortInv(w), pc[w] = "schedule",
         pc' = pc, touched' = touched, ScanGPU(w, g)
  PROVE  SortInv(w)'
<1>1. /\ TypeOK /\ scan[w].head = Unsorted /\ g \notin scan[w].warm \union scan[w].cold
      /\ scan[w].warm \subseteq GPU /\ scan[w].cold \subseteq GPU
  BY DEF ClientInv, TypeOK, SchedulerTypeOK, SortInv, ScanGPU
<1>2. /\ scan[w]'.todo = scan[w].todo \ {g} /\ scan[w]'.head = Unsorted
      /\ scan[w]'.warm = IF Fits(g, w) /\ ModelOf[w] \in loadedModels[g]
                           THEN scan[w].warm \union {g} ELSE scan[w].warm
      /\ scan[w]'.cold = IF Fits(g, w) /\ ModelOf[w] \notin loadedModels[g]
                           THEN scan[w].cold \union {g} ELSE scan[w].cold
      /\ UNCHANGED <<allocatedVRAM, loadedModels>>
  BY <1>1 DEF TypeOK, SchedulerTypeOK, ScanGPU, ledgerVars
<1>3. ASSUME NEW x \in GPU
      PROVE  Available(x)' = Available(x) /\ (Fits(x, w)' <=> Fits(x, w))
  BY <1>2 DEF Fits, Available
<1>4. ASSUME NEW x \in GPU \ (scan[w]'.todo \union touched[w])
      PROVE  /\ x \in scan[w]'.warm <=> Fits(x, w) /\ ModelOf[w] \in loadedModels[x]
             /\ x \in scan[w]'.cold <=> Fits(x, w) /\ ModelOf[w] \notin loadedModels[x]
  BY <1>1, <1>2 DEF SortInv
<1>5. (scan[w]'.warm \union scan[w]'.cold) \intersect scan[w]'.todo = {}
  BY <1>2 DEF SortInv
<1>6. ASSUME NEW x \in Candidates(w)' PROVE x \in GPU /\ scan[w]'.head[x] = x
  BY <1>1, <1>2 DEF Candidates, Unsorted
<1>7. \A x \in Candidates(w)' : scan[w]'.head[x] \in Contenders(w)'
  BY <1>6 DEF Contenders
<1>8. \A x \in Candidates(w)' : Available(x)' <= Available(scan[w].head[x])'
  BY <1>1, <1>3, <1>6, AvailableInt
<1> QED
  BY <1>2, <1>3, <1>4, <1>5, <1>7, <1>8 DEF SortInv

\* The loser of a comparison, and who stands behind it, come to stand behind a
\* contender that is at least as free, unless somebody has touched a candidate.
LEMMA CompareSorts ==
  ASSUME ClientInv, NEW w \in Worker, NEW g \in GPU, SortInv(w), pc[w] = "schedule",
         pc' = pc, touched' = touched, CompareGPU(w, g)
  PROVE  SortInv(w)'
<1>0. TypeOK /\ Candidates(w) \subseteq GPU
  BY DEF ClientInv, TypeOK, SchedulerTypeOK, Candidates
<1>1. PICK h \in Candidates(w) :
        /\ scan[w].head[h] # g /\ Available(g) <= Available(h)
        /\ scan' = [scan EXCEPT ![w].head =
                      [x \in GPU |-> IF @[x] = g THEN @[h] ELSE @[x]]]
  BY DEF CompareGPU
<1> DEFINE top == scan[w].head
           H   == [x \in GPU |-> IF top[x] = g THEN top[h] ELSE top[x]]
<1>2. /\ scan[w]'.todo = {} /\ scan[w].todo = {}
      /\ scan[w]'.warm = scan[w].warm /\ scan[w]'.cold = scan[w].cold
      /\ scan[w]'.head = H
      /\ UNCHANGED <<allocatedVRAM, loadedModels>>
  BY <1>0, <1>1 DEF CompareGPU, ledgerVars, TypeOK, SchedulerTypeOK
<1>3. /\ g \in Candidates(w) /\ top[g] = g
      /\ \A x \in Candidates(w) : top[x] \in Candidates(w) /\ top[top[x]] = top[x]
  BY DEF CompareGPU, SortInv, Contenders
<1>4. \A x \in Candidates(w) : H[x] = IF top[x] = g THEN top[h] ELSE top[x]
  BY <1>0
<1> HIDE DEF H, top
<1>5. Candidates(w)' = Candidates(w)
  BY <1>2 DEF Candidates
<1>6. ASSUME NEW x \in GPU
      PROVE  Available(x)' = Available(x) /\ (Fits(x, w)' <=> Fits(x, w))
  BY <1>2 DEF Fits, Available
<1>7. ASSUME NEW x \in Candidates(w) PROVE H[x] \in Candidates(w) /\ H[H[x]] = H[x]
  BY <1>1, <1>3, <1>4 DEF top
<1>8. \A x \in Candidates(w)' : scan[w]'.head[x] \in Contenders(w)'
  BY <1>2, <1>5, <1>7 DEF Contenders
<1>9. ASSUME Candidates(w) \intersect touched[w] = {}, NEW x \in Candidates(w)
      PROVE  Available(x) <= Available(H[x])
  <2>1. /\ Available(x) <= Available(top[x]) /\ Available(h) <= Available(top[h])
        /\ Available(g) <= Available(h)
    BY <1>1, <1>9 DEF SortInv, top
  <2>2. /\ Available(x) \in Int /\ Available(g) \in Int /\ Available(h) \in Int
        /\ Available(top[h]) \in Int
    BY <1>0, <1>3, AvailableInt
  <2>3. CASE top[x] = g
    BY <1>4, <2>1, <2>2, <2>3
  <2>4. CASE top[x] # g
    BY <1>4, <2>1, <2>4
  <2> QED
    BY <2>3, <2>4
<1>10. Candidates(w)' \intersect touched'[w] = {} =>
         \A x \in Candidates(w)' : Available(x)' <= Available(scan[w].head[x])'
  BY <1>0, <1>2, <1>5, <1>6, <1>7, <1>9
<1> QED
  BY <1>2, <1>6, <1>8, <1>10 DEF SortInv

\* A call of another worker's Allocate or Release leaves the GPUs that it does
\* not touch as they are.
LEMMA TouchSorts ==
  ASSUME ClientInv, NEW w \in Worker, NEW v \in Worker, v # w, SortInv(v),
         Allocated(w) \/ Released(w)
  PROVE  SortInv(v)'
<1> DEFINE c == choice[w]
<1>1. /\ TypeOK /\ c \in GPU /\ pc[v]' = pc[v] /\ scan' = scan
      /\ touched'[v] = IF pc[v] = "schedule" THEN touched[v] \union {c} ELSE touched[v]
      /\ \A g \in GPU : g # c => /\ allocatedVRAM'[g] = allocatedVRAM[g]
                                /\ loadedModels'[g] = loadedModels[g]
  <2>1. TypeOK /\ (pc[w] = "allocate" \/ pc[w] = "held") /\ c \in GPU
    BY DEF ClientInv, CallInv, Allocated, Released, Goto
  <2>2. pc'[v] = pc[v] /\ touched'[v] = IF pc[v] = "schedule" THEN touched[v] \union {c}
                                                            ELSE touched[v]
    BY DEF ClientInv, TypeOK, Allocated, Released, Goto, Witness
  <2>3. scan' = scan /\ \A g \in GPU : g # c => /\ allocatedVRAM'[g] = allocatedVRAM[g]
                                               /\ loadedModels'[g] = loadedModels[g]
    <3>1. CASE Allocated(w)
      BY <2>1, <3>1 DEF TypeOK, SchedulerTypeOK, Allocated, AllocateSucceeds
    <3>2. CASE Released(w)
      BY <2>1, <3>2 DEF TypeOK, SchedulerTypeOK, Released, Release
    <3> QED
      BY <3>1, <3>2
  <2> QED
    BY <2>1, <2>2, <2>3
<1> HIDE DEF c
<1>2. ASSUME NEW g \in GPU, g # c
      PROVE  Available(g)' = Available(g) /\ (Fits(g, v)' <=> Fits(g, v))
  BY <1>1, <1>2 DEF Fits, Available
<1>3. CASE pc[v] = "schedule"
  <2>1. touched'[v] = touched[v] \union {c}
    BY <1>1, <1>3
  <2>2. Candidates(v)' = Candidates(v) /\ Contenders(v)' = Contenders(v)
    BY <1>1 DEF Candidates, Contenders
  <2>3. ASSUME NEW g \in GPU \ (scan[v].todo \union touched'[v])
        PROVE  /\ g \in scan[v].warm <=> Fits(g, v)' /\ ModelOf[v] \in loadedModels'[g]
               /\ g \in scan[v].cold <=> Fits(g, v)' /\ ModelOf[v] \notin loadedModels'[g]
    BY <1>1, <1>2, <1>3, <2>1 DEF SortInv
  <2>4. ASSUME Candidates(v) \intersect touched'[v] = {}, NEW g \in Candidates(v)
        PROVE  Available(g)' <= Available(scan[v].head[g])'
    <3>1. /\ g # c /\ scan[v].head[g] \in Candidates(v) /\ scan[v].head[g] # c
          /\ g \in GPU /\ scan[v].head[g] \in GPU
          /\ Available(g) <= Available(scan[v].head[g])
      BY <1>1, <1>3, <2>1, <2>4 DEF SortInv, Contenders, Candidates, TypeOK, SchedulerTypeOK
    <3>2. scan[v].head[g]' = scan[v].head[g]
      BY <1>1
    <3> QED
      BY <1>2, <3>1, <3>2
  <2> QED
    BY <1>1, <1>3, <2>2, <2>3, <2>4 DEF SortInv
<1>4. CASE pc[v] # "schedule"
  BY <1>1, <1>4 DEF SortInv
<1> QED
  BY <1>3, <1>4

\* Every step preserves the invariant of the sorts.
LEMMA SortsNext == ClientInv /\ SortsInv /\ [Next]_vars => SortsInv'
<1> SUFFICES ASSUME ClientInv, SortsInv, [Next]_vars, NEW v \in Worker PROVE SortInv(v)'
  BY DEF SortsInv
<1>0. TypeOK /\ CallInv(v) /\ SortInv(v)
  BY DEF ClientInv, SortsInv
<1>1. ASSUME NEW w \in Worker, CallSchedule(w) PROVE SortInv(v)'
  <2>1. CASE v # w
    BY <1>0, <1>1, <2>1, SortFrame DEF CallSchedule, Goto, schedulerVars, TypeOK
  <2>2. CASE v = w
    <3>1. /\ pc[v]' = "schedule" /\ touched'[v] = {} /\ scan'[v] = scan[v]
          /\ scan[v].todo = GPU /\ scan[v].warm = {} /\ scan[v].cold = {}
          /\ scan[v].head = Unsorted
      BY <1>0, <1>1, <2>2 DEF CallSchedule, Goto, schedulerVars, TypeOK, CallInv, SortInv
    <3> QED
      BY <3>1 DEF SortInv, Candidates, Contenders
  <2> QED
    BY <2>1, <2>2
<1>2. ASSUME NEW w \in Worker, NEW g \in GPU, Look(w, g) PROVE SortInv(v)'
  <2>1. pc[w] = "schedule" /\ UNCHANGED <<pc, touched, allocatedVRAM, loadedModels>>
    BY <1>2 DEF Look, historyVars, ScanGPU, CompareGPU, ledgerVars
  <2>2. CASE v # w
    <3>1. scan'[v] = scan[v]
      BY <1>0, <1>2, <2>2 DEF Look, ScanGPU, CompareGPU, TypeOK, SchedulerTypeOK
    <3> QED
      BY <1>0, <2>1, <3>1, SortFrame
  <2>3. CASE v = w
    BY <1>0, <1>2, <2>1, <2>3, ScanSorts, CompareSorts DEF Look
  <2> QED
    BY <2>2, <2>3
<1>3. ASSUME NEW w \in Worker, (\E g \in GPU : Found(w, g)) \/ Exhausted(w)
      PROVE  SortInv(v)'
  <2>1. /\ pc[w]' \in {"allocate", "exhausted"}
        /\ UNCHANGED <<allocatedVRAM, loadedModels>>
        /\ v # w => /\ pc[v]' = pc[v] /\ scan'[v] = scan[v]
                    /\ touched'[v] = touched[v]
    BY <1>0, <1>3 DEF Found, Exhausted, Goto, ScheduleReturns, ScheduleReturnsNil,
       EndSchedule, ledgerVars, TypeOK, SchedulerTypeOK
  <2>2. CASE v # w
    BY <1>0, <2>1, <2>2, SortFrame
  <2>3. CASE v = w
    BY <2>1, <2>3 DEF SortInv
  <2> QED
    BY <2>2, <2>3
<1>4. ASSUME NEW w \in Worker, Allocated(w) \/ Released(w) PROVE SortInv(v)'
  <2>1. CASE v # w
    BY <1>0, <1>4, <2>1, TouchSorts
  <2>2. CASE v = w
    BY <1>0, <1>4, <2>2 DEF Allocated, Released, Goto, TypeOK, SortInv
  <2> QED
    BY <2>1, <2>2
<1>5. ASSUME NEW w \in Worker, Refused(w) PROVE SortInv(v)'
  <2>1. CASE v # w
    BY <1>0, <1>5, <2>1, SortFrame DEF Refused, Goto, AllocateFails, schedulerVars,
       historyVars, TypeOK
  <2>2. CASE v = w
    BY <1>0, <1>5, <2>2 DEF Refused, Goto, TypeOK, SortInv
  <2> QED
    BY <2>1, <2>2
<1>6. CASE UNCHANGED vars
  BY <1>0, <1>6, SortFrame DEF vars, schedulerVars, historyVars
<1> QED
  BY <1>1, <1>2, <1>3, <1>4, <1>5, <1>6 DEF Next

\* If nobody has allocated or released on its candidates during the call, the
\* GPU that Schedule returns is the freest warm one with room, or the freest
\* with room if no warm one has any, in whatever order the map is ranged over
\* and the sort compares, and whatever happens on the other GPUs meanwhile.
THEOREM FreestIfUndisturbedTheorem == Spec => FreestIfUndisturbed
<1>1. Init => SortsInv
  BY DEF Init, SchedulerInit, SortsInv, SortInv
<1>2. ASSUME ClientInv, SortsInv, NEW w \in Worker, NEW g \in GPU, Found(w, g),
             Candidates(w) \intersect touched[w] = {}
      PROVE  Freest(g, IF WarmRoom(w) # {} THEN WarmRoom(w) ELSE UntouchedRoom(w))
  <2>1. /\ TypeOK /\ SortInv(w) /\ pc[w] = "schedule" /\ scan[w].todo = {}
        /\ Contenders(w) = {g} /\ Candidates(w) \subseteq GPU
    BY <1>2 DEF ClientInv, SortsInv, Found, Goto, ScheduleReturns, TypeOK,
       SchedulerTypeOK, Candidates
  <2>2. /\ g \in Candidates(w) /\ g \notin touched[w] /\ g \in GPU
        /\ \A h \in Candidates(w) : Available(h) <= Available(g)
    <3>1. \A h \in Candidates(w) : scan[w].head[h] = g
      BY <2>1 DEF SortInv
    <3> QED
      BY <1>2, <2>1, <3>1 DEF SortInv, Contenders
  <2>3. /\ UntouchedRoom(w) \subseteq scan[w].warm \union scan[w].cold
        /\ WarmRoom(w) \subseteq scan[w].warm
        /\ g \in scan[w].warm => g \in WarmRoom(w)
        /\ g \in scan[w].cold => g \in UntouchedRoom(w)
    BY <2>1, <2>2 DEF SortInv, UntouchedRoom, WarmRoom, Room
  <2>4. CASE WarmRoom(w) # {}
    BY <2>2, <2>3, <2>4 DEF Freest, Candidates
  <2>5. CASE WarmRoom(w) = {}
    <3>1. scan[w].warm = {}
      BY <2>2, <2>3, <2>5 DEF Candidates
    <3> QED
      BY <2>2, <2>3, <2>5, <3>1 DEF Freest, Candidates
  <2> QED
    BY <2>4, <2>5
<1>3. ClientInv /\ SortsInv =>
        \A w \in Worker, g \in GPU :
          Found(w, g) /\ Candidates(w) \intersect touched[w] = {} =>
            Freest(g, IF WarmRoom(w) # {} THEN WarmRoom(w) ELSE UntouchedRoom(w))
  BY <1>2
<1> QED
  BY <1>1, <1>3, SortsNext, ClientsInvariant, PTL DEF Spec, FreestIfUndisturbed

=============================================================================
