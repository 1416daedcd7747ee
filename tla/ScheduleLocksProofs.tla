------------------------- MODULE ScheduleLocksProofs -------------------------
(***************************************************************************)
(* Proofs that no path through Schedule leaves a lock behind, and that the *)
(* calls block one another only between the writers of two GPUs, for any   *)
(* GPUs and any calls of Schedule, Allocate and Release at once.           *)
(***************************************************************************)
EXTENDS ScheduleLocks, FiniteSetTheorems, TLAPS

LocksApart == \A g \in GPU : readers[g] \intersect waiting[g] = {}

MutexTypeOK == readers \in [GPU -> SUBSET Call] /\ waiting \in [GPU -> SUBSET Call]

WritersInv ==
  /\ \A g \in GPU : WriterInv(g)
  /\ \A c \in Writer :
       /\ pc[c] \in {"new", "lock", "done"}
       /\ pc[c] = "lock" => gpus[c].first \in GPU /\ writer[gpus[c].first] = c

\* What asking for a lock and giving locks back leave to be said of the mutexes.
AsksKept ==
  /\ MutexTypeOK' /\ LocksApart' /\ NoLockLeak'
  /\ \A d \in Reader, h \in GPU : Holds(d, h) => Holds(d, h)'

GivenBack(c) ==
  /\ MutexTypeOK' /\ LocksApart' /\ NoLockLeak'
  /\ \A d \in Reader, h \in GPU : d # c /\ Holds(d, h) => Holds(d, h)'

\* RLock gives or queues the lock that is asked for, and no other.
LEMMA RLockKeepsAsked ==
  ASSUME LockInv, NEW c \in Reader, NEW g \in GPU, g \notin Asked(c), RLock(c, g),
         Asked(c)' = Asked(c) \union {g},
         \A d \in Reader : d # c => Asked(d)' = Asked(d)
  PROVE  AsksKept
<1> USE DEF LockInv, LocksTypeOK, MutexTypeOK, Call
<1>1. c \notin readers[g] /\ c \notin waiting[g]
  BY DEF NoLockLeak, Holds
<1>2. CASE writer[g] = NoCall
  <2>1. readers' = [readers EXCEPT ![g] = @ \union {c}] /\ waiting' = waiting
    BY <1>2 DEF RLock
  <2> QED
    BY <1>1, <2>1 DEF AsksKept, LocksApart, NoLockLeak, Holds
<1>3. CASE writer[g] # NoCall
  <2>1. waiting' = [waiting EXCEPT ![g] = @ \union {c}] /\ readers' = readers
    BY <1>3 DEF RLock
  <2> QED
    BY <1>1, <2>1 DEF AsksKept, LocksApart, NoLockLeak, Holds
<1> QED
  BY <1>2, <1>3

\* A call that holds all it has asked for has nothing left when it gives it back.
LEMMA RUnlockKeepsAsked ==
  ASSUME LockInv, NEW c \in Reader, RUnlock(c, Asked(c)), UNCHANGED waiting,
         \A g \in Asked(c) : Holds(c, g), Asked(c)' = {},
         \A d \in Reader : d # c => Asked(d)' = Asked(d)
  PROVE  GivenBack(c)
<1>1. \A g \in GPU : readers'[g] = IF g \in Asked(c) THEN readers[g] \ {c} ELSE readers[g]
  BY DEF RUnlock
<1>2. MutexTypeOK' /\ LocksApart'
  <2>1. MutexTypeOK'
    BY <1>1 DEF RUnlock, LockInv, LocksTypeOK, MutexTypeOK
  <2>2. LocksApart'
    BY <1>1 DEF LockInv, LocksApart
  <2> QED
    BY <2>1, <2>2
<1>3. NoLockLeak'
  <2>1. ASSUME NEW g \in GPU PROVE c \notin readers'[g] /\ c \notin waiting'[g]
    <3>1. (c \in readers[g] \/ c \in waiting[g]) <=> g \in Asked(c)
      BY DEF LockInv, NoLockLeak, Holds
    <3>2. g \in Asked(c) => c \in readers[g]
      BY DEF Holds
    <3>3. readers[g] \intersect waiting[g] = {} /\ waiting'[g] = waiting[g]
      BY DEF LockInv
    <3> QED
      BY <1>1, <3>1, <3>2, <3>3
  <2>2. ASSUME NEW d \in Reader, d # c, NEW g \in GPU
        PROVE  (d \in readers'[g] <=> d \in readers[g]) /\ waiting'[g] = waiting[g]
    BY <1>1, <2>2
  <2> QED
    BY <2>1, <2>2 DEF LockInv, NoLockLeak, Holds
<1> QED
  BY <1>1, <1>2, <1>3 DEF GivenBack, Holds

\* A call of Schedule leaves the writers as they are, waits only for a writer
\* that is there, and stops waiting only by not waiting at all.
LEMMA WritersKept ==
  ASSUME LockInv, NEW c \in Reader, UNCHANGED writer,
         \A d \in Writer : pc'[d] = pc[d] /\ gpus'[d] = gpus[d],
         \/ \E g \in GPU : RLock(c, g)
         \/ UNCHANGED waiting /\ \E S \in SUBSET GPU : RUnlock(c, S)
         \/ UNCHANGED <<readers, waiting>>
  PROVE  WritersInv'
<1>1. ASSUME NEW g \in GPU
      PROVE  /\ readers'[g] \union waiting'[g] \subseteq Reader
             /\ waiting'[g] # {} => writer[g] # NoCall
  <2>0. /\ readers[g] \union waiting[g] \subseteq Reader
        /\ waiting[g] # {} => writer[g] # NoCall
        /\ readers \in [GPU -> SUBSET Call] /\ waiting \in [GPU -> SUBSET Call]
    BY DEF LockInv, LocksTypeOK, WriterInv
  <2>1. ASSUME NEW h \in GPU, RLock(c, h)
        PROVE  /\ readers'[g] \union waiting'[g] \subseteq Reader
               /\ waiting'[g] # {} => writer[g] # NoCall
    BY <2>0, <2>1 DEF RLock
  <2>2. CASE UNCHANGED waiting /\ \E S \in SUBSET GPU : RUnlock(c, S)
    BY <2>0, <2>2 DEF RUnlock
  <2> QED
    BY <2>0, <2>1, <2>2
<1>2. ASSUME NEW g \in GPU PROVE WriterInv(g)'
  BY <1>1 DEF LockInv, WriterInv
<1> QED
  BY <1>2 DEF LockInv, WritersInv

\* A call of Schedule.
LEMMA ScheduleKeepsInv ==
  ASSUME LockInv, NEW c \in Reader, ScheduleStep(c) PROVE LockInv'
<1> USE LocksAssumption
    DEF LockInv, LocksTypeOK, MutexTypeOK, LocksApart, ReaderInv, Asked, Goto, ReaderPC,
        Call, listVars, lockVars
<1>1. ASSUME NEW g \in GPU, ScanLock(c, g) PROVE LockInv'
  <2>1. /\ g \in GPU /\ g \notin Asked(c) /\ RLock(c, g)
        /\ Asked(c)' = Asked(c) \union {g}
        /\ \A d \in Reader : d # c => Asked(d)' = Asked(d)
    BY <1>1 DEF ScanLock
  <2>2. AsksKept
    BY <2>1, RLockKeepsAsked
  <2>3. LocksTypeOK' /\ (\A d \in Reader : ReaderInv(d))'
    <3>1. LocksTypeOK'
      <4>1. gpus[c] \in [first: GPU \union {NoGPU}, second: GPU \union {NoGPU}]
        OBVIOUS
      <4>2. [gpus[c] EXCEPT !.first = g]
              \in [first: GPU \union {NoGPU}, second: GPU \union {NoGPU}]
        BY <4>1
      <4>3. gpus' = [gpus EXCEPT ![c] = [gpus[c] EXCEPT !.first = g]]
        BY <1>1 DEF ScanLock
      <4>4. gpus' \in [Call -> [first: GPU \union {NoGPU}, second: GPU \union {NoGPU}]]
        BY <4>2, <4>3
      <4> QED
        BY <1>1, <2>2, <4>4 DEF ScanLock, AsksKept
    <3>2. ReaderInv(c)'
      BY <1>1, <2>2 DEF ScanLock, AsksKept
    <3>3. ASSUME NEW d \in Reader, d # c PROVE ReaderInv(d)'
      BY <1>1, <2>1, <2>2, <3>3 DEF ScanLock, AsksKept
    <3> QED
      BY <3>1, <3>2, <3>3
  <2>4. WritersInv'
    BY <1>1, WritersKept DEF ScanLock
  <2> QED
    BY <2>2, <2>3, <2>4 DEF AsksKept, WritersInv
<1>2. ASSUME NEW g \in GPU, ReturnLock(c, g) PROVE LockInv'
  <2>1. /\ g \in GPU /\ g \notin Asked(c) /\ RLock(c, g)
        /\ Asked(c)' = Asked(c) \union {g}
        /\ \A d \in Reader : d # c => Asked(d)' = Asked(d)
    BY <1>2 DEF ReturnLock
  <2>2. AsksKept
    BY <2>1, RLockKeepsAsked
  <2>3. LocksTypeOK' /\ (\A d \in Reader : ReaderInv(d))'
    <3>1. LocksTypeOK'
      <4>1. gpus[c] \in [first: GPU \union {NoGPU}, second: GPU \union {NoGPU}]
        OBVIOUS
      <4>2. [gpus[c] EXCEPT !.first = g]
              \in [first: GPU \union {NoGPU}, second: GPU \union {NoGPU}]
        BY <4>1
      <4>3. gpus' = [gpus EXCEPT ![c] = [gpus[c] EXCEPT !.first = g]]
        BY <1>2 DEF ReturnLock
      <4>4. gpus' \in [Call -> [first: GPU \union {NoGPU}, second: GPU \union {NoGPU}]]
        BY <4>2, <4>3
      <4> QED
        BY <1>2, <2>2, <4>4 DEF ReturnLock, AsksKept
    <3>2. ReaderInv(c)'
      BY <1>2, <2>2 DEF ReturnLock, AsksKept
    <3>3. ASSUME NEW d \in Reader, d # c PROVE ReaderInv(d)'
      BY <1>2, <2>1, <2>2, <3>3 DEF ReturnLock, AsksKept
    <3> QED
      BY <3>1, <3>2, <3>3
  <2>4. WritersInv'
    BY <1>2, WritersKept DEF ReturnLock
  <2> QED
    BY <2>2, <2>3, <2>4 DEF AsksKept, WritersInv
<1>3. ASSUME NEW g \in GPU, NEW h \in GPU, CompareFirst(c, g, h) PROVE LockInv'
  <2>1. /\ g \in GPU /\ g \notin Asked(c) /\ RLock(c, g)
        /\ Asked(c)' = Asked(c) \union {g}
        /\ \A d \in Reader : d # c => Asked(d)' = Asked(d)
    BY <1>3 DEF CompareFirst
  <2>2. AsksKept
    BY <2>1, RLockKeepsAsked
  <2>3. LocksTypeOK' /\ (\A d \in Reader : ReaderInv(d))'
    <3>1. LocksTypeOK'
      BY <1>3, <2>2 DEF CompareFirst, AsksKept
    <3>2. ReaderInv(c)'
      BY <1>3, <2>2 DEF CompareFirst, AsksKept
    <3>3. ASSUME NEW d \in Reader, d # c PROVE ReaderInv(d)'
      BY <1>3, <2>1, <2>2, <3>3 DEF CompareFirst, AsksKept
    <3> QED
      BY <3>1, <3>2, <3>3
  <2>4. WritersInv'
    BY <1>3, WritersKept DEF CompareFirst
  <2> QED
    BY <2>2, <2>3, <2>4 DEF AsksKept, WritersInv
<1>4. CASE ScanUnlock(c)
  <2>1. /\ RUnlock(c, Asked(c)) /\ Asked(c)' = {} /\ UNCHANGED waiting
        /\ \A g \in Asked(c) : Holds(c, g)
        /\ \A d \in Reader : d # c => Asked(d)' = Asked(d)
    BY <1>4 DEF ScanUnlock, NoGPUs
  <2>2. GivenBack(c)
    BY <2>1, RUnlockKeepsAsked
  <2>3. LocksTypeOK' /\ (\A d \in Reader : ReaderInv(d))'
    <3>1. /\ pc' = [pc EXCEPT ![c] = IF todo[c] = {gpus[c].first} THEN "sort" ELSE "new"]
          /\ gpus' = [gpus EXCEPT ![c] = NoGPUs]
          /\ todo' = [todo EXCEPT ![c] = @ \ {gpus[c].first}]
          /\ \/ candidates' = [candidates EXCEPT ![c] = @ \union {gpus[c].first}]
             \/ UNCHANGED candidates
      BY <1>4 DEF ScanUnlock
    <3>2. LocksTypeOK'
      <4>1. MutexTypeOK' /\ UNCHANGED writer
        BY <1>4, <2>2 DEF ScanUnlock, GivenBack
      <4>2. pc' \in [Call -> ReaderPC \union {"lock"}]
        BY <3>1
      <4>3. gpus' \in [Call -> [first: GPU \union {NoGPU}, second: GPU \union {NoGPU}]]
        BY <3>1 DEF NoGPUs
      <4>4. todo' \in [Reader -> SUBSET GPU] /\ candidates' \in [Reader -> SUBSET GPU]
        <5>1. gpus[c].first \in GPU
          BY <1>4 DEF ScanUnlock
        <5>2. todo[c] \ {gpus[c].first} \in SUBSET GPU
          OBVIOUS
        <5>3. candidates[c] \union {gpus[c].first} \in SUBSET GPU
          BY <5>1
        <5>4. todo' \in [Reader -> SUBSET GPU]
          BY <3>1, <5>2
        <5>5. candidates' \in [Reader -> SUBSET GPU]
          BY <3>1, <5>3
        <5> QED
          BY <5>4, <5>5
      <4> QED
        BY <4>1, <4>2, <4>3, <4>4
    <3>3. pc'[c] = "new" => todo'[c] # {}
      BY <1>4, <3>1 DEF ScanUnlock
    <3>4. ReaderInv(c)'
      BY <2>1, <3>1, <3>3
    <3>5. ASSUME NEW d \in Reader, d # c PROVE ReaderInv(d)'
      BY <2>2, <3>1, <3>5 DEF GivenBack
    <3> QED
      BY <3>2, <3>4, <3>5
  <2>4. WritersInv'
    BY <1>4, WritersKept DEF ScanUnlock, NoGPUs
  <2> QED
    BY <2>2, <2>3, <2>4 DEF GivenBack, WritersInv
<1>5. ASSUME CompareSecond(c) PROVE LockInv'
  <2>1. /\ gpus[c].second \in GPU /\ gpus[c].second \notin Asked(c) /\ RLock(c, gpus[c].second)
        /\ Asked(c)' = Asked(c) \union {gpus[c].second}
        /\ \A d \in Reader : d # c => Asked(d)' = Asked(d)
    BY <1>5 DEF CompareSecond
  <2>2. AsksKept
    BY <2>1, RLockKeepsAsked
  <2>3. LocksTypeOK' /\ (\A d \in Reader : ReaderInv(d))'
    <3>1. LocksTypeOK'
      BY <1>5, <2>2 DEF CompareSecond, AsksKept
    <3>2. ReaderInv(c)'
      BY <1>5, <2>2 DEF CompareSecond, AsksKept
    <3>3. ASSUME NEW d \in Reader, d # c PROVE ReaderInv(d)'
      BY <1>5, <2>1, <2>2, <3>3 DEF CompareSecond, AsksKept
    <3> QED
      BY <3>1, <3>2, <3>3
  <2>4. WritersInv'
    BY <1>5, WritersKept DEF CompareSecond
  <2> QED
    BY <2>2, <2>3, <2>4 DEF AsksKept, WritersInv
<1>6. CASE CompareDone(c)
  <2>1. /\ RUnlock(c, Asked(c)) /\ Asked(c)' = {} /\ UNCHANGED waiting
        /\ \A g \in Asked(c) : Holds(c, g)
        /\ \A d \in Reader : d # c => Asked(d)' = Asked(d)
    BY <1>6 DEF CompareDone, NoGPUs
  <2>2. GivenBack(c)
    BY <2>1, RUnlockKeepsAsked
  <2>3. LocksTypeOK' /\ (\A d \in Reader : ReaderInv(d))'
    BY <1>6, <2>2 DEF CompareDone, NoGPUs, GivenBack
  <2>4. WritersInv'
    BY <1>6, WritersKept DEF CompareDone, NoGPUs
  <2> QED
    BY <2>2, <2>3, <2>4 DEF GivenBack, WritersInv
<1>7. CASE ReturnNil(c)
  <2>1. WritersInv'
    BY <1>7, WritersKept DEF ReturnNil
  <2> QED
    BY <1>7, <2>1 DEF ReturnNil, NoLockLeak, Holds, WritersInv
<1>8. CASE Return(c)
  <2>1. /\ RUnlock(c, Asked(c)) /\ Asked(c)' = {} /\ UNCHANGED waiting
        /\ \A g \in Asked(c) : Holds(c, g)
        /\ \A d \in Reader : d # c => Asked(d)' = Asked(d)
    BY <1>8 DEF Return, NoGPUs
  <2>2. GivenBack(c)
    BY <2>1, RUnlockKeepsAsked
  <2>3. LocksTypeOK' /\ (\A d \in Reader : ReaderInv(d))'
    BY <1>8, <2>2 DEF Return, NoGPUs, GivenBack
  <2>4. WritersInv'
    BY <1>8, WritersKept DEF Return, NoGPUs
  <2> QED
    BY <2>2, <2>3, <2>4 DEF GivenBack, WritersInv
<1> QED
  BY <1>1, <1>2, <1>3, <1>4, <1>5, <1>6, <1>7, <1>8 DEF ScheduleStep

\* A call of Allocate or Release hands its lock to the readers that wait.
LEMMA WriteKeepsInv ==
  ASSUME LockInv, NEW c \in Writer, WriteStep(c) PROVE LockInv'
<1> USE LocksAssumption
    DEF LockInv, LocksTypeOK, ReaderInv, WriterInv, NoLockLeak, Asked, Holds, Goto,
        ReaderPC, Call, listVars, lockVars
<1>1. ASSUME NEW g \in GPU, Lock(c, g) PROVE LockInv'
  <2>1. /\ pc[c] = "new" /\ pc' = [pc EXCEPT ![c] = "lock"]
        /\ gpus' = [gpus EXCEPT ![c].first = g]
        /\ writer[g] = NoCall /\ writer' = [writer EXCEPT ![g] = c]
        /\ UNCHANGED <<readers, waiting, todo, candidates, compared>>
    BY <1>1 DEF Lock
  <2>2. \A d \in Reader : pc'[d] = pc[d] /\ gpus'[d] = gpus[d]
    BY <2>1
  <2>3. LocksTypeOK'
    BY <2>1
  <2>4. (\A d \in Reader : ReaderInv(d))' /\ NoLockLeak'
    BY <2>1, <2>2
  <2>5. pc'[c] = "lock" /\ gpus'[c].first = g /\ writer'[g] = c
    <3>1. /\ gpus \in [Call -> [first: GPU \union {NoGPU}, second: GPU \union {NoGPU}]]
          /\ pc \in [Call -> ReaderPC \union {"lock"}] /\ DOMAIN writer = GPU
      OBVIOUS
    <3> HIDE DEF LockInv, ReaderPC
    <3> QED
      BY <2>1, <3>1
  <2>6. \A h \in GPU : h # g => writer'[h] = writer[h]
    BY <2>1
  <2>7. \A d \in Writer : d # c => pc'[d] = pc[d] /\ gpus'[d] = gpus[d]
    BY <2>1
  <2>8. (\A h \in GPU : WriterInv(h))'
    BY <2>1, <2>5, <2>6, <2>7
  <2>9. (\A d \in Writer : /\ pc[d] \in {"new", "lock", "done"}
                           /\ pc[d] = "lock" => /\ gpus[d].first \in GPU
                                                /\ writer[gpus[d].first] = d)'
    BY <2>1, <2>5, <2>6, <2>7
  <2> QED
    BY <2>1, <2>3, <2>4, <2>8, <2>9
<1>2. ASSUME Unlock(c) PROVE LockInv'
  <2> DEFINE g == gpus[c].first
  <2>1. /\ pc[c] = "lock" /\ pc' = [pc EXCEPT ![c] = "done"]
        /\ readers[g] = {} /\ readers' = [readers EXCEPT ![g] = waiting[g]]
        /\ waiting' = [waiting EXCEPT ![g] = {}]
        /\ writer' = [writer EXCEPT ![g] = NoCall]
        /\ gpus' = [gpus EXCEPT ![c] = NoGPUs]
        /\ UNCHANGED <<todo, candidates, compared>>
    BY <1>2 DEF Unlock
  <2>2. g \in GPU /\ writer[g] = c
    BY <2>1
  <2> HIDE DEF g
  <2>3. LocksTypeOK'
    BY <2>1, <2>2 DEF NoGPUs
  <2>4. (\A d \in Reader : ReaderInv(d))' /\ NoLockLeak'
    <3>1. \A d \in Reader : pc'[d] = pc[d] /\ gpus'[d] = gpus[d]
      BY <2>1
    <3>2. \A d \in Reader, h \in GPU :
            /\ Holds(d, h) => Holds(d, h)'
            /\ Holds(d, h) \/ d \in waiting[h] <=> Holds(d, h)' \/ d \in waiting'[h]
      BY <2>1, <2>2
    <3> QED
      BY <2>1, <3>1, <3>2
  <2>5. \A d \in Writer : d # c => pc'[d] = pc[d] /\ gpus'[d] = gpus[d]
    BY <2>1
  <2>6. pc'[c] = "done" /\ \A h \in GPU : h # g => writer'[h] = writer[h]
    BY <2>1
  <2>7. (\A h \in GPU : WriterInv(h))'
    <3> SUFFICES ASSUME NEW h \in GPU PROVE WriterInv(h)'
      OBVIOUS
    <3>1. ASSUME h = g PROVE WriterInv(h)'
      <4>1. readers'[h] = waiting[h] /\ waiting'[h] = {} /\ writer'[h] = NoCall
        BY <2>1, <2>2, <3>1
      <4> QED
        BY <4>1
    <3>2. ASSUME h # g PROVE WriterInv(h)'
      <4>1. readers'[h] = readers[h] /\ waiting'[h] = waiting[h] /\ writer'[h] = writer[h]
        BY <2>1, <2>6, <3>2
      <4>2. writer[h] # NoCall => /\ writer[h] \in Writer /\ writer[h] # c
                                 /\ pc[writer[h]] = "lock" /\ gpus[writer[h]].first = h
        BY <2>2, <3>2 DEF g
      <4> QED
        BY <2>5, <4>1, <4>2
    <3> QED
      BY <3>1, <3>2
  <2>8. (\A d \in Writer : /\ pc[d] \in {"new", "lock", "done"}
                           /\ pc[d] = "lock" => /\ gpus[d].first \in GPU
                                                /\ writer[gpus[d].first] = d)'
    BY <2>1, <2>2, <2>5, <2>6
  <2>9. (\A h \in GPU : readers[h] \intersect waiting[h] = {})'
    BY <2>1, <2>2
  <2> QED
    BY <2>3, <2>4, <2>7, <2>8, <2>9
<1> QED
  BY <1>1, <1>2 DEF WriteStep

\* The invariant, which needs of the constants only what LocksAssumption says.
LEMMA LockInvariant == Spec => []LockInv
<1>1. Init => LockInv
  BY LocksAssumption
     DEF Init, NoGPUs, LockInv, LocksTypeOK, ReaderInv, WriterInv, NoLockLeak, Asked,
         Holds, ReaderPC, Call
<1>2. LockInv /\ [Next]_vars => LockInv'
  <2> SUFFICES ASSUME LockInv, [Next]_vars PROVE LockInv'
    OBVIOUS
  <2>1. CASE UNCHANGED vars
    BY <2>1 DEF vars, lockVars, listVars, LockInv, LocksTypeOK, ReaderInv, WriterInv,
                NoLockLeak, Asked, Holds
  <2> QED
    BY <2>1, ScheduleKeepsInv, WriteKeepsInv DEF Next
<1> QED
  BY <1>1, <1>2, PTL DEF Spec

\* The read locks that a call of Schedule holds or waits for are the ones that
\* its position accounts for, so that it holds none when it has returned.
THEOREM NoLockLeakTheorem == Spec => []NoLockLeak
<1>1. LockInv => NoLockLeak
  BY DEF LockInv
<1> QED
  BY <1>1, LockInvariant, PTL

\* A reader that cannot go on waits for the writer of the GPU it asked last.
LEMMA StuckReader ==
  ASSUME LockInv, NEW c \in Reader, pc[c] # "done", ~CanGo(c)
  PROVE  \/ /\ pc[c] \in {"scan", "first", "return"} /\ gpus[c].first \in GPU
            /\ c \notin readers[gpus[c].first] /\ writer[gpus[c].first] # NoCall
         \/ /\ pc[c] = "second" /\ gpus[c].second \in GPU
            /\ c \notin readers[gpus[c].second] /\ writer[gpus[c].second] # NoCall
<1>0. ReaderInv(c) /\ candidates[c] \subseteq GPU
  BY DEF LockInv, LocksTypeOK
<1>1. \A g \in GPU : (c \in readers[g] \/ c \in waiting[g] <=> g \in Asked(c))
                    /\ (waiting[g] # {} => writer[g] # NoCall)
  BY DEF LockInv, NoLockLeak, WriterInv, Holds
<1>2. pc[c] # "new"
  BY <1>0 DEF CanGo, ReaderInv
<1>3. ASSUME pc[c] = "sort" PROVE FALSE
  <2>1. /\ candidates[c] # {} /\ ~Sorted(c)
        /\ ~\E g, h \in candidates[c] : g # h /\ {g, h} \notin compared[c]
    BY <1>3 DEF CanGo
  <2>2. PICK g \in candidates[c] : g \notin UNION compared[c]
    BY <2>1 DEF Sorted
  <2>3. \A h \in candidates[c] : h = g
    BY <2>1, <2>2
  <2>4. candidates[c] = {g}
    BY <2>3, <2>2
  <2>5. Cardinality(candidates[c]) = 1
    BY <2>4, FS_Singleton
  <2> QED
    BY <2>1, <2>5 DEF Sorted
<1>4. CASE pc[c] \in {"scan", "first", "return"}
  BY <1>0, <1>1, <1>4 DEF ReaderInv, Asked, CanGo, Holds
<1>5. CASE pc[c] = "second"
  BY <1>0, <1>1, <1>5 DEF ReaderInv, Asked, CanGo, Holds
<1> QED
  BY <1>0, <1>2, <1>3, <1>4, <1>5 DEF ReaderInv, ReaderPC

\* With writers on one GPU at most, a reader that has that GPU can go on.
LEMMA HolderGoes ==
  ASSUME LockInv, NEW c \in Reader, NEW g \in GPU, c \in readers[g],
         \A h \in GPU : h # g => writer[h] = NoCall
  PROVE  CanGo(c)
<1> SUFFICES ASSUME ~CanGo(c) PROVE FALSE
  OBVIOUS
<1>1. g \in Asked(c) /\ ReaderInv(c)
  BY DEF LockInv, NoLockLeak, Holds
<1>2. pc[c] # "done"
  BY <1>1 DEF Asked
<1>3. CASE pc[c] \in {"scan", "first", "return"}
  BY <1>1, <1>3 DEF Asked, CanGo, Holds
<1>4. CASE pc[c] = "second"
  <2>1. gpus[c].second \in GPU /\ c \notin readers[gpus[c].second]
    BY <1>1, <1>4 DEF ReaderInv, CanGo, Holds
  <2>2. writer[gpus[c].second] # NoCall
    BY <1>2, <1>4, StuckReader
  <2> QED
    BY <2>1, <2>2
<1> QED
  BY <1>1, <1>3, <1>4 DEF Asked

\* A call that has not returned can go on, or some other call can, unless
\* writers hold or wait for the locks of two GPUs: one cycle of waiting is the
\* only way in which the locks of the scheduler can stop it.
THEOREM StuckBetweenWritersTheorem == Spec => []StuckBetweenWriters
<1>1. LockInv => StuckBetweenWriters
  <2> SUFFICES ASSUME LockInv, NEW c0 \in Call, pc[c0] # "done",
                      \A c \in Call : ~CanGo(c),
                      \A g, h \in GPU : writer[g] # NoCall /\ writer[h] # NoCall => g = h
               PROVE  FALSE
    BY DEF StuckBetweenWriters
  <2>1. \E g \in GPU : writer[g] # NoCall
    <3>1. CASE c0 \in Reader
      BY <3>1, StuckReader
    <3>2. CASE c0 \in Writer
      <4>1. pc[c0] = "new" \/ /\ gpus[c0].first \in GPU
                              /\ writer[gpus[c0].first] = c0 /\ c0 # NoCall
        BY <3>2, LocksAssumption DEF LockInv
      <4> QED
        BY <3>2, <4>1, LocksAssumption DEF CanGo
    <3> QED
      BY <3>1, <3>2 DEF Call
  <2>2. PICK g \in GPU : writer[g] # NoCall
    BY <2>1
  <2>3. /\ writer[g] \in Writer /\ pc[writer[g]] = "lock"
        /\ gpus[writer[g]].first = g /\ readers[g] \subseteq Reader
    BY <2>2 DEF LockInv, WriterInv
  <2>4. readers[g] # {}
    BY <2>3 DEF CanGo, Call
  <2>5. PICK r \in Reader : r \in readers[g]
    BY <2>3, <2>4
  <2>6. CanGo(r)
    BY <2>2, <2>5, HolderGoes
  <2> QED
    BY <2>6 DEF Call
<1> QED
  BY <1>1, LockInvariant, PTL
=============================================================================
