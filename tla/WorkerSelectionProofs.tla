----------------------- MODULE WorkerSelectionProofs -----------------------
(***************************************************************************)
(* Selection passes over nobody that would have done during the whole      *)
(* call, for any workers, tenants, models, GPUs and requirements, whatever *)
(* the pool does between its looks.                                        *)
(***************************************************************************)
EXTENDS WorkerSelection, TLAPS

Calling == [at: Loop \union Result, op: Operation, tenant: Tenant \union {NoTenant},
            model: Model, vram: Nat]

\* No call is in progress exactly when the call is nowhere.
LEMMA CallAt ==
  ASSUME TypeOK
  PROVE  /\ call # Idling => call \in Calling /\ call.at \in Loop \union Result
         /\ call = Idling => call.at = "off"
BY DEF TypeOK, Calling, Idling

\* The steps of the pool meanwhile.
Meanwhile ==
  \/ \E w \in Worker : AddWorker(w) \/ RemoveWorker(w) \/ \E s \in Status : TransitionTo(w, s)
  \/ \E g \in GPU, v \in 0..TotalVRAM : ChangeVRAM(g, v)

\* Whatever happens meanwhile, what is still steady is what it was.
LEMMA MeanwhileSteady ==
  ASSUME TypeOK, SteadyInv, Meanwhile
  PROVE  /\ SteadyInv' /\ UNCHANGED localVars
         /\ steady' \subseteq steady /\ steadyGPU' \subseteq steadyGPU
<1>1. ASSUME NEW w \in Worker, AddWorker(w)
      PROVE  /\ SteadyInv' /\ UNCHANGED localVars
             /\ steady' \subseteq steady /\ steadyGPU' \subseteq steadyGPU
  BY <1>1 DEF AddWorker, SteadyInv, localVars, steadyVars
<1>2. ASSUME NEW w \in Worker, RemoveWorker(w)
      PROVE  /\ SteadyInv' /\ UNCHANGED localVars
             /\ steady' \subseteq steady /\ steadyGPU' \subseteq steadyGPU
  BY <1>2 DEF RemoveWorker, SteadyInv, localVars
<1>3. ASSUME NEW w \in Worker, NEW s \in Status, TransitionTo(w, s)
      PROVE  /\ SteadyInv' /\ UNCHANGED localVars
             /\ steady' \subseteq steady /\ steadyGPU' \subseteq steadyGPU
  BY <1>3 DEF TransitionTo, SteadyInv, localVars, TypeOK
<1>4. ASSUME NEW g \in GPU, NEW v \in 0..TotalVRAM, ChangeVRAM(g, v)
      PROVE  /\ SteadyInv' /\ UNCHANGED localVars
             /\ steady' \subseteq steady /\ steadyGPU' \subseteq steadyGPU
  <2>1. /\ UNCHANGED <<workers, joined, status, call, list, todo, todoGPU, chosen, steady>>
        /\ free' = [free EXCEPT ![g] = v]
        /\ steadyGPU' = IF call # Idling /\ v < call.vram THEN steadyGPU \ {g} ELSE steadyGPU
    BY <1>4 DEF ChangeVRAM, localVars
  <2>2. ASSUME call # Idling, NEW h \in steadyGPU' PROVE free'[h] >= call.vram
    <3>1. call.vram \in Nat /\ v \in Int /\ h \in GPU /\ h \in steadyGPU
      BY <2>1, <2>2, CallAt, SelectionAssumption DEF Calling, TypeOK
    <3>2. CASE h = g
      BY <2>1, <2>2, <3>1, <3>2 DEF TypeOK
    <3>3. CASE h # g
      BY <2>1, <2>2, <3>1, <3>3 DEF TypeOK, SteadyInv
    <3> QED
      BY <3>2, <3>3
  <2> QED
    BY <2>1, <2>2 DEF SteadyInv, localVars
<1> QED
  BY <1>1, <1>2, <1>3, <1>4 DEF Meanwhile

Same(at) ==
  /\ call' = [call EXCEPT !.at = at] /\ UNCHANGED <<poolVars, steadyVars>>

\* Whom the call asks for does not change while it lasts.
LEMMA CallGoesOn ==
  ASSUME TypeOK, SteadyInv, call # Idling, NEW CONSTANT at \in Loop \union Result, Same(at)
  PROVE  /\ call' \in Calling /\ call' # Idling /\ call'.at = at
         /\ call'.model = call.model /\ call'.vram = call.vram
         /\ \A w : Asked(w)' = Asked(w) /\ Suffices(w)' = Suffices(w)
         /\ SteadyInv'
<1>1. /\ call' \in Calling /\ call'.at = at /\ call'.op = call.op /\ call'.tenant = call.tenant
      /\ call'.model = call.model /\ call'.vram = call.vram
  <2>1. call \in Calling
    BY CallAt
  <2> QED
    BY <2>1 DEF Same, Calling
<1>2. call' # Idling
  BY <1>1 DEF Idling, Loop, Result
<1>3. \A w : Asked(w)' = Asked(w) /\ Suffices(w)' = Suffices(w)
  BY <1>1 DEF Asked, Suffices, HasVRAM
<1>4. SteadyInv'
  BY <1>1, <1>2 DEF Same, SteadyInv, poolVars, steadyVars
<1> QED
  BY <1>1, <1>2, <1>3, <1>4

CallMoves ==
  /\ UNCHANGED <<poolVars, steadyVars>>
  /\ \E at \in Loop \union Result : call' = [call EXCEPT !.at = at]
  /\ list' \subseteq Worker /\ todo' \subseteq Worker /\ todoGPU' \subseteq GPU
  /\ chosen' \in Worker \union {NoWorker}

\* A step of a call moves it, its lists and its result, and nothing else.
LEMMA StepMoves ==
  ASSUME TypeOK, call # Idling, CallStep
  PROVE  CallMoves
<1>0. /\ call \in Calling /\ call.at \in Loop \union Result
      /\ call = [call EXCEPT !.at = call.at]
  <2>1. call \in Calling /\ call.at \in Loop \union Result
    BY CallAt
  <2> QED
    BY <2>1 DEF Calling
<1>1. ASSUME NEW w \in Worker, ListKey(w) PROVE CallMoves
  BY <1>0, <1>1 DEF ListKey, CallMoves, TypeOK
<1>2. ASSUME NEW w \in Worker, LookWarm(w) \/ LookIdle(w) \/ FindKey(w) PROVE CallMoves
  BY <1>0, <1>2 DEF LookWarm, LookIdle, FindKey, Returns, Skip, Goto, Result, CallMoves, TypeOK
<1>3. ASSUME NEW g \in GPU, LookGPU(g) PROVE CallMoves
  BY <1>0, <1>3 DEF LookGPU, Returns, Goto, Result, CallMoves, TypeOK
<1>4. CASE ListDone \/ WarmDone \/ IdleDone \/ GPUDone \/ FindDone
  BY <1>0, <1>4 DEF ListDone, WarmDone, IdleDone, GPUDone, FindDone, Over, Returns, Goto,
                    Loop, Result, CallMoves, TypeOK
<1> QED
  BY <1>1, <1>2, <1>3, <1>4 DEF CallStep

-----------------------------------------------------------------------------
(***************************************************************************)
(* Nobody is passed over.                                                  *)
(***************************************************************************)
PassesNobody == LoopInv /\ WarmHitIfSteady /\ ColdOnlyIfNoneSteady /\ ExhaustedIsReal

\* A call begins with everybody to look at.
LEMMA CallBegins ==
  ASSUME TypeOK, NEW op \in Operation, NEW t \in Tenant \union {NoTenant}, NEW m \in Model,
         NEW v \in Requirement \union {DefaultVRAM}, Calls(op, t, m, v)
  PROVE  TypeOK' /\ SteadyInv' /\ PassesNobody'
<1>1. /\ call' \in Calling /\ call'.at \in {"find", "list"} /\ call'.vram = v /\ v \in Nat
      /\ todo' = Worker /\ steady' = {w \in workers : status[w] = StatusIdle}
      /\ steadyGPU' = {g \in GPU : free[g] >= v} /\ UNCHANGED <<poolVars, list, todoGPU, chosen>>
  BY SelectionAssumption DEF Calls, Calling, Loop
<1>2. call' # Idling
  BY <1>1 DEF Idling
<1>3. TypeOK'
  BY <1>1 DEF TypeOK, Calling, poolVars
<1>4. SteadyInv'
  BY <1>1, <1>2 DEF SteadyInv, poolVars
<1>5. LoopInv'
  BY <1>1, <1>3 DEF LoopInv, TypeOK
<1>6. /\ WarmHitIfSteady' /\ ColdOnlyIfNoneSteady' /\ ExhaustedIsReal'
  BY <1>1 DEF WarmHitIfSteady, ColdOnlyIfNoneSteady, ExhaustedIsReal, Returned, Result
<1> QED
  BY <1>3, <1>4, <1>5, <1>6 DEF PassesNobody

\* What becomes less steady needs no longer be looked at.
LEMMA MeanwhilePassesNobody ==
  ASSUME PassesNobody, UNCHANGED localVars, steady' \subseteq steady, steadyGPU' \subseteq steadyGPU
  PROVE  PassesNobody'
<1>1. LoopInv'
  BY DEF PassesNobody, LoopInv, localVars, Asked, Suffices, HasVRAM
<1>2. /\ WarmHitIfSteady' /\ ColdOnlyIfNoneSteady' /\ ExhaustedIsReal'
  BY DEF PassesNobody, WarmHitIfSteady, ColdOnlyIfNoneSteady, ExhaustedIsReal, Returned,
         localVars, Asked, Suffices, HasVRAM
<1> QED
  BY <1>1, <1>2 DEF PassesNobody

\* The listing takes every registered worker of the tenant.
LEMMA ListPassesNobody ==
  ASSUME TypeOK, SteadyInv, PassesNobody, call # Idling,
         (\E w \in Worker : ListKey(w)) \/ ListDone
  PROVE  PassesNobody'
<1> USE DEF PassesNobody
<1>1. ASSUME NEW w \in Worker, ListKey(w) PROVE PassesNobody'
  <2>1. /\ call.at = "list" /\ UNCHANGED <<steady, steadyGPU, call>> /\ todo' = todo \ {w}
        /\ list' = IF w \in workers /\ Asked(w) THEN list \union {w} ELSE list
    BY <1>1 DEF ListKey, steadyVars
  <2>2. \A v : Asked(v)' = Asked(v)
    BY <2>1 DEF Asked
  <2>3. LoopInv'
    BY <2>1, <2>2 DEF LoopInv, TypeOK
  <2> QED
    BY <2>1, <2>3 DEF WarmHitIfSteady, ColdOnlyIfNoneSteady, ExhaustedIsReal, Returned, Result
<1>2. CASE ListDone
  <2>1. /\ call.at = "list" /\ todo = {} /\ Same("warm") /\ todo' = list /\ UNCHANGED list
    BY <1>2 DEF ListDone, Over, Goto, Same
  <2>2. /\ call'.at = "warm" /\ UNCHANGED <<steady, steadyGPU>>
        /\ \A w : Asked(w)' = Asked(w) /\ Suffices(w)' = Suffices(w)
    BY <2>1, CallGoesOn DEF Loop, Same, steadyVars
  <2>3. LoopInv'
    BY <2>1, <2>2 DEF LoopInv
  <2> QED
    BY <2>2, <2>3 DEF WarmHitIfSteady, ColdOnlyIfNoneSteady, ExhaustedIsReal, Returned, Result
<1> QED
  BY <1>1, <1>2

\* A pass that returns has found one, and one that goes on has looked at one
\* that would not do.
LEMMA PassPassesNobody ==
  ASSUME TypeOK, SteadyInv, PassesNobody, call # Idling,
         (\E w \in Worker : LookWarm(w) \/ LookIdle(w) \/ FindKey(w))
           \/ WarmDone \/ IdleDone \/ FindDone
  PROVE  PassesNobody'
<1> USE DEF PassesNobody
<1>1. ASSUME NEW w \in Worker, Skip(w), UNCHANGED <<poolVars, steadyVars>>,
             \/ call.at \in {"warm", "find"}
                  /\ ~ (w \in steady /\ Asked(w) /\ ModelOf[w] = call.model)
             \/ call.at = "repurpose" /\ ~ (w \in steady /\ Suffices(w))
      PROVE  PassesNobody'
  <2>1. UNCHANGED <<steady, steadyGPU, call, list, todoGPU>> /\ todo' = todo \ {w}
    BY <1>1 DEF Skip, steadyVars
  <2>2. \A v : Asked(v)' = Asked(v) /\ Suffices(v)' = Suffices(v)
    BY <2>1 DEF Asked, Suffices, HasVRAM
  <2>3. LoopInv'
    BY <1>1, <2>1, <2>2 DEF LoopInv
  <2> QED
    BY <1>1, <2>1, <2>3 DEF WarmHitIfSteady, ColdOnlyIfNoneSteady, ExhaustedIsReal, Returned, Result
<1>2. ASSUME NEW CONSTANT result \in Result, Same(result),
             \/ result = "WARM_HIT"
             \/ /\ \A w \in steady : Asked(w) => ModelOf[w] # call.model
                /\ result \in {"REPURPOSE", "nil"}
      PROVE  PassesNobody'
  <2>1. /\ call'.at = result /\ call'.model = call.model /\ UNCHANGED steady
        /\ \A w : Asked(w)' = Asked(w)
    BY <1>2, CallGoesOn DEF Same, steadyVars
  <2>2. LoopInv'
    BY <2>1 DEF LoopInv, Result
  <2> QED
    BY <1>2, <2>1, <2>2 DEF WarmHitIfSteady, ColdOnlyIfNoneSteady, ExhaustedIsReal, Returned, Result
<1>3. ASSUME NEW w \in Worker, LookWarm(w) PROVE PassesNobody'
  <2>1. CASE Matches(w)
    BY <1>2, <1>3, <2>1 DEF LookWarm, Returns, Goto, Same, Result
  <2>2. CASE ~ Matches(w)
    BY <1>1, <1>3, <2>2 DEF LookWarm, Matches, SteadyInv
  <2> QED
    BY <2>1, <2>2
<1>4. ASSUME NEW w \in Worker, LookIdle(w) PROVE PassesNobody'
  <2>1. CASE status[w] = StatusIdle /\ Suffices(w)
    <3>1. Same("REPURPOSE") /\ call.at = "repurpose"
      BY <1>4, <2>1 DEF LookIdle, Returns, Goto, Same
    <3>2. \A v \in steady : Asked(v) => ModelOf[v] # call.model
      BY <3>1 DEF LoopInv
    <3> QED
      BY <1>2, <3>1, <3>2 DEF Result
  <2>2. CASE ~ (status[w] = StatusIdle /\ Suffices(w))
    BY <1>1, <1>4, <2>2 DEF LookIdle, SteadyInv
  <2> QED
    BY <2>1, <2>2
<1>5. ASSUME NEW w \in Worker, FindKey(w) PROVE PassesNobody'
  <2>1. CASE w \in workers /\ Asked(w) /\ Matches(w)
    BY <1>2, <1>5, <2>1 DEF FindKey, Returns, Goto, Same, Result
  <2>2. CASE ~ (w \in workers /\ Asked(w) /\ Matches(w))
    BY <1>1, <1>5, <2>2 DEF FindKey, Matches, SteadyInv, TypeOK
  <2> QED
    BY <2>1, <2>2
<1>6. CASE WarmDone
  <2>1. /\ call.at = "warm" /\ todo = {} /\ Same("repurpose") /\ todo' = list /\ UNCHANGED list
    BY <1>6 DEF WarmDone, Over, Goto, Same
  <2>2. /\ call'.at = "repurpose" /\ call'.model = call.model /\ UNCHANGED <<steady, steadyGPU>>
        /\ \A w : Asked(w)' = Asked(w) /\ Suffices(w)' = Suffices(w)
    BY <2>1, CallGoesOn DEF Loop, Same, steadyVars
  <2>3. LoopInv'
    BY <2>1, <2>2 DEF LoopInv
  <2> QED
    BY <2>2, <2>3 DEF WarmHitIfSteady, ColdOnlyIfNoneSteady, ExhaustedIsReal, Returned, Result
<1>7. CASE IdleDone
  <2>1. /\ call.at = "repurpose" /\ todo = {} /\ Same("gpu") /\ todoGPU' = GPU
    BY <1>7 DEF IdleDone, Goto, Same
  <2>2. /\ call'.at = "gpu" /\ call'.model = call.model /\ UNCHANGED <<steady, steadyGPU>>
        /\ \A w : Asked(w)' = Asked(w) /\ Suffices(w)' = Suffices(w)
    BY <2>1, CallGoesOn DEF Loop, Same, steadyVars
  <2>3. LoopInv'
    BY <2>1, <2>2 DEF LoopInv, TypeOK
  <2> QED
    BY <2>2, <2>3 DEF WarmHitIfSteady, ColdOnlyIfNoneSteady, ExhaustedIsReal, Returned, Result
<1>8. CASE FindDone
  <2>1. /\ call.at = "find" /\ todo = {} /\ Same("nil")
    BY <1>8 DEF FindDone, Returns, Goto, Same
  <2>2. \A v \in steady : Asked(v) => ModelOf[v] # call.model
    BY <2>1 DEF LoopInv
  <2> QED
    BY <1>2, <2>1, <2>2 DEF Result
<1> QED
  BY <1>3, <1>4, <1>5, <1>6, <1>7, <1>8

\* A GPU that is passed over has less room than asked for, and was not steady.
LEMMA GPUPassesNobody ==
  ASSUME TypeOK, SteadyInv, PassesNobody, call # Idling,
         (\E g \in GPU : LookGPU(g)) \/ GPUDone
  PROVE  PassesNobody'
<1> USE DEF PassesNobody
<1>1. ASSUME NEW CONSTANT result \in {"COLD_START", "RESOURCE_EXHAUSTED"}, call.at = "gpu",
             Same(result), result = "RESOURCE_EXHAUSTED" => steadyGPU = {}
      PROVE  PassesNobody'
  <2>1. /\ call'.at = result /\ call'.model = call.model /\ UNCHANGED <<steady, steadyGPU>>
        /\ \A w : Asked(w)' = Asked(w) /\ Suffices(w)' = Suffices(w)
    BY <1>1, CallGoesOn DEF Same, steadyVars, Result
  <2>2. \A w \in steady : Asked(w) => ModelOf[w] # call.model /\ ~ Suffices(w)
    BY <1>1 DEF LoopInv
  <2>3. LoopInv'
    BY <2>1 DEF LoopInv
  <2> QED
    BY <1>1, <2>1, <2>2, <2>3 DEF WarmHitIfSteady, ColdOnlyIfNoneSteady, ExhaustedIsReal, Returned
<1>2. ASSUME NEW g \in GPU, LookGPU(g) PROVE PassesNobody'
  <2>1. CASE free[g] >= call.vram
    BY <1>1, <1>2, <2>1 DEF LookGPU, Returns, Goto, Same
  <2>2. CASE ~ (free[g] >= call.vram)
    <3>1. /\ UNCHANGED <<steady, steadyGPU, call, list, todo>> /\ todoGPU' = todoGPU \ {g}
          /\ call.at = "gpu" /\ g \notin steadyGPU
      BY <1>2, <2>2 DEF LookGPU, steadyVars, SteadyInv
    <3>2. \A w : Asked(w)' = Asked(w) /\ Suffices(w)' = Suffices(w)
      BY <3>1 DEF Asked, Suffices, HasVRAM
    <3>3. LoopInv'
      BY <3>1, <3>2 DEF LoopInv
    <3> QED
      BY <3>1, <3>3 DEF WarmHitIfSteady, ColdOnlyIfNoneSteady, ExhaustedIsReal, Returned, Result
  <2> QED
    BY <2>1, <2>2
<1>3. CASE GPUDone
  <2>1. call.at = "gpu" /\ Same("RESOURCE_EXHAUSTED") /\ todoGPU = {}
    BY <1>3 DEF GPUDone, Returns, Goto, Same
  <2>2. steadyGPU = {}
    BY <2>1 DEF LoopInv
  <2> QED
    BY <1>1, <2>1, <2>2
<1> QED
  BY <1>2, <1>3

-----------------------------------------------------------------------------
(***************************************************************************)
(* The invariant, and what it says.                                        *)
(***************************************************************************)

\* What goes on meanwhile keeps the types: no worker leaves TERMINATING, none
\* goes back to STARTING.
LEMMA MeanwhileTypeOK ==
  ASSUME TypeOK, Meanwhile
  PROVE  TypeOK'
<1>1. ASSUME NEW w \in Worker, AddWorker(w) \/ RemoveWorker(w) PROVE TypeOK'
  BY <1>1 DEF AddWorker, RemoveWorker, TypeOK, localVars, steadyVars
<1>2. ASSUME NEW w \in Worker, NEW s \in Status, TransitionTo(w, s) PROVE TypeOK'
  <2>1. s \in {StatusRunning, StatusIdle, StatusTerminating}
    BY <1>2 DEF TransitionTo, isValidTransition, validTransitions, TypeOK, StatusPending,
                StatusStarting, StatusRunning, StatusIdle, StatusTerminating
  <2> QED
    BY <1>2, <2>1 DEF TransitionTo, TypeOK, localVars
<1>3. ASSUME NEW g \in GPU, NEW v \in 0..TotalVRAM, ChangeVRAM(g, v) PROVE TypeOK'
  BY <1>3 DEF ChangeVRAM, TypeOK, localVars
<1> QED
  BY <1>1, <1>2, <1>3 DEF Meanwhile

\* Every step keeps the invariant.
LEMMA SelectionNext ==
  ASSUME SelectionInv, [Next]_vars
  PROVE  SelectionInv'
<1> USE DEF SelectionInv
<1>1. PassesNobody
  BY DEF PassesNobody
<1>2. SUFFICES TypeOK' /\ SteadyInv' /\ PassesNobody'
  BY DEF PassesNobody
<1>3. CASE \E op \in Operation, t \in Tenant \union {NoTenant}, m \in Model :
             \E v \in Requirement \union {DefaultVRAM} : Calls(op, t, m, v)
  BY <1>3, CallBegins
<1>4. CASE call # Idling /\ CallStep
  <2>1. PassesNobody'
    BY <1>1, <1>4, ListPassesNobody, PassPassesNobody, GPUPassesNobody DEF CallStep
  <2>2. PICK at \in Loop \union Result : Same(at)
    BY <1>4, StepMoves DEF CallMoves, Same
  <2>3. SteadyInv' /\ call' \in Calling
    BY <1>4, <2>2, CallGoesOn
  <2>4. TypeOK'
    BY <1>4, <2>3, StepMoves DEF CallMoves, TypeOK, Calling, poolVars, steadyVars
  <2> QED
    BY <2>1, <2>3, <2>4
<1>5. CASE Meanwhile
  BY <1>1, <1>5, MeanwhileTypeOK, MeanwhileSteady, MeanwhilePassesNobody
<1>6. CASE UNCHANGED vars
  <2>1. UNCHANGED <<workers, joined, status, free, call, list, todo, todoGPU, chosen,
                    steady, steadyGPU>>
    BY <1>6 DEF vars, poolVars, localVars, steadyVars
  <2>2. TypeOK' /\ SteadyInv'
    BY <2>1 DEF TypeOK, SteadyInv
  <2>3. PassesNobody'
    BY <1>1, <2>1, MeanwhilePassesNobody DEF localVars
  <2> QED
    BY <2>2, <2>3
<1> QED
  BY <1>3, <1>4, <1>5, <1>6 DEF Next, Meanwhile

\* The invariant holds in every state.
THEOREM SelectionInvariant == Spec => []SelectionInv
<1>1. Init => SelectionInv
  <2> SUFFICES ASSUME Init PROVE SelectionInv
    OBVIOUS
  <2>1. TypeOK /\ SteadyInv
    BY SelectionAssumption DEF Init, TypeOK, SteadyInv
  <2>2. LoopInv /\ WarmHitIfSteady /\ ColdOnlyIfNoneSteady /\ ExhaustedIsReal
    BY DEF Init, LoopInv, WarmHitIfSteady, ColdOnlyIfNoneSteady, ExhaustedIsReal, Returned
  <2> QED
    BY <2>1, <2>2 DEF SelectionInv
<1> QED
  BY <1>1, SelectionNext, PTL DEF Spec

\* The pool, the GPUs and the call in progress keep their types.
THEOREM SelectionTypeCorrect == Spec => []TypeOK
BY SelectionInvariant, PTL DEF SelectionInv

\* A worker that had the model and was IDLE during the whole call is not passed
\* over, neither for one to be repurposed nor for a cold start.
THEOREM WarmHitIfSteadyTheorem == Spec => []WarmHitIfSteady
BY SelectionInvariant, PTL DEF SelectionInv

\* Nobody is sent to a cold start while a worker that would do is IDLE during
\* the whole call.
THEOREM ColdOnlyIfNoneSteadyTheorem == Spec => []ColdOnlyIfNoneSteady
BY SelectionInvariant, PTL DEF SelectionInv

\* Nobody is told that the resources are exhausted while one GPU has room during
\* the whole call.
THEOREM ExhaustedIsRealTheorem == Spec => []ExhaustedIsReal
BY SelectionInvariant, PTL DEF SelectionInv
=============================================================================
