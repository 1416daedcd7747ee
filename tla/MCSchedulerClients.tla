------------------------- MODULE MCSchedulerClients -------------------------
(***************************************************************************)
(* Three GPUs, of which g1 has two units of VRAM and the others one, and   *)
(* four callers.  w1 and w2 ask for one unit and fit anywhere; w3 and w4   *)
(* ask for two and fit only on an empty g1.  w4 asks for another model     *)
(* than the rest.                                                          *)
(***************************************************************************)
EXTENDS SchedulerClients, FiniteSetsExt, TLC

CONSTANTS g1, g2, g3, w1, w2, w3, w4, m1, m2

TotalVRAMDef       == [g \in GPU |-> IF g = g1 THEN 2 ELSE 1]
ModelOfDef         == [w \in Worker |-> IF w = w4 THEN m2 ELSE m1]
VRAMRequirementDef == [w \in Worker |-> IF w \in {w3, w4} THEN 2 ELSE 1]

\* The number of megabytes is the sum of the requirements.
ASSUME \A S \in SUBSET Worker : VRAMOf(S) = SumFunctionOnSet(VRAMRequirementDef, S)
=============================================================================
