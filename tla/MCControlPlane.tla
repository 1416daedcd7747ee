--------------------------- MODULE MCControlPlane ---------------------------
(***************************************************************************)
(* Small instances of ControlPlane.  Every worker asks for the same model, *)
(* mostly with the same VRAM, and the GPUs are mostly of one size; the     *)
(* constants are chosen in the .cfg files.                                 *)
(***************************************************************************)
EXTENDS ControlPlane, TLC

CONSTANTS TheModel, GPUSize, Requirement

ModelSet       == {TheModel}
TotalVRAMDef   == [g \in GPU |-> GPUSize]
ModelOfDef     == [w \in Worker |-> TheModel]
RequirementDef == [w \in Worker |-> Requirement]

\* One GPU is larger by a unit, and one worker needs the larger one: which GPU
\* the other worker gets decides whether there is room for it.
TheGPU    == CHOOSE g \in GPU : TRUE
TheWorker == CHOOSE w \in Worker : TRUE
MixedVRAMDef == [g \in GPU |-> IF g = TheGPU THEN GPUSize ELSE GPUSize - 1]
MixedRequirementDef ==
  [w \in Worker |-> IF w = TheWorker THEN Requirement + 1 ELSE Requirement]

\* A requirement that CreateWorker accepts and WireWorkerState.Validate does not.
UnvalidatedRequirement == -1

\* Workers, like the requests that create them, are interchangeable.
WorkerSymmetry == Permutations(Worker)
=============================================================================
