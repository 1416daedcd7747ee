------------------------------ MODULE MCProcess ------------------------------
(***************************************************************************)
(* Small instances of Process, with the constants of MCControlPlane.       *)
(***************************************************************************)
EXTENDS Process

CONSTANTS TheModel, GPUSize, Requirement

ModelSet       == {TheModel}
TotalVRAMDef   == [g \in GPU |-> GPUSize]
ModelOfDef     == [w \in Worker |-> TheModel]
RequirementDef == [w \in Worker |-> Requirement]
=============================================================================
