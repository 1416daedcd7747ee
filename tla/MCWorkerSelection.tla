-------------------------- MODULE MCWorkerSelection --------------------------
(***************************************************************************)
(* Three workers, of which two belong to one tenant and two have one       *)
(* model.  One has a whole GPU, one next to nothing, one no assignment.    *)
(***************************************************************************)
EXTENDS WorkerSelection

CONSTANTS w1, w2, w3, alpha, beta, gpt, bert

WorkerSet == {w1, w2, w3}
TenantSet == {alpha, beta}
ModelSet  == {gpt, bert}
TenantOfDef == [w \in WorkerSet |-> IF w = w3 THEN beta ELSE alpha]
ModelOfDef  == [w \in WorkerSet |-> IF w = w2 THEN bert ELSE gpt]
MemoryDef   == [w \in WorkerSet |-> IF w = w1 THEN 1 ELSE IF w = w2 THEN 0 ELSE -1]
=============================================================================
