---------------------------- MODULE MCWorkerPool ----------------------------
(***************************************************************************)
(* Small instance of WorkerPool; ids and calls are interchangeable.        *)
(***************************************************************************)
EXTENDS WorkerPool, TLC

PoolSymmetry == Permutations(Worker) \union Permutations(Remover)
=============================================================================
