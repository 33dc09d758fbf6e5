---------------------------- MODULE MCWorkerPool ----------------------------
(***************************************************************************)
(* Instances of WorkerPool for TLC.                                         *)
(***************************************************************************)
EXTENDS WorkerPool, TLC

PoolSymmetry == Permutations(OperationId) \cup Permutations(WorkerId)
=============================================================================
