------------------------- MODULE MCSimpleScheduler -------------------------
(* The instance of SimpleScheduler for TLC. *)
EXTENDS SimpleScheduler, TLC

SchedSymmetry == Permutations(WorkerId)
=============================================================================
