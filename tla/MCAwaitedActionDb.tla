-------------------------- MODULE MCAwaitedActionDb --------------------------
(***************************************************************************)
(* The instance of AwaitedActionDb for TLC.  It checks a liveness property, *)
(* so it uses no symmetry.                                                 *)
(***************************************************************************)
EXTENDS AwaitedActionDb
=============================================================================
