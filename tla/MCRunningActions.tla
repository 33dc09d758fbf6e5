-------------------------- MODULE MCRunningActions --------------------------
(* The worker's actions for TLC: one operation, dispatched several times.   *)
EXTENDS RunningActions

\* The scheduling the code counts on.
MCPrompt == {TRUE}
=============================================================================
