-------------------------- MODULE MCDirectoryCache --------------------------
(***************************************************************************)
(* A cache for two trees, the third as large as two, so that it evicts     *)
(* both.  With faults two callers ask for a small tree and the large one;  *)
(* without, three callers ask for these or two callers for all trees.      *)
(***************************************************************************)
EXTENDS DirectoryCache

CONSTANTS a1, a2, a3, r1, r2, r3

MCWeight == [r \in Root |-> IF r = r3 THEN 2 ELSE 1]

Few(direct, faults) ==
    [direct |-> direct, faults |-> faults, callers |-> {a1, a2}, roots |-> {r1, r3}]

MCMode == {Few(TRUE, TRUE), Few(FALSE, TRUE), Few(TRUE, FALSE),
           [Few(FALSE, FALSE) EXCEPT !.callers = Action],
           [Few(FALSE, FALSE) EXCEPT !.roots = Root]}
=============================================================================
