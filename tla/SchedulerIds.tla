---------------------------- MODULE SchedulerIds ----------------------------
(***************************************************************************)
(* What the parts of the scheduler share: the ids of operations and of      *)
(* worker connections, and the clock that every now_fn reads.               *)
(***************************************************************************)
EXTENDS Naturals, FiniteSets

CONSTANTS
  OperationId,    \* server side ids; each is handed out at most once (UUIDs)
  WorkerId,       \* one id per worker connection, never used again
  None,           \* the absent value of a map
  MaxTime         \* bound of the clock

ASSUME IdsOK ==
  /\ None \notin OperationId \cup WorkerId
  /\ None \notin Nat
  /\ MaxTime \in Nat

VARIABLE now      \* the clock of now_fn
=============================================================================
