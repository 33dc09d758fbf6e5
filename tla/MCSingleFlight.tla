---------------------------- MODULE MCSingleFlight ----------------------------
(* The instance of SingleFlight for TLC. *)
EXTENDS SingleFlight, TLC

MCSize == [k \in Key |-> IF k = "a" THEN 1 ELSE 2]

(* Two callers for one key, one for either.                                *)
MCWants == [c \in Caller |-> IF c = 3 THEN {"a", "b"} ELSE {"a"}]
=============================================================================
