--------------------------- MODULE MCFastSlowStore ---------------------------
(* The instance of FastSlowStore for TLC. *)
EXTENDS FastSlowStore, TLC

MCSize == [d \in Digest |-> 1]

FssSymmetry == Permutations(Writer)

TickIdle == retry = [d \in Digest |-> "none"] /\ cooling = {}

\* Reads are explored between two ticks and before the shutdown, and only while
\* they are sure of their blob; the shutdown without evictions of the slow
\* store and without broadcasts, which it does not look at, and while something
\* is owed.
Regime ==
    /\ \A r \in Reader : reader[r] # IdleReader =>
           /\ reader[r].sure
           /\ TickIdle /\ broadcast = {} /\ unpinning = {}
           /\ flush.at = "off"
    /\ flush.at # "off" => evicted = {} /\ broadcast = {} /\ unpinning = {}
    /\ flush.at \in {"inFlight", "failed"} => flush.owed # {}

\* No write starts while the flush takes its snapshots, and once it has them
\* only writes that land and evictions of the fast store can disturb it.
Step ==
    /\ flush.at \in {"inFlight", "failed"} => writes' = writes
    /\ flush.at = "drain" => flush' # flush \/ \E d \in Digest : FastEvict(d)
    /\ flush.at # "done"
=============================================================================
