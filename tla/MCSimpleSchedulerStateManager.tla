-------------------- MODULE MCSimpleSchedulerStateManager --------------------
(***************************************************************************)
(* The instance of SimpleSchedulerStateManager for TLC: the behaviours in   *)
(* which two calls of inner_update_operation for two workers race while the *)
(* clock stands, and those in which the clock runs and one call for one     *)
(* worker races the worker and client timeouts.                             *)
(***************************************************************************)
EXTENDS SimpleSchedulerStateManager, TLC

SmSymmetry == Permutations(WorkerId) \cup Permutations(Updater \ {Timer})

Called == {u \in Updater \ {Timer} : call[u] # Idle}

Asking == {u \in Called : call[u].pc # "done"}

Named ==
  ({w \in WorkerId : heartbeat[w] # None} \cup {action[o].worker : o \in Live}
     \cup {call[u].req.worker : u \in Asking}) \ {None}

ClockRuns == now > 0 \/ \E w \in WorkerId : heartbeat[w] # None

OneCaller(u) == Called \subseteq {u}

OneWorker(w) == Named \subseteq {w}

\* The updates the timeouts race with: the others move an action the same way.
TimedUpdate == {"KeepAlive", "Executing", "Completed", "Error"}

RacingCall ==
  \E u \in Updater, w \in WorkerId \cup {None}, o \in OperationId, t \in Update :
    /\ ClockRuns => OneCaller(u) /\ (w # None => OneWorker(w)) /\ t \in TimedUpdate
    /\ CallUpdateOperation(u, [op |-> o, worker |-> w, update |-> t])

MCNext ==
  \/ RacingCall
  \/ (ClientStep \/ EventStep) /\ UNCHANGED <<call, filter, heartbeat>>
  \/ \E u \in Updater : ReadForUpdate(u) \/ CommitUpdate(u)
  \/ /\ Cardinality(Called) <= 1 /\ Cardinality(Named) <= 1
     /\ Tick /\ UNCHANGED <<call, filter, heartbeat>>
  \/ \E w \in WorkerId : OneWorker(w) /\ Cardinality(Called) <= 1 /\ Heartbeat(w)
  \/ \E o \in OperationId : TimeoutOperationId(o)
  \/ \E f \in Filter : FilterCommit(f) \/ FilterReload(f)
  \/ \E f \in Filter, o \in OperationId : FilterOperation(f, o)

MCSpec == SmInit /\ [][MCNext]_smVars
=============================================================================
