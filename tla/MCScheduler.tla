----------------------------- MODULE MCScheduler -----------------------------
(***************************************************************************)
(* The safety instance of SimpleScheduler: all ends of an execution with    *)
(* two workers, or one worker and clients that leave, and the clock at      *)
(* rest; or the clock and one worker.                                       *)
(***************************************************************************)
EXTENDS MCSimpleScheduler

CONSTANT TimedKey   \* the clock runs for an action of this key

Seen == {w \in WorkerId : conn[w].pc # "new"}

ClientsStay == \A o \in OperationId : dropped[o] = 0

Keys == {action[o].key : o \in Live}

\* Executions complete, and the worker is neither drained nor leaves unasked.
QuietWorker(w) ==
  /\ w \in Pool => ~worker[w].is_draining
  /\ conn[w].pc \in {"update", "cs2"} => conn[w].update = "Completed"
  /\ conn[w].pc = "cleanup" => w \notin up
  /\ Len(inbox[w]) <= 2
  /\ \A i \in DOMAIN inbox[w] :
       inbox[w][i].kind = "ExecuteResult" => i = 1 /\ inbox[w][i].update = "Completed"

\* The client timeout does not meet an eviction (MCSimpleSchedulerStateManager
\* has it meet every update).
QuietFilters == (\A f \in Filter : filter[f] = Idle) \/ (evict = None /\ sweep = None)

Timed ==
  /\ Keys \subseteq {TimedKey}
  /\ Cardinality(Seen) <= 1
  /\ ClientsStay /\ QuietFilters
  /\ \A w \in Seen : QuietWorker(w)

AtRest ==
  /\ TimedKey \notin Keys
  /\ now = 0 /\ \A f \in Filter : filter[f] = Idle
  /\ Cardinality(Seen) <= 1 \/ ClientsStay

Regime == Timed \/ AtRest
=============================================================================
