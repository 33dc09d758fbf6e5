--------------------- MODULE SimpleSchedulerStateManager ---------------------
(***************************************************************************)
(* The state manager of the scheduler                                       *)
(* (nativelink-scheduler/src/simple_scheduler_state_manager.rs): the        *)
(* read-modify-write loops that move an operation between stages.           *)
(*                                                                         *)
(* A call of inner_update_operation reads the stored action, decides, and   *)
(* commits with the version it read; between the two the database lock is   *)
(* free and every other caller may commit.  A failed version check starts   *)
(* the loop again, at most MAX_UPDATE_RETRIES times.  Calls come from the   *)
(* matching loop, worker connections, evictions and the timeout task; the   *)
(* client timeout of apply_filter_predicate is a second loop of this kind.  *)
(***************************************************************************)
EXTENDS AwaitedActionDb, WorkerRegistry

CONSTANTS
  BoostedKey,                \* the sort key boost_priority gives
  Updater,                   \* concurrent calls of inner_update_operation
  Timer,                     \* the one of them that holds timeout_operation_mux
  Filter,                    \* concurrent runs of apply_filter_predicate
  max_update_retries,        \* MAX_UPDATE_RETRIES
  max_job_retries,
  client_action_timeout,
  no_event_action_timeout,
  max_executing_timeout      \* 0 disables it

VARIABLES
  call,       \* the state of each call of inner_update_operation
  filter      \* the state of each client timeout check

\* UpdateOperationType, with the error codes and the exit status it tells apart:
\* Sigkill is Completed with exit code 9, Backpressure is ResourceExhausted,
\* MissingInputs is FailedPrecondition.
Update == {"KeepAlive", "Executing", "Completed", "Sigkill",
           "Error", "Backpressure", "MissingInputs", "Disconnect"}

Result == {"Ok", "Aborted", "Internal"}

Request == [op : OperationId, worker : WorkerId \cup {None}, update : Update]

Call ==
  [pc : {"idle"}]
    \cup [pc : {"read"}, req : Request, tries : Nat]
    \cup [pc : {"commit"}, req : Request, tries : Nat, new : AwaitedAction]
    \cup [pc : {"done"}, result : Result]

FilterState ==
  [pc : {"idle"}] \cup [pc : {"commit", "reload"}, op : OperationId, tries : Nat,
                        snap : AwaitedAction]

Idle == [pc |-> "idle"]

ASSUME StateManagerConstantsOK ==
  /\ BoostedKey \in SortKey
  /\ Timer \in Updater
  /\ max_update_retries \in Nat \ {0}
  /\ max_job_retries \in Nat
  /\ client_action_timeout \in Nat
  /\ no_event_action_timeout \in Nat
  /\ max_executing_timeout \in Nat
  /\ None \notin [stage : Stage, worker : WorkerId \cup {None}, attempts : Nat]

smVars == <<dbVars, call, filter, heartbeat>>

SmInit ==
  /\ DbInit
  /\ call = [u \in Updater |-> Idle]
  /\ filter = [f \in Filter |-> Idle]
  /\ RegistryInit
-----------------------------------------------------------------------------
(* inner_update_operation.                                                  *)

\* attempts after the update: every failure is charged except backpressure.
Attempts(a, update) ==
  IF update \in {"Sigkill", "Error", "MissingInputs", "Disconnect"}
    THEN a.attempts + 1
    ELSE a.attempts

\* Mutant: the last attempt is granted once more.
OneMoreAttempt(a, update) ==
  CASE update = "KeepAlive" -> a.stage
    [] update = "Executing" -> "Executing"
    [] update \in {"Completed", "MissingInputs"} -> "Completed"
    [] OTHER -> IF Attempts(a, update) > max_job_retries + 1 THEN "Completed" ELSE "Queued"

\* The stage the update asks for.
NewStage(a, update) ==
  CASE update = "KeepAlive" -> a.stage
    [] update = "Executing" -> "Executing"
    [] update \in {"Completed", "MissingInputs"} -> "Completed"
    [] OTHER -> IF Attempts(a, update) > max_job_retries THEN "Completed" ELSE "Queued"

\* The action the update makes of a; a requeued action has no worker, and one
\* requeued after a SIGKILL has the highest priority.
Updated(a, w, update) ==
  LET stage == NewStage(a, update) IN
  IF update = "KeepAlive"
    THEN [a EXCEPT !.workerSeen = now]
    ELSE [a EXCEPT !.stage = stage,
                   !.sortKey = IF update = "Sigkill" /\ stage = "Queued"
                                 THEN BoostedKey ELSE @,
                   !.worker = IF stage = "Queued" THEN None ELSE w,
                   !.attempts = Attempts(a, update),
                   !.workerSeen = now]

\* The update names a worker and the action is held by another one.
WorkerMismatch(a, req) ==
  a.worker # None /\ req.worker # None /\ req.worker # a.worker

AlreadyAssigned(a, req) == req.update = "Executing" /\ a.stage = "Executing"

StartUpdate(u, req) ==
  /\ call[u].pc \in {"idle", "done"}
  /\ call' = [call EXCEPT ![u] = [pc |-> "read", req |-> req, tries |-> 0]]

Return(u, res) ==
  call' = [call EXCEPT ![u] = [pc |-> "done", result |-> res]]

\* One turn of the loop up to the commit: borrow the action and decide.
ReadForUpdate(u) ==
  LET req == call[u].req
      a == action[req.op]
  IN
  /\ call[u].pc = "read"
  /\ IF req.op \notin Live THEN Return(u, "Ok")
     ELSE IF WorkerMismatch(a, req) THEN Return(u, "Aborted")
     ELSE IF IsFinished(a.stage) THEN Return(u, "Ok")
     ELSE IF AlreadyAssigned(a, req) THEN Return(u, "Aborted")
     ELSE call' = [call EXCEPT ![u] =
                     [pc |-> "commit", req |-> req, tries |-> call[u].tries,
                      new |-> Updated(a, req.worker, req.update)]]
  /\ UNCHANGED <<dbVars, filter, heartbeat>>

\* Mutant: the retry commits what the failed turn computed.
RetryWithoutReading(u) ==
  [call[u] EXCEPT !.tries = @ + 1, !.new.version = action[call[u].req.op].version]

\* The next turn after a version conflict.
Retry(u) == [pc |-> "read", req |-> call[u].req, tries |-> call[u].tries + 1]

\* The commit: a version conflict turns the loop, until the turns run out.
CommitUpdate(u) ==
  LET req == call[u].req
      res == UpdateResult(req.op, call[u].new)
  IN
  /\ call[u].pc = "commit"
  /\ UpdateAwaitedAction(req.op, call[u].new)
  /\ IF res = "Aborted" /\ call[u].tries + 1 < max_update_retries
       THEN call' = [call EXCEPT ![u] = Retry(u)]
       ELSE Return(u, res)
  /\ UNCHANGED <<filter, heartbeat>>
-----------------------------------------------------------------------------
(* The worker timeout: a waiting client's changed() checks the operation     *)
(* with should_timeout_operation and calls timeout_operation_id.            *)

\* should_timeout_operation.  Action.timeout is abstracted to 0, no deadline.
ShouldTimeoutOperation(a) ==
  /\ a.stage = "Executing"
  /\ IF IsWorkerAlive(a.worker, no_event_action_timeout)
       THEN max_executing_timeout > 0 /\ a.workerSeen + max_executing_timeout < now
       ELSE a.workerSeen + no_event_action_timeout < now

\* Neither the registry nor the action's own timestamp vouches for its worker.
WorkerSilent(a) ==
  /\ ~IsWorkerAlive(a.worker, no_event_action_timeout)
  /\ a.workerSeen + no_event_action_timeout < now

TimeoutRequest(o) == [op |-> o, worker |-> None, update |-> "Error"]

\* The checks, the second half of them under the mutex, then the call of
\* assign_operation with an error.
TimeoutOperationId(o) ==
  /\ o \in Live
  /\ ShouldTimeoutOperation(action[o])
  /\ action[o].stage = "Executing"
  /\ WorkerSilent(action[o])
  /\ StartUpdate(Timer, TimeoutRequest(o))
  /\ UNCHANGED <<dbVars, filter, heartbeat>>
-----------------------------------------------------------------------------
(* apply_filter_predicate, the client timeout.                              *)

ClientStale(a) == a.clientSeen + client_action_timeout < now

\* A listing borrows the action and finds its clients silent.
FilterOperation(f, o) ==
  /\ filter[f].pc = "idle"
  /\ o \in Live /\ ClientStale(action[o]) /\ ~IsFinished(action[o].stage)
  /\ filter' = [filter EXCEPT ![f] = [pc |-> "commit", op |-> o, tries |-> 1,
                                      snap |-> action[o]]]
  /\ UNCHANGED <<dbVars, call, heartbeat>>

\* The action completed with DeadlineExceeded; its worker is left as it is.
ClientTimedOut(a) == [a EXCEPT !.stage = "Completed", !.workerSeen = now]

FilterCommit(f) ==
  LET o == filter[f].op
      new == ClientTimedOut(filter[f].snap)
  IN
  /\ filter[f].pc = "commit"
  /\ UpdateAwaitedAction(o, new)
  /\ filter' = [filter EXCEPT ![f] =
                  IF UpdateResult(o, new) = "Aborted" /\ @.tries < max_update_retries
                    THEN [@ EXCEPT !.pc = "reload"] ELSE Idle]
  /\ UNCHANGED <<call, heartbeat>>

\* Mutant: the attempt goes on whatever became of the action.
ReloadAnyway(f) ==
  LET o == filter[f].op IN
  /\ filter[f].pc = "reload"
  /\ filter' = [filter EXCEPT ![f] =
                  IF o \in Live
                    THEN [pc |-> "commit", op |-> o, tries |-> filter[f].tries + 1,
                          snap |-> action[o]]
                    ELSE Idle]
  /\ UNCHANGED <<dbVars, call, heartbeat>>

\* After a version conflict the action is read again, and the attempt goes on
\* only if its clients are still silent and it is not finished.  An operation
\* that was dropped meanwhile would only fail the next commit.
FilterReload(f) ==
  LET o == filter[f].op IN
  /\ filter[f].pc = "reload"
  /\ filter' = [filter EXCEPT ![f] =
                  IF o \in Live /\ ClientStale(action[o]) /\ ~IsFinished(action[o].stage)
                    THEN [pc |-> "commit", op |-> o, tries |-> filter[f].tries + 1,
                          snap |-> action[o]]
                    ELSE Idle]
  /\ UNCHANGED <<dbVars, call, heartbeat>>
-----------------------------------------------------------------------------
(* The component with callers that may send any update at any time.         *)

Heartbeat(w) ==
  /\ heartbeat[w] # now
  /\ UpdateWorkerHeartbeat(w)
  /\ UNCHANGED <<dbVars, call, filter>>

\* update_operation always names a worker; assign_operation names one exactly
\* when it assigns, and none when matching failed with some error.  MaxVersion
\* bounds the calls.
CallUpdateOperation(u, req) ==
  /\ u # Timer
  /\ req.worker = None => req.update \in {"Error", "Backpressure", "MissingInputs"}
  /\ req.op \in Live /\ action[req.op].version < MaxVersion
  /\ StartUpdate(u, req)
  /\ UNCHANGED <<dbVars, filter, heartbeat>>

DbStep == (ClientStep \/ EventStep \/ Tick) /\ UNCHANGED <<call, filter, heartbeat>>

SmNext ==
  \/ DbStep
  \/ \E u \in Updater, req \in Request : CallUpdateOperation(u, req)
  \/ \E u \in Updater : ReadForUpdate(u) \/ CommitUpdate(u)
  \/ \E o \in OperationId : TimeoutOperationId(o)
  \/ \E f \in Filter : FilterCommit(f) \/ FilterReload(f)
  \/ \E f \in Filter, o \in OperationId : FilterOperation(f, o)
  \/ \E w \in WorkerId : Heartbeat(w)

SmSpec == SmInit /\ [][SmNext]_smVars

\* Every task of the server is scheduled while it can run, and a client that
\* waits checks its operation for a timeout again and again.
SmFairness ==
  /\ \A u \in Updater : WF_smVars(ReadForUpdate(u) \/ CommitUpdate(u))
  /\ \A f \in Filter : WF_smVars(FilterCommit(f) \/ FilterReload(f))
  /\ \A o \in OperationId : WF_smVars(TimeoutOperationId(o))
  /\ \A o \in OperationId :
       WF_smVars(HandleClientDropped(o) /\ UNCHANGED <<call, filter, heartbeat>>)

SmFairSpec == SmSpec /\ SmFairness
-----------------------------------------------------------------------------
(* Properties.                                                              *)

\* The database and the calls have their types.
SmTypeOK ==
  /\ DbTypeOK
  /\ call \in [Updater -> Call]
  /\ filter \in [Filter -> FilterState]
  /\ RegistryTypeOK

\* An unfinished operation has used at most max_job_retries attempts, and is
\* held by a worker exactly while it executes; no operation is charged more
\* than one attempt over the limit, however the calls interleave.
RetriesBounded ==
  \A o \in Live :
    LET a == action[o] IN
    /\ a.attempts <= max_job_retries + 1
    /\ ~IsFinished(a.stage) => a.attempts <= max_job_retries
    /\ a.stage = "Executing" => a.worker # None
    /\ a.stage = "Queued" => a.worker = None

\* Every stored operation has exactly one sorted entry, in the set of its
\* stage: a match cycle sees a queued operation once and never an executing one.
ListedOnce ==
  \A o \in Live :
    /\ \E p \in SortKey : \A s \in Stage, q \in SortKey :
         <<q, o>> \in sorted[s] <=> s = action[o].stage /\ q = p

\* Once an operation is finished its outcome never changes: a late update, a
\* timeout or a second completion computed from an older value is refused.
FinishedIsFinal ==
  [][\A o \in OperationId :
       (action[o] # None /\ IsFinished(action[o].stage) /\ action'[o] # None) =>
         [action'[o] EXCEPT !.clientSeen = 0] = [action[o] EXCEPT !.clientSeen = 0]]_smVars

\* What the abstract lifecycle sees of a stored action.
Abstraction(a) ==
  IF a = None THEN None
  ELSE [stage |-> a.stage, worker |-> a.worker, attempts |-> a.attempts]

Abstract == INSTANCE OperationLifecycle
              WITH op <- [o \in OperationId |-> Abstraction(action[o])], seen <- used

\* The state manager implements the lifecycle: however reads and commits of
\* concurrent callers interleave, every change of a stored operation is one of
\* its steps.
Lifecycle == Abstract!LifecycleSpec

\* max_executing_timeout is the "maximum time an action can stay in Executing
\* state without any worker update, regardless of worker keepalive status": an
\* operation over it is not left alone.
Overdue(o) ==
  /\ max_executing_timeout > 0
  /\ o \in Live /\ action[o].stage = "Executing"
  /\ action[o].workerSeen + max_executing_timeout < now

OverdueTimedOut == \A o \in OperationId : Overdue(o) ~> ~Overdue(o)
=============================================================================
