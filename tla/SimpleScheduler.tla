--------------------------- MODULE SimpleScheduler ---------------------------
(***************************************************************************)
(* The scheduler as a whole: the matching loop                              *)
(* (nativelink-scheduler/src/simple_scheduler.rs), the worker connections   *)
(* (nativelink-service/src/worker_api_server.rs) and the workers, on top of *)
(* the state manager, the worker pool and the registry.                     *)
(*                                                                         *)
(* Tasks: the matching loop runs match_action_to_worker_cached for each     *)
(* queued operation it listed; one task per worker connection handles the   *)
(* worker's messages one after the other; the eviction that holds the lock  *)
(* of the pool, the worker timeout and the client timeout are the others.   *)
(* Each of them calls inner_update_operation under its own name in call:    *)
(* an operation id for its match, a worker id for its connection.           *)
(***************************************************************************)
EXTENDS SimpleSchedulerStateManager, WorkerPool, Sequences

CONSTANTS
  Evictor,       \* the caller name of the eviction in progress
  InvalidKey,    \* the keys of actions whose platform properties are refused
  Outcome,       \* how an execution may end: a subset of WorkerOutcome
  MaxInbox       \* bound of the messages of a worker not yet handled

VARIABLES
  match,   \* match_action_to_worker_cached of each operation
  retry,   \* the last match cycle failed: the loop also wakes by itself
  conn,    \* the server's task of each worker connection
  up,      \* the workers whose side of the connection is open
  busy,    \* the operations each worker executes
  inbox    \* the messages of each worker not yet handled

\* The ends of an execution the worker tells apart: results, exit code 9, an
\* error, inputs missing from the CAS, and StartAction refused under pressure.
WorkerOutcome == {"Completed", "Sigkill", "Error", "MissingInputs", "Backpressure"}

ASSUME SchedulerConstantsOK ==
  /\ Updater = OperationId \cup WorkerId \cup {Timer, Evictor}
  /\ InvalidKey \subseteq Key
  /\ Outcome \subseteq WorkerOutcome
  /\ MaxInbox \in Nat

taskVars == <<match, retry, conn, up, busy, inbox>>
vars == <<smVars, poolVars, taskVars>>

Match ==
  [pc : {"idle", "reject"}] \cup [pc : {"listed"}, key : Key]
    \cup [pc : {"assign", "unreserve", "notify"}, worker : WorkerId]

Conn ==
  [pc : {"new", "register", "open", "beat", "cleanup", "remove", "gone"}]
    \cup [pc : {"update", "cs2"}, op : OperationId, update : Update]

Message == [kind : {"ExecuteComplete"}, op : OperationId]
             \cup [kind : {"ExecuteResult"}, op : OperationId, update : Update]

Open == [pc |-> "open"]

SchedInit ==
  /\ SmInit /\ PoolInit
  /\ match = [o \in OperationId |-> Idle]
  /\ retry = FALSE
  /\ conn = [w \in WorkerId |-> [pc |-> "new"]]
  /\ up = {}
  /\ busy = [w \in WorkerId |-> {}]
  /\ inbox = [w \in WorkerId |-> <<>>]
-----------------------------------------------------------------------------
(* The matching loop.                                                       *)

connVars == <<conn, up, busy, inbox>>

MatchGoto(o, m) == match' = [match EXCEPT ![o] = m]

\* get_queued_operations lists the queued operations whose clients are alive.
Listed(o) ==
  /\ \E p \in SortKey : <<p, o>> \in sorted["Queued"]
  /\ action[o].stage = "Queued"
  /\ ~ClientStale(action[o])

\* do_try_match begins when something changed, or 100 ms after it failed.  An
\* entry whose operation is gone fails the listing.
StartCycle ==
  /\ \A o \in OperationId : match[o].pc = "idle"
  /\ wake \/ retry
  /\ wake' = FALSE
  /\ retry' = ~RangeReadable("Queued")
  /\ match' = IF RangeReadable("Queued")
                THEN [o \in OperationId |->
                        IF Listed(o) THEN [pc |-> "listed", key |-> action[o].key] ELSE Idle]
                ELSE match
  /\ UNCHANGED <<smVars, worker, joined, shutting_down, evict, sweep, connVars>>

\* make_platform_properties refuses the action: it is completed with an error.
MatchReject(o) ==
  /\ match[o].pc = "listed" /\ match[o].key \in InvalidKey
  /\ StartUpdate(o, [op |-> o, worker |-> None, update |-> "MissingInputs"])
  /\ MatchGoto(o, [pc |-> "reject"])
  /\ UNCHANGED <<dbVars, filter, heartbeat, poolVars, retry, connVars>>

\* A worker is found and charged, and assign_operation is called.
MatchReserve(o, w) ==
  /\ match[o].pc = "listed" /\ match[o].key \notin InvalidKey
  /\ FindAndReserveWorker(o, w)
  /\ StartUpdate(o, [op |-> o, worker |-> w, update |-> "Executing"])
  /\ MatchGoto(o, [pc |-> "assign", worker |-> w])
  /\ UNCHANGED <<dbVars, filter, heartbeat, retry, connVars>>

MatchNoWorker(o) ==
  /\ match[o].pc = "listed" /\ match[o].key \notin InvalidKey
  /\ FindNoWorker(o)
  /\ MatchGoto(o, Idle)
  /\ UNCHANGED <<smVars, retry, connVars>>

\* assign_operation returned; any error but Aborted also fails the cycle.
MatchAssigned(o) ==
  LET ok == call[o].result = "Ok" IN
  /\ match[o].pc \in {"assign", "reject"} /\ call[o].pc = "done"
  /\ MatchGoto(o, IF match[o].pc = "reject" THEN Idle
                  ELSE [match[o] EXCEPT !.pc = IF ok THEN "notify" ELSE "unreserve"])
  /\ retry' = (retry \/ call[o].result = "Internal")
  /\ call' = [call EXCEPT ![o] = Idle]
  /\ UNCHANGED <<dbVars, filter, heartbeat, poolVars, connVars>>

MatchUnreserve(o) ==
  /\ match[o].pc = "unreserve"
  /\ UnreserveWorker(match[o].worker, o)
  /\ MatchGoto(o, Idle)
  /\ UNCHANGED <<smVars, retry, connVars>>

\* Mutant: a worker drained or quarantined since it was reserved is not told.
NotifyIfStillViable(o) ==
  LET w == match[o].worker IN
  /\ match[o].pc = "notify"
  /\ busy' = IF w \in up \cap Pool /\ ~worker[w].is_draining /\ ~worker[w].quarantined
               THEN [busy EXCEPT ![w] = @ \cup {o}]
               ELSE busy
  /\ MatchGoto(o, Idle)
  /\ UNCHANGED <<smVars, poolVars, retry, conn, up, inbox>>

\* send_reserved_worker_notification: the worker gets StartAction whether it is
\* still in the pool or not, or its channel is closed and it is evicted.
MatchNotify(o) ==
  LET w == match[o].worker IN
  /\ match[o].pc = "notify"
  /\ \/ /\ w \in up
        /\ busy' = [busy EXCEPT ![w] = @ \cup {o}]
        /\ UNCHANGED <<poolVars, retry>>
     \/ /\ w \notin up
        /\ BeginEvict({w}, "Disconnect")
        /\ retry' = TRUE
        /\ UNCHANGED <<busy, worker, joined, shutting_down, sweep, wake>>
  /\ MatchGoto(o, Idle)
  /\ UNCHANGED <<smVars, conn, up, inbox>>

MatchStep(o) ==
  \/ MatchReject(o) \/ MatchNoWorker(o) \/ MatchAssigned(o)
  \/ MatchUnreserve(o) \/ MatchNotify(o)
  \/ \E w \in WorkerId : MatchReserve(o, w)
-----------------------------------------------------------------------------
(* The eviction in progress reports the operations of the worker one by one. *)

EvictCall(o) ==
  /\ evict # None /\ o \in evict.ops
  /\ call[Evictor].pc = "idle"
  /\ StartUpdate(Evictor, [op |-> o, worker |-> evict.worker, update |-> evict.update])
  /\ EvictReported(o)
  /\ UNCHANGED <<dbVars, filter, heartbeat, taskVars>>

EvictReturn ==
  /\ call[Evictor].pc = "done"
  /\ call' = [call EXCEPT ![Evictor] = Idle]
  /\ UNCHANGED <<dbVars, filter, heartbeat, poolVars, taskVars>>

EvictStep ==
  \/ \E o \in OperationId : EvictCall(o)
  \/ EvictReturn
  \/ /\ call[Evictor].pc = "idle"
     /\ EvictDone \/ \E w \in WorkerId : EvictWorker(w)
     /\ UNCHANGED <<smVars, taskVars>>
-----------------------------------------------------------------------------
(* Worker connections: one task per worker handles its messages in order.   *)

ConnGoto(w, c) == conn' = [conn EXCEPT ![w] = c]

\* inner_connect_worker: the worker joins the pool, and the registry after it.
Connect(w) ==
  /\ conn[w].pc = "new"
  /\ AddWorker(w)
  /\ up' = up \cup {w}
  /\ ConnGoto(w, [pc |-> "register"])
  /\ UNCHANGED <<smVars, match, retry, busy, inbox>>

\* The registry is written by add_worker and after a keep-alive.
Register(w) ==
  /\ conn[w].pc \in {"register", "beat"}
  /\ UpdateWorkerHeartbeat(w)
  /\ ConnGoto(w, Open)
  /\ UNCHANGED <<dbVars, call, filter, poolVars, match, retry, up, busy, inbox>>

\* inner_keep_alive.  (One that would change nothing is left out.)
KeepAlive(w) ==
  /\ conn[w].pc = "open" /\ w \in up /\ w \in Pool
  /\ worker[w].seen # now \/ worker[w].quarantined \/ heartbeat[w] # now
  /\ RefreshLifetime(w)
  /\ ConnGoto(w, [pc |-> "beat"])
  /\ UNCHANGED <<smVars, match, retry, up, busy, inbox>>

\* "Worker not found": the worker is told to disconnect and the stream closed.
KeepAliveUnknown(w) ==
  /\ conn[w].pc = "open" /\ w \in up /\ w \notin Pool
  /\ LockFree
  /\ ConnGoto(w, [pc |-> "cleanup"])
  /\ up' = up \ {w}
  /\ busy' = [busy EXCEPT ![w] = {}]
  /\ inbox' = [inbox EXCEPT ![w] = <<>>]
  /\ UNCHANGED <<smVars, poolVars, match, retry>>

Received(w) == inbox' = [inbox EXCEPT ![w] = Tail(@)]

\* execution_complete
HandleExecuteComplete(w) ==
  /\ conn[w].pc = "open" /\ inbox[w] # <<>> /\ Head(inbox[w]).kind = "ExecuteComplete"
  /\ IF w \in Pool THEN Cs1ExecutionComplete(w, Head(inbox[w]).op)
                   ELSE LockFree /\ UNCHANGED poolVars
  /\ Received(w)
  /\ UNCHANGED <<smVars, match, retry, conn, up, busy>>

\* inner_execution_response up to the call of update_operation.
HandleExecuteResult(w) ==
  LET m == Head(inbox[w]) IN
  /\ conn[w].pc = "open" /\ inbox[w] # <<>> /\ m.kind = "ExecuteResult"
  /\ \/ /\ w \notin Pool /\ LockFree
        /\ UNCHANGED <<poolVars, call, conn>>
     \/ /\ Cs1NotRunning(w, m.op)
        /\ UNCHANGED <<call, conn>>
     \/ /\ Cs1Proceed(w, m.op)
        /\ StartUpdate(w, [op |-> m.op, worker |-> w, update |-> m.update])
        /\ ConnGoto(w, [pc |-> "update", op |-> m.op, update |-> m.update])
  /\ Received(w)
  /\ UNCHANGED <<dbVars, filter, heartbeat, match, retry, up, busy>>

\* update_operation returned: an error skips the second critical section.
UpdateReturned(w) ==
  /\ conn[w].pc = "update" /\ call[w].pc = "done"
  /\ ConnGoto(w, IF call[w].result = "Ok" THEN [conn[w] EXCEPT !.pc = "cs2"] ELSE Open)
  /\ call' = [call EXCEPT ![w] = Idle]
  /\ UNCHANGED <<dbVars, filter, heartbeat, poolVars, match, retry, up, busy, inbox>>

FinishUpdate(w) ==
  /\ conn[w].pc = "cs2"
  /\ Cs2(w, conn[w].op, conn[w].update = "Backpressure")
  /\ ConnGoto(w, Open)
  /\ UNCHANGED <<smVars, match, retry, up, busy, inbox>>

\* inner_going_away.  What the worker says afterwards changes nothing, and the
\* end of the stream does not remove it again.
GoingAway(w) ==
  /\ conn[w].pc = "open" /\ w \in up /\ inbox[w] = <<>>
  /\ ConnGoto(w, [pc |-> "cleanup"])
  /\ UNCHANGED <<smVars, poolVars, match, retry, up, busy, inbox>>

StreamEnded(w) ==
  /\ conn[w].pc = "open" /\ w \notin up /\ inbox[w] = <<>>
  /\ ConnGoto(w, [pc |-> "cleanup"])
  /\ UNCHANGED <<smVars, poolVars, match, retry, up, busy, inbox>>

\* remove_worker: the registry forgets the worker, then the pool evicts it.
RemoveFromRegistry(w) ==
  /\ conn[w].pc = "cleanup"
  /\ RegistryRemoveWorker(w)
  /\ ConnGoto(w, [pc |-> "remove"])
  /\ UNCHANGED <<dbVars, call, filter, poolVars, match, retry, up, busy, inbox>>

RemoveFromPool(w) ==
  /\ conn[w].pc = "remove"
  /\ BeginEvict({w}, "Error")
  /\ ConnGoto(w, [pc |-> "gone"])
  /\ UNCHANGED <<smVars, worker, joined, shutting_down, sweep, wake, match, retry, up, busy, inbox>>

ConnStep(w) ==
  \/ Register(w) \/ HandleExecuteComplete(w) \/ HandleExecuteResult(w)
  \/ UpdateReturned(w) \/ FinishUpdate(w) \/ StreamEnded(w)
  \/ RemoveFromRegistry(w) \/ RemoveFromPool(w)
-----------------------------------------------------------------------------
(* Workers.                                                                 *)

\* The messages at the end of an execution, in the order they are sent.
Messages(o, outcome) ==
  LET complete == [kind |-> "ExecuteComplete", op |-> o]
      result(update) == [kind |-> "ExecuteResult", op |-> o, update |-> update]
  IN
  CASE outcome \in {"Completed", "Sigkill"} -> <<result(outcome), complete>>
    [] outcome = "Error" -> <<complete, result("Error")>>
    [] outcome = "MissingInputs" -> <<complete, result("Completed")>>
    [] outcome = "Backpressure" -> <<result("Backpressure")>>

\* An execution ends.  A refusal is not charged, so MaxVersion bounds them.
Finish(w, o, outcome) ==
  LET sent == inbox[w] \o Messages(o, outcome) IN
  /\ w \in up /\ o \in busy[w]
  /\ Len(sent) <= MaxInbox
  /\ outcome = "Backpressure" => o \in Live /\ action[o].version < MaxVersion
  /\ busy' = [busy EXCEPT ![w] = @ \ {o}]
  /\ inbox' = [inbox EXCEPT ![w] = sent]
  /\ UNCHANGED <<smVars, poolVars, match, retry, conn, up>>

\* The worker's side goes away: its executions are killed, and the messages on
\* their way may be lost from some point on.
Disconnect(w) ==
  /\ w \in up
  /\ up' = up \ {w}
  /\ busy' = [busy EXCEPT ![w] = {}]
  /\ \E n \in 0..Len(inbox[w]) : inbox' = [inbox EXCEPT ![w] = SubSeq(@, 1, n)]
  /\ UNCHANGED <<smVars, poolVars, match, retry, conn>>
-----------------------------------------------------------------------------
(* The whole.  A change of the database wakes the matching loop: add_action  *)
(* always, update_awaited_action when it succeeded.                         *)

WakeIf(changed) ==
  /\ wake' = (wake \/ changed)
  /\ UNCHANGED <<worker, joined, shutting_down, evict, sweep, taskVars>>

AddOrSubscribe ==
  /\ \/ \E c \in ClientId, k \in Key, p \in SortKey \ {BoostedKey} : AddAction(c, k, p)
     \/ \E c \in ClientId, k \in Key : TrySubscribe(c, k)
  /\ UNCHANGED <<call, filter, heartbeat>>
  /\ WakeIf(TRUE)

ClientGone ==
  /\ \E c \in ClientId : ClientDropped(c)
  /\ UNCHANGED <<call, filter, heartbeat, poolVars, taskVars>>

HandleEvent ==
  /\ EventStep
  /\ UNCHANGED <<call, filter, heartbeat, poolVars, taskVars>>

CallStep(u) ==
  \/ ReadForUpdate(u) /\ UNCHANGED <<poolVars, taskVars>>
  \/ CommitUpdate(u) /\ WakeIf(UpdateResult(call[u].req.op, call[u].new) = "Ok")

FilterStep ==
  \/ \E f \in Filter : FilterCommit(f)
                         /\ WakeIf(UpdateResult(filter[f].op, ClientTimedOut(filter[f].snap)) = "Ok")
  \/ \E f \in Filter : FilterReload(f) /\ UNCHANGED <<poolVars, taskVars>>
  \/ \E f \in Filter, o \in OperationId :
       FilterOperation(f, o) /\ UNCHANGED <<poolVars, taskVars>>

TimeoutStep == (\E o \in OperationId : TimeoutOperationId(o)) /\ UNCHANGED <<poolVars, taskVars>>

SweepStep == (SweepRead \/ SweepApply) /\ UNCHANGED <<smVars, taskVars>>

AdministrationStep == AdminStep(up) /\ UNCHANGED <<smVars, taskVars>>

TickStep == Tick /\ UNCHANGED <<call, filter, heartbeat, poolVars, taskVars>>

SchedNext ==
  \/ AddOrSubscribe \/ ClientGone \/ HandleEvent
  \/ \E u \in Updater : CallStep(u)
  \/ StartCycle
  \/ \E o \in OperationId : MatchStep(o)
  \/ EvictStep
  \/ \E w \in WorkerId : ConnStep(w) \/ Connect(w) \/ KeepAlive(w) \/ KeepAliveUnknown(w)
  \/ \E w \in WorkerId : "GoingAway" \in AdminCall /\ GoingAway(w)
  \/ \E w \in WorkerId : Disconnect(w)
  \/ \E w \in WorkerId, o \in OperationId, outcome \in Outcome : Finish(w, o, outcome)
  \/ FilterStep \/ TimeoutStep \/ SweepStep \/ AdministrationStep \/ TickStep

SchedSafetySpec == SchedInit /\ [][SchedNext]_vars

\* Every task of the server is scheduled while it can run; nothing is asked of
\* clients, workers and administrators.
SchedFairness ==
  /\ WF_vars(StartCycle)
  /\ WF_vars(EvictStep)
  /\ \A o \in OperationId : WF_vars(MatchStep(o))
  /\ \A u \in Updater : WF_vars(CallStep(u))
  /\ \A w \in WorkerId : WF_vars(ConnStep(w))

SchedSpec == SchedSafetySpec /\ SchedFairness
-----------------------------------------------------------------------------
(* Properties.                                                              *)

\* Everything has its type.
SchedTypeOK ==
  /\ SmTypeOK /\ PoolTypeOK
  /\ match \in [OperationId -> Match]
  /\ retry \in BOOLEAN
  /\ conn \in [WorkerId -> Conn]
  /\ up \subseteq WorkerId
  /\ busy \in [WorkerId -> SUBSET OperationId]
  /\ inbox \in [WorkerId -> Seq(Message)]

\* Somebody still has to end the run of o on w: the match that will send it,
\* the worker, a result on its way, or the connection that handles it.
Attended(w, o) ==
  \/ match[o].pc \in {"assign", "unreserve", "notify"} /\ match[o].worker = w
  \/ o \in busy[w]
  \/ \E i \in DOMAIN inbox[w] : inbox[w][i].kind = "ExecuteResult" /\ inbox[w][i].op = o
  \/ conn[w].pc \in {"update", "cs2"} /\ conn[w].op = o

\* An operation executing on a connected worker of the pool is charged to that
\* worker and somebody will end it: no order of assignments, results, lost
\* connections and departing clients leaves it behind.
ExecutingAttended ==
  \A o \in Live : \A w \in up \cap Pool :
    action[o].stage = "Executing" /\ action[o].worker = w =>
      o \in worker[w].running /\ Attended(w, o)

\* A slot of a connected worker is only taken while somebody will free it: "It
\* is ok if the action was not found. It probably means that the action was
\* dropped, but worker was still processing it" (inner_update_operation).
SlotAttended ==
  \A w \in up \cap Pool : \A o \in worker[w].running : Attended(w, o)

\* The registry vouches for no worker whose connection is gone, and the pool
\* keeps such a worker only until the eviction that has the lock reaches it: its
\* operations are given to others and their timeouts can fire.
GoneIsForgotten ==
  \A w \in WorkerId :
    conn[w].pc = "gone" =>
      /\ heartbeat[w] = None
      /\ w \in Pool => evict # None /\ w \in evict.more

\* An operation waits while a worker that could take it is there only until
\* the matching loop has run again: the wake-ups of both notifies, the retry
\* after a failed cycle and the order of the match steps lose nothing.
CouldTake(o) ==
  /\ LockFree /\ o \in Live /\ action[o].stage = "Queued" /\ ~ClientStale(action[o])
  /\ \E w \in Pool : Viable(worker[w]) /\ o \notin worker[w].running

QueuedMatched == \A o \in OperationId : CouldTake(o) ~> ~CouldTake(o)
=============================================================================
