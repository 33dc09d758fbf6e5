----------------------------- MODULE WorkerPool -----------------------------
(***************************************************************************)
(* The pool of connected workers                                            *)
(* (nativelink-scheduler/src/api_worker_scheduler.rs and worker.rs): which  *)
(* operations each worker is charged with, what is left of its platform     *)
(* properties, and whether the matcher may give it more.                    *)
(*                                                                         *)
(* Every operation runs under the write lock of the pool.  An eviction      *)
(* keeps the lock while it reports each running operation to the state      *)
(* manager, which may take long; everything else takes and frees the lock   *)
(* in one step.  update_action is split in two such steps around a report   *)
(* made without the lock, and remove_timedout_workers decides on a snapshot *)
(* and applies the decision later.                                          *)
(*                                                                         *)
(* The platform properties are one Minimum property, of which each action   *)
(* takes one unit; which of the viable workers is chosen is left open.      *)
(***************************************************************************)
EXTENDS WorkerRegistry

CONSTANTS
  capacity,             \* units of the Minimum property a worker offers
  max_inflight_tasks,   \* 0: no limit
  worker_timeout,       \* worker_timeout_s
  AdminCall             \* the rare calls that happen: a subset of AdminCalls

VARIABLES
  worker,         \* workers: the state of each worker in the pool, None outside
  joined,         \* the ids that were ever added
  shutting_down,
  evict,          \* the eviction that holds the lock, None when it is free
  sweep,          \* the decisions of remove_timedout_workers not yet applied
  wake            \* the permit of worker_change_notify

poolVars == <<worker, joined, shutting_down, evict, sweep, wake>>

Worker ==
  [running : SUBSET OperationId,    \* running_action_infos
   restored : SUBSET OperationId,   \* restored_platform_properties
   avail : Nat,                     \* platform_properties
   is_paused : BOOLEAN,
   paused_due_to_backpressure : BOOLEAN,
   is_draining : BOOLEAN,
   saturated : BOOLEAN,             \* indefinite_pin_saturated
   quarantined : BOOLEAN,           \* quarantined_at
   seen : Nat]                      \* last_update_timestamp

\* What an eviction reports for each operation, and what is left of it: the
\* operations of the worker just removed and the workers still to remove.
Eviction ==
  [update : {"Error", "Disconnect"}, worker : WorkerId \cup {None},
   ops : SUBSET OperationId, more : SUBSET WorkerId]

AdminCalls == {"Shutdown", "GoingAway", "SetDrainWorker", "UpdateSaturation"}

ASSUME PoolConstantsOK ==
  /\ AdminCall \subseteq AdminCalls
  /\ capacity \in Nat
  /\ max_inflight_tasks \in Nat
  /\ worker_timeout \in Nat \ {0}
  /\ None \notin Worker
  /\ None \notin Eviction

Pool == {w \in WorkerId : worker[w] # None}

LockFree == evict = None

PoolInit ==
  /\ worker = [w \in WorkerId |-> None]
  /\ joined = {}
  /\ shutting_down = FALSE
  /\ evict = None
  /\ sweep = None
  /\ wake = FALSE
-----------------------------------------------------------------------------
(* Workers come and go.                                                     *)

\* Worker::new
NewWorker ==
  [running |-> {}, restored |-> {}, avail |-> capacity, is_paused |-> FALSE,
   paused_due_to_backpressure |-> FALSE, is_draining |-> FALSE,
   saturated |-> FALSE, quarantined |-> FALSE, seen |-> now]

\* add_worker; during a shutdown the worker is refused.
AddWorker(w) ==
  /\ LockFree /\ ~shutting_down
  /\ w \notin joined
  /\ worker' = [worker EXCEPT ![w] = NewWorker]
  /\ joined' = joined \cup {w}
  /\ wake' = TRUE
  /\ UNCHANGED <<shutting_down, evict, sweep>>

\* Take the lock to evict the workers ws.
BeginEvict(ws, update) ==
  /\ LockFree
  /\ evict' = [update |-> update, worker |-> None, ops |-> {}, more |-> ws]

\* immediate_evict_worker, up to the reports: the worker leaves the pool.
EvictWorker(w) ==
  /\ evict # None /\ w \in evict.more /\ evict.ops = {}
  /\ evict' = [evict EXCEPT !.worker = w, !.more = @ \ {w},
                            !.ops = IF w \in Pool THEN worker[w].running ELSE {}]
  /\ worker' = [worker EXCEPT ![w] = None]
  /\ wake' = TRUE
  /\ UNCHANGED <<joined, shutting_down, sweep>>

\* One operation of the evicted worker was reported, whatever the answer.
EvictReported(o) ==
  /\ evict # None /\ o \in evict.ops
  /\ evict' = [evict EXCEPT !.ops = @ \ {o}]
  /\ UNCHANGED <<worker, joined, shutting_down, sweep, wake>>

\* The eviction is over and the lock is freed.
EvictDone ==
  /\ evict # None /\ evict.ops = {} /\ evict.more = {}
  /\ evict' = None
  /\ wake' = TRUE
  /\ UNCHANGED <<worker, joined, shutting_down, sweep>>

\* shutdown evicts every worker and holds the lock until it is done.
Shutdown ==
  /\ ~shutting_down
  /\ BeginEvict(Pool, "Disconnect")
  /\ shutting_down' = TRUE
  /\ UNCHANGED <<worker, joined, sweep, wake>>
-----------------------------------------------------------------------------
(* Keep-alives and the sweep of silent workers.                             *)

\* refresh_lifetime; the matcher is not woken.
RefreshLifetime(w) ==
  /\ LockFree /\ w \in Pool
  /\ worker' = [worker EXCEPT ![w].seen = now, ![w].quarantined = FALSE]
  /\ UNCHANGED <<joined, shutting_down, evict, sweep, wake>>

\* Alive by the local timestamp or by the registry.  (Timestamps are seconds
\* since 1970, the subtractions of the code do not saturate.)
WorkerAlive(w) ==
  worker[w].seen + worker_timeout > now \/ IsWorkerAlive(w, worker_timeout)

SweepDecision(w) ==
  IF WorkerAlive(w) THEN "keep"
  ELSE IF worker[w].seen + 2 * worker_timeout <= now THEN "evict"
  ELSE IF worker[w].quarantined THEN "keep" ELSE "quarantine"

\* remove_timedout_workers, the snapshot.
SweepRead ==
  /\ LockFree /\ sweep = None
  /\ \E w \in Pool : SweepDecision(w) # "keep"
  /\ sweep' = [w \in WorkerId |-> IF w \in Pool THEN SweepDecision(w) ELSE "keep"]
  /\ UNCHANGED <<worker, joined, shutting_down, evict, wake>>

\* remove_timedout_workers, the decision applied without a second look.
SweepApply ==
  LET quarantine == {w \in Pool : sweep[w] = "quarantine"}
      remove == {w \in WorkerId : sweep[w] = "evict"}
  IN
  /\ LockFree /\ sweep # None
  /\ worker' = [w \in WorkerId |-> IF w \in quarantine
                                     THEN [worker[w] EXCEPT !.quarantined = TRUE]
                                     ELSE worker[w]]
  /\ wake' = (wake \/ \E w \in WorkerId : sweep[w] = "quarantine")
  /\ IF remove = {} THEN UNCHANGED evict ELSE BeginEvict(remove, "Error")
  /\ sweep' = None
  /\ UNCHANGED <<joined, shutting_down>>
-----------------------------------------------------------------------------
(* What the matcher asks.                                                   *)

Inflight(r) == Cardinality(r.running)

\* Mutant: off by one.
HasSlotOrIsFull(r) == max_inflight_tasks = 0 \/ Inflight(r) <= max_inflight_tasks

HasSlot(r) == max_inflight_tasks = 0 \/ Inflight(r) < max_inflight_tasks

\* Worker::can_accept_work
CanAcceptWork(r) == ~r.is_paused /\ ~r.is_draining /\ HasSlot(r)

\* worker_is_viable and worker_matches
Viable(r) == ~r.quarantined /\ CanAcceptWork(r) /\ ~r.saturated /\ r.avail >= 1

\* Mutant: every pause is lifted.
LiftAnyPause(r) == IF HasSlot(r) THEN [r EXCEPT !.is_paused = FALSE] ELSE r

\* The pre-pass of inner_find_worker_for_action: pauses that came from a
\* capacity check are lifted where there is a slot again.
LiftPause(r) ==
  IF r.is_paused /\ ~r.is_draining /\ ~r.paused_due_to_backpressure /\ HasSlot(r)
    THEN [r EXCEPT !.is_paused = FALSE]
    ELSE r

Lifted == [w \in WorkerId |-> IF w \in Pool THEN LiftPause(worker[w]) ELSE None]

\* prepare_worker_run_action: the worker is charged with the operation.
PrepareWorkerRunAction(r, o) ==
  [r EXCEPT !.running = @ \cup {o}, !.avail = @ - 1]

SomeAcceptsWork == \E w \in Pool : CanAcceptWork(worker[w])

\* find_and_reserve_worker finds worker w for o: the cache-affinity tiers choose
\* from the pool as it is, the last tier after lifting pauses.
FindAndReserveWorker(o, w) ==
  /\ LockFree /\ SomeAcceptsWork
  /\ \E view \in {worker, Lifted} :
       /\ w \in Pool /\ Viable(view[w]) /\ o \notin view[w].running
       /\ worker' = [view EXCEPT ![w] = PrepareWorkerRunAction(@, o)]
  /\ UNCHANGED <<joined, shutting_down, evict, sweep, wake>>

\* It finds none: no worker accepts work, or none is viable even after pauses
\* were lifted, or the chosen one runs o already.
FindNoWorker(o) ==
  /\ LockFree
  /\ \/ ~SomeAcceptsWork /\ UNCHANGED worker
     \/ /\ SomeAcceptsWork
        /\ \A w \in Pool : ~Viable(Lifted[w])
        /\ worker' = Lifted
     \/ /\ SomeAcceptsWork
        /\ \E view \in {worker, Lifted} :
             /\ \E w \in Pool : Viable(view[w]) /\ o \in view[w].running
             /\ worker' = view
  /\ UNCHANGED <<joined, shutting_down, evict, sweep, wake>>

\* Mutant: the units are given back even if they were already.
ReleaseAgain(r, o) ==
  [r EXCEPT !.running = @ \ {o}, !.restored = @ \ {o}, !.avail = @ + 1]

\* The units o holds on r are given back, unless they were already.
Release(r, o) ==
  [r EXCEPT !.running = @ \ {o}, !.restored = @ \ {o},
            !.avail = IF o \in r.restored THEN @ ELSE @ + 1]

\* inner_unreserve_worker
UnreserveWorker(w, o) ==
  /\ LockFree
  /\ worker' = IF w \in Pool /\ o \in worker[w].running
                 THEN [worker EXCEPT ![w] = Release(@, o)]
                 ELSE worker
  /\ UNCHANGED <<joined, shutting_down, evict, sweep, wake>>
-----------------------------------------------------------------------------
(* update_action.                                                           *)

\* Worker::execution_complete
ExecutionComplete(r, o) ==
  [r EXCEPT !.restored = @ \cup {o}, !.avail = @ + 1]

\* The first critical section for ExecutionComplete.
Cs1ExecutionComplete(w, o) ==
  /\ LockFree /\ w \in Pool
  /\ worker' = IF o \in worker[w].running
                 THEN [worker EXCEPT ![w] = ExecutionComplete(@, o)]
                 ELSE worker
  /\ wake' = TRUE
  /\ UNCHANGED <<joined, shutting_down, evict, sweep>>

\* The first critical section for a result of an operation the worker does not
\* run: the worker is evicted.
Cs1NotRunning(w, o) ==
  /\ w \in Pool /\ o \notin worker[w].running
  /\ BeginEvict({w}, "Error")
  /\ UNCHANGED <<worker, joined, shutting_down, sweep, wake>>

\* The first critical section for a result of a running operation: go on.
Cs1Proceed(w, o) ==
  LockFree /\ w \in Pool /\ o \in worker[w].running /\ UNCHANGED poolVars

\* The pause after an action was completed.
PauseIfFull(r, backpressure) ==
  IF (backpressure \/ ~CanAcceptWork(r)) /\ r.running # {}
    THEN [r EXCEPT !.is_paused = TRUE, !.paused_due_to_backpressure = backpressure]
    ELSE r

\* Worker::complete_action
CompleteAction(r, o) ==
  [Release(r, o) EXCEPT !.is_paused = FALSE, !.paused_due_to_backpressure = FALSE]

\* Mutant: the freed slot is not announced.
Cs2WithoutWake(w, o, backpressure) ==
  /\ LockFree
  /\ worker' = IF w \in Pool /\ o \in worker[w].running
                 THEN [worker EXCEPT ![w] = PauseIfFull(CompleteAction(@, o), backpressure)]
                 ELSE worker
  /\ UNCHANGED <<joined, shutting_down, evict, sweep, wake>>

\* The second critical section.
Cs2(w, o, backpressure) ==
  /\ LockFree
  /\ worker' = IF w \in Pool /\ o \in worker[w].running
                 THEN [worker EXCEPT ![w] = PauseIfFull(CompleteAction(@, o), backpressure)]
                 ELSE worker
  /\ wake' = TRUE
  /\ UNCHANGED <<joined, shutting_down, evict, sweep>>
-----------------------------------------------------------------------------
(* Gates.                                                                   *)

\* set_drain_worker
SetDrainWorker(w, b) ==
  /\ LockFree /\ w \in Pool /\ worker[w].is_draining # b
  /\ worker' = [worker EXCEPT ![w].is_draining = b]
  /\ wake' = TRUE
  /\ UNCHANGED <<joined, shutting_down, evict, sweep>>

\* update_worker_indefinite_pin_saturation: only a gate that opens is announced.
UpdateSaturation(w, b) ==
  /\ LockFree /\ w \in Pool /\ worker[w].saturated # b
  /\ worker' = [worker EXCEPT ![w].saturated = b]
  /\ wake' = (wake \/ ~b)
  /\ UNCHANGED <<joined, shutting_down, evict, sweep>>

\* The calls about the workers ws that come from outside the scheduler's tasks.
AdminStep(ws) ==
  \/ "Shutdown" \in AdminCall /\ Shutdown
  \/ \E w \in ws, b \in BOOLEAN : "SetDrainWorker" \in AdminCall /\ SetDrainWorker(w, b)
  \/ \E w \in ws, b \in BOOLEAN : "UpdateSaturation" \in AdminCall /\ UpdateSaturation(w, b)
-----------------------------------------------------------------------------
(* The pool on its own.  The matcher, the connections and the sweeper call   *)
(* it in any order; the one thing asked of a worker is that it reports       *)
(* ExecutionComplete at most once for each time it was given an operation.   *)

PoolTick == now < MaxTime /\ now' = now + 1 /\ UNCHANGED <<poolVars, heartbeat>>

Report(w, o) ==
  \/ o \notin worker[w].restored /\ Cs1ExecutionComplete(w, o)
  \/ Cs1NotRunning(w, o)

PoolStep ==
  \/ \E w \in WorkerId : AddWorker(w) \/ EvictWorker(w) \/ RefreshLifetime(w)
  \/ \E o \in OperationId : EvictReported(o) \/ FindNoWorker(o)
  \/ EvictDone \/ SweepRead \/ SweepApply
  \/ \E w \in WorkerId, o \in OperationId :
       FindAndReserveWorker(o, w) \/ UnreserveWorker(w, o)
  \/ \E w \in Pool, o \in OperationId : Report(w, o)
  \/ \E w \in WorkerId, o \in OperationId, b \in BOOLEAN : Cs2(w, o, b)
  \/ AdminStep(WorkerId)

PoolNext ==
  \/ PoolStep /\ UNCHANGED <<heartbeat, now>>
  \/ \E w \in joined : UpdateWorkerHeartbeat(w) /\ UNCHANGED <<poolVars, now>>
  \/ PoolTick

PoolAloneInit == PoolInit /\ RegistryInit /\ now = 0

PoolSpec == PoolAloneInit /\ [][PoolNext]_<<poolVars, heartbeat, now>>
-----------------------------------------------------------------------------
(* Properties.                                                              *)

\* The pool has its types; in particular the unsigned subtraction of
\* reduce_platform_properties never wraps.
PoolTypeOK ==
  /\ worker \in [WorkerId -> Worker \cup {None}]
  /\ joined \subseteq WorkerId
  /\ shutting_down \in BOOLEAN
  /\ evict \in Eviction \cup {None}
  /\ sweep \in [WorkerId -> {"keep", "quarantine", "evict"}] \cup {None}
  /\ wake \in BOOLEAN

\* The units a worker lacks are those of the operations it is charged with and
\* did not give back: no order of results, completions, failed assignments and
\* evictions loses or duplicates capacity.
PropertiesExact ==
  \A w \in Pool :
    /\ worker[w].restored \subseteq worker[w].running
    /\ worker[w].avail + Cardinality(worker[w].running \ worker[w].restored) = capacity

\* No worker is charged with more operations than max_inflight_tasks.
InflightBounded ==
  max_inflight_tasks # 0 => \A w \in Pool : Inflight(worker[w]) <= max_inflight_tasks

\* A worker paused by its own backpressure is given nothing and stays paused
\* until one of its operations ends or it leaves (paused_due_to_backpressure
\* in worker.rs): the lifting of capacity pauses does not reach it.
BackpressureRespected ==
  [][\A w \in Pool :
       (worker[w].paused_due_to_backpressure /\ worker'[w] # None) =>
         \/ worker'[w].is_paused /\ worker'[w].running \subseteq worker[w].running
         \/ worker[w].running \ worker'[w].running # {}]_poolVars
=============================================================================
