--------------------------- MODULE WorkerRegistry ---------------------------
(***************************************************************************)
(* The registry of worker heartbeats                                        *)
(* (nativelink-scheduler/src/worker_registry.rs).  It has a lock of its own *)
(* and is written after the worker pool's lock was released, so that it may *)
(* lag behind the pool.                                                     *)
(***************************************************************************)
EXTENDS SchedulerIds

VARIABLE heartbeat   \* when each worker was last seen (None: not registered)

RegistryInit == heartbeat = [w \in WorkerId |-> None]

\* update_worker_heartbeat and register_worker_with_endpoint
UpdateWorkerHeartbeat(w) == heartbeat' = [heartbeat EXCEPT ![w] = now]

\* Mutant: the entry stays.
KeepRegistered(w) == UNCHANGED heartbeat

\* remove_worker
RegistryRemoveWorker(w) == heartbeat' = [heartbeat EXCEPT ![w] = None]

\* is_worker_alive
IsWorkerAlive(w, timeout) ==
  w # None /\ heartbeat[w] # None /\ heartbeat[w] + timeout > now

RegistryTypeOK == heartbeat \in [WorkerId -> Nat \cup {None}]
=============================================================================
