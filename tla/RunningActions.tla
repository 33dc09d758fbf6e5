--------------------------- MODULE RunningActions ---------------------------
(***************************************************************************)
(* The actions of one worker: RunningActionsManagerImpl and RunningAction- *)
(* Impl (nativelink-worker/src/running_actions_manager.rs), driven by      *)
(* LocalWorker (local_worker.rs).  One operation is followed through its   *)
(* dispatches to this worker: each StartAction makes an attempt, and all   *)
(* attempts share the name of the working directory, the entry of          *)
(* running_actions and the mark of cleaning_up_operations, because all     *)
(* three are keyed by the operation id.                                    *)
(*                                                                         *)
(* An attempt is one spawned task; its cleanup and its write to the action *)
(* cache are tasks of their own that outlive it.  A broken connection      *)
(* drops the tasks' handles (JoinHandleDropGuard aborts them) and kill_all *)
(* waits for running_actions to be empty before the worker reconnects.     *)
(* A blocking file system call of an aborted task is taken to end before   *)
(* the task is dropped.                                                    *)
(***************************************************************************)
EXTENDS Naturals, FiniteSets

CONSTANTS
  MaxAttempts,    \* dispatches of the operation to this worker
  MaxBreaks,      \* broken connections
  Prompt          \* the schedulings considered, a subset of BOOLEAN: TRUE, a spawned
                  \* cleanup has started before the operation comes back, and an
                  \* aborted task in transit ends within ACTIONS_IN_TRANSIT_TIMEOUT_S

ASSUME RaOK ==
  /\ MaxAttempts \in Nat \ {0}
  /\ MaxBreaks \in Nat
  /\ Prompt \in SUBSET BOOLEAN \ {{}}

VARIABLES
  prompt,      \* the scheduling of this behaviour
  sent,        \* StartActions received
  sched,       \* what the scheduler makes of the operation here
  pc,          \* the task of each attempt
  outcome,     \* the result it computed
  cancelled,   \* RunningActionImpl.cancelled
  clean,       \* its cleanup, by cleanup() or by Drop
  ac,          \* its write to the action cache
  entry,       \* running_actions: the attempt the Weak points to, 0 for none
  cleaning,    \* whether the operation is in cleaning_up_operations
  dir,         \* the attempt that made the directory of the operation, 0 for none
  conn,        \* the connection to the scheduler
  breaks,      \* connections lost
  aborting,    \* the attempts whose task handle was dropped
  asked        \* the attempts a KillOperationRequest came for

raVars == <<prompt, sent, sched, pc, outcome, cancelled, clean, ac, entry,
            cleaning, dir, conn, breaks, aborting, asked>>

Attempt == 1..MaxAttempts

(* create_and_add_action runs up to "adding", its attempt is registered from "added" on. *)
InTransit == {"waiting", "stale", "making", "adding"}
Registered == {"added", "working"}
Pc == {"unsent", "publishing", "gone"} \cup InTransit \cup Registered

\* cleanup() is called with a result; without one the cleanup was spawned by Drop.
OwnCleanup(a) == outcome[a] # "none" /\ clean[a] \notin {"none", "done"}

\* Whether a Weak to the attempt upgrades: the task, publish (with a result),
\* cleanup() or the action cache write holds an Arc.
Alive(a) ==
  \/ pc[a] \in Registered
  \/ pc[a] = "publishing" /\ outcome[a] \in {"ok", "aborted"}
  \/ OwnCleanup(a)
  \/ ac[a] = "queued"

Upgrades == entry # 0 /\ Alive(entry)

RaInit ==
  /\ prompt \in Prompt
  /\ sent = 0
  /\ sched = "idle"
  /\ pc = [a \in Attempt |-> "unsent"]
  /\ outcome = [a \in Attempt |-> "none"]
  /\ cancelled = [a \in Attempt |-> FALSE]
  /\ clean = [a \in Attempt |-> "none"]
  /\ ac = [a \in Attempt |-> "none"]
  /\ entry = 0
  /\ cleaning = FALSE
  /\ dir = 0
  /\ conn = "up"
  /\ breaks = 0
  /\ aborting = {}
  /\ asked = {}

(***************************************************************************)
(* StartAction and create_and_add_action.                                  *)
(***************************************************************************)
Started == \A a \in Attempt : clean[a] # "spawned"

StartAction ==
  /\ conn = "up"
  /\ sched = "idle"
  /\ sent < MaxAttempts
  /\ prompt => Started
  /\ sent' = sent + 1
  /\ sched' = "assigned"
  /\ pc' = [pc EXCEPT ![sent + 1] = "waiting"]
  /\ UNCHANGED <<prompt, outcome, cancelled, clean, ac, entry, cleaning, dir, conn,
                 breaks, aborting, asked>>

\* An error of create_and_add_action: the preconditions, the saturated pins, the Action
\* that cannot be loaded, MAX_WAIT, a failed removal, a timeout above the maximum.
\* The directory made so far stays.
CreateFails(a) ==
  /\ pc[a] \in InTransit
  /\ a \notin aborting
  /\ pc' = [pc EXCEPT ![a] = "publishing"]
  /\ UNCHANGED <<prompt, sent, sched, outcome, cancelled, clean, ac, entry, cleaning,
                 dir, conn, breaks, aborting, asked>>

\* The predicate of wait_for_cleanup_if_needed.
MutantCleanupOver == TRUE
CleanupOver == ~cleaning

WaitForCleanup(a) ==
  /\ pc[a] = "waiting"
  /\ a \notin aborting
  /\ CleanupOver
  /\ pc' = [pc EXCEPT ![a] = IF dir = 0 THEN "making" ELSE "stale"]
  /\ UNCHANGED <<prompt, sent, sched, outcome, cancelled, clean, ac, entry, cleaning,
                 dir, conn, breaks, aborting, asked>>

RemoveStale(a) ==
  /\ pc[a] = "stale"
  /\ dir' = 0
  /\ pc' = [pc EXCEPT ![a] = "making"]
  /\ UNCHANGED <<prompt, sent, sched, outcome, cancelled, clean, ac, entry, cleaning,
                 conn, breaks, aborting, asked>>

\* make_action_directory: create_dir fails on a directory that exists.
MakeActionDirectory(a) ==
  /\ pc[a] = "making"
  /\ IF dir = 0 THEN dir' = a /\ pc' = [pc EXCEPT ![a] = "adding"]
                ELSE dir' = dir /\ pc' = [pc EXCEPT ![a] = "publishing"]
  /\ UNCHANGED <<prompt, sent, sched, outcome, cancelled, clean, ac, entry, cleaning,
                 conn, breaks, aborting, asked>>

\* The critical section that registers the attempt, or AlreadyExists.  The rejected
\* RunningActionImpl is dropped at once, with did_cleanup and has_manager_entry
\* still TRUE: cleanup_action takes the entry of the operation away.
Register(a) ==
  /\ pc[a] = "adding"
  /\ IF Upgrades THEN entry' = 0 /\ pc' = [pc EXCEPT ![a] = "publishing"]
                 ELSE entry' = a /\ pc' = [pc EXCEPT ![a] = "added"]
  /\ UNCHANGED <<prompt, sent, sched, outcome, cancelled, clean, ac, cleaning, dir,
                 conn, breaks, aborting, asked>>

(***************************************************************************)
(* The phases of a registered attempt.                                     *)
(***************************************************************************)
\* prepare_action makes the work directory inside the attempt's directory and then
\* marks the cleanup as owed (did_cleanup).
Prepare(a) ==
  /\ pc[a] = "added"
  /\ a \notin aborting
  /\ dir # 0
  /\ pc' = [pc EXCEPT ![a] = "working"]
  /\ UNCHANGED <<prompt, sent, sched, outcome, cancelled, clean, ac, entry, cleaning,
                 dir, conn, breaks, aborting, asked>>

\* The end of prepare, execute and upload_results: a result, whose cleanup is spawned.
\* A kill ends execute and preempts an upload that is not over yet.
Results(a) ==
  {"error"} \cup (IF pc[a] = "working" /\ dir = a THEN {"ok"} ELSE {})
            \cup (IF pc[a] = "working" /\ cancelled[a] THEN {"aborted"} ELSE {})

MutantFinish(a) ==
  /\ pc[a] = "added"
  /\ a \notin aborting
  /\ clean' = [clean EXCEPT ![a] = "spawned"]
  /\ UNCHANGED <<prompt, sent, sched, pc, outcome, cancelled, ac, entry, cleaning, dir,
                 conn, breaks, aborting, asked>>
Finish(a) ==
  /\ pc[a] \in Registered
  /\ a \notin aborting
  /\ \E r \in Results(a) : outcome' = [outcome EXCEPT ![a] = r]
  /\ pc' = [pc EXCEPT ![a] = "publishing"]
  /\ clean' = [clean EXCEPT ![a] = "spawned"]
  /\ UNCHANGED <<prompt, sent, sched, cancelled, ac, entry, cleaning, dir, conn, breaks,
                 aborting, asked>>

\* The publish closure: the response reaches the scheduler, which retries an error unless
\* it is a missing input; a result is also handed to a detached write to the action
\* cache, if a permit is left.
Publish(a) ==
  /\ pc[a] = "publishing"
  /\ a \notin aborting
  /\ pc' = [pc EXCEPT ![a] = "gone"]
  /\ IF outcome[a] \in {"ok", "aborted"}
       THEN sched' = "done" /\ \E w \in {"queued", "dropped"} : ac' = [ac EXCEPT ![a] = w]
       ELSE sched' \in {"idle", "done"} /\ UNCHANGED ac
  /\ UNCHANGED <<prompt, sent, outcome, cancelled, clean, entry, cleaning, dir, conn,
                 breaks, aborting, asked>>

\* The detached write checks is_cancelled once more.
Suppressed(a) == cancelled[a]

WriteActionCache(a) ==
  /\ ac[a] = "queued"
  /\ ac' = [ac EXCEPT ![a] = IF Suppressed(a) THEN "suppressed" ELSE "written"]
  /\ UNCHANGED <<prompt, sent, sched, pc, outcome, cancelled, clean, entry, cleaning,
                 dir, conn, breaks, aborting, asked>>

(***************************************************************************)
(* do_cleanup, of cleanup() and of Drop.                                   *)
(***************************************************************************)
\* perform_cleanup; a cleanup that finds the mark set is "already happening elsewhere".
PerformCleanup(a) ==
  /\ clean[a] = "spawned"
  /\ cleaning' = TRUE
  /\ clean' = [clean EXCEPT ![a] = IF cleaning THEN "done" ELSE "removing"]
  /\ UNCHANGED <<prompt, sent, sched, pc, outcome, cancelled, ac, entry, dir, conn,
                 breaks, aborting, asked>>

\* bounded_remove_dir_all; the cleanup goes on when it fails.
RemoveDirectory(a) ==
  /\ clean[a] = "removing"
  /\ dir' \in {0, dir}
  /\ clean' = [clean EXCEPT ![a] = "unregistering"]
  /\ UNCHANGED <<prompt, sent, sched, pc, outcome, cancelled, ac, entry, cleaning, conn,
                 breaks, aborting, asked>>

\* cleanup_action removes the entry of the operation, whoever registered it.
CleanupAction(a) ==
  /\ clean[a] = "unregistering"
  /\ entry' = 0
  /\ clean' = [clean EXCEPT ![a] = "releasing"]
  /\ UNCHANGED <<prompt, sent, sched, pc, outcome, cancelled, ac, cleaning, dir, conn,
                 breaks, aborting, asked>>

\* The CleanupGuard is dropped.
Release(a) ==
  /\ clean[a] = "releasing"
  /\ cleaning' = FALSE
  /\ clean' = [clean EXCEPT ![a] = "done"]
  /\ UNCHANGED <<prompt, sent, sched, pc, outcome, cancelled, ac, entry, dir, conn,
                 breaks, aborting, asked>>

(***************************************************************************)
(* Kills and broken connections.                                           *)
(***************************************************************************)
\* kill_operation: an attempt that the entry leads to is cancelled, else the request is
\* only logged.
KillOperation ==
  /\ conn = "up"
  /\ sched = "assigned"
  /\ sent \notin asked
  /\ asked' = asked \cup {sent}
  /\ cancelled' = IF Upgrades THEN [cancelled EXCEPT ![entry] = TRUE] ELSE cancelled
  /\ UNCHANGED <<prompt, sent, sched, pc, outcome, clean, ac, entry, cleaning, dir, conn,
                 breaks, aborting>>

\* LocalWorkerImpl::run returns an error: the handles of its tasks are dropped.
Disconnect ==
  /\ conn = "up"
  /\ breaks < MaxBreaks
  /\ breaks' = breaks + 1
  /\ conn' = "down"
  /\ aborting' = {a \in Attempt : pc[a] \notin {"unsent", "gone"}}
  /\ UNCHANGED <<prompt, sent, sched, pc, outcome, cancelled, clean, ac, entry, cleaning,
                 dir, asked>>

\* An aborted task is dropped at an await.  Drop cleans up in the background when
\* prepare_action has marked it as owed, else it only removes the entry.
MutantDropEntry(a) == entry
DropEntry(a) == IF pc[a] = "added" THEN 0 ELSE entry

Abort(a) ==
  /\ a \in aborting
  /\ pc[a] \notin {"adding", "gone"}
  /\ pc' = [pc EXCEPT ![a] = "gone"]
  /\ clean' = IF pc[a] = "working" THEN [clean EXCEPT ![a] = "spawned"] ELSE clean
  /\ entry' = DropEntry(a)
  /\ UNCHANGED <<prompt, sent, sched, outcome, cancelled, ac, cleaning, dir, conn,
                 breaks, aborting, asked>>

\* The wait for actions_in_transit, which an aborted creation never decrements, ends in
\* its timeout; then kill_all cancels what the entry leads to.
KillAll ==
  /\ conn = "down"
  /\ prompt => \A a \in aborting : pc[a] \notin InTransit
  /\ conn' = "killing"
  /\ cancelled' = IF Upgrades THEN [cancelled EXCEPT ![entry] = TRUE] ELSE cancelled
  /\ UNCHANGED <<prompt, sent, sched, pc, outcome, clean, ac, entry, cleaning, dir,
                 breaks, aborting, asked>>

\* What kill_all waits for.
MutantNoneRunning == TRUE
NoneRunning == entry = 0

\* kill_all returns and the worker registers again; the scheduler has requeued what it
\* had assigned to the lost connection.
Reconnect ==
  /\ conn = "killing"
  /\ NoneRunning
  /\ conn' = "up"
  /\ sched' = IF sched = "assigned" THEN "idle" ELSE sched
  /\ UNCHANGED <<prompt, sent, pc, outcome, cancelled, clean, ac, entry, cleaning, dir,
                 breaks, aborting, asked>>

CreateStep(a) ==
  \/ CreateFails(a) \/ WaitForCleanup(a) \/ RemoveStale(a)
  \/ MakeActionDirectory(a) \/ Register(a)

WorkStep(a) == Prepare(a) \/ Finish(a) \/ Publish(a) \/ Abort(a)

CleanupStep(a) == PerformCleanup(a) \/ RemoveDirectory(a) \/ CleanupAction(a) \/ Release(a)

RaNext ==
  \/ StartAction \/ KillOperation \/ Disconnect \/ KillAll \/ Reconnect
  \/ \E a \in Attempt :
       CreateStep(a) \/ WorkStep(a) \/ CleanupStep(a) \/ WriteActionCache(a)

RaSpec == RaInit /\ [][RaNext]_raVars

\* The runtime polls every ready task and drops every aborted one, and the run loop of
\* the worker goes on.
RaFairness ==
  /\ WF_raVars(KillAll)
  /\ WF_raVars(Reconnect)
  /\ \A a \in Attempt :
       /\ WF_raVars(CreateStep(a))
       /\ WF_raVars(WorkStep(a))
       /\ WF_raVars(CleanupStep(a))
       /\ WF_raVars(WriteActionCache(a))

RaFairSpec == RaSpec /\ RaFairness

(***************************************************************************)
(* Properties.                                                             *)
(***************************************************************************)
\* The types; an attempt is cleaned up or written to the action cache only once its
\* task has left the phases of a registered attempt.
RaTypeOK ==
  /\ prompt \in BOOLEAN
  /\ sent \in 0..MaxAttempts
  /\ sched \in {"idle", "assigned", "done"}
  /\ pc \in [Attempt -> Pc]
  /\ outcome \in [Attempt -> {"none", "ok", "aborted", "error"}]
  /\ cancelled \in [Attempt -> BOOLEAN]
  /\ clean \in [Attempt -> {"none", "spawned", "removing", "unregistering", "releasing", "done"}]
  /\ ac \in [Attempt -> {"none", "queued", "dropped", "suppressed", "written"}]
  /\ entry \in 0..MaxAttempts
  /\ cleaning \in BOOLEAN
  /\ dir \in 0..MaxAttempts
  /\ conn \in {"up", "down", "killing"}
  /\ breaks \in 0..MaxBreaks
  /\ aborting \subseteq Attempt
  /\ asked \subseteq Attempt
  /\ \A a \in Attempt : clean[a] # "none" \/ ac[a] # "none" => pc[a] \in {"publishing", "gone"}

\* While an attempt prepares, executes or uploads, the directory of the operation is the
\* one it made: no stale removal of a later attempt (wait_for_cleanup_if_needed) and no
\* cleanup of an earlier one takes it away.
OwnDirectory ==
  \A a \in Attempt : pc[a] \in Registered => dir = a

\* running_actions leads to every attempt that prepares, executes or uploads, so that a
\* KillOperationRequest and kill_all reach it.
RunningReachable ==
  \A a \in Attempt : pc[a] \in Registered => entry = a

\* When kill_all has returned and the worker is connected again, no attempt of the lost
\* connection still prepares, executes or uploads ("When the future returns the process
\* should be fully killed and cleaned up", kill_all).
KillAllThorough ==
  conn = "up" => \A a \in aborting : pc[a] \notin Registered

\* kill_all returns: the worker connects again after every broken connection.
KillAllReturns == conn = "down" ~> conn = "up"

\* An attempt that a KillOperationRequest came for is not written to the action cache
\* afterwards ("a cancel signal arriving via KillOperationRequest BEFORE this AC write
\* fires must suppress the write", the publish closure of StartAction).
KilledNotCached ==
  [][\A a \in Attempt : ac[a] = "queued" /\ a \in asked => ac'[a] # "written"]_raVars
=============================================================================
