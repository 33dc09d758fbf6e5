--------------------------- MODULE AwaitedActionDb ---------------------------
(***************************************************************************)
(* The in-memory store of awaited actions of the scheduler                  *)
(* (nativelink-scheduler/src/memory_awaited_action_db.rs).                  *)
(*                                                                         *)
(* Four maps are kept in step under one lock: operation id -> action,       *)
(* client operation id -> operation id, unique key -> operation id, and one *)
(* ordered set of <<sort key, operation id>> per stage; a fifth map counts  *)
(* the clients of each operation.  Every operation below runs under that    *)
(* lock and is one action.  What is not under the lock is the departure of  *)
(* a client: the evicting map drops the client's entry at any time, the     *)
(* destructor only queues an event, and the event task applies it later.    *)
(***************************************************************************)
EXTENDS SchedulerIds

CONSTANTS
  ClientId,       \* client side ids
  Key,            \* unique qualifiers of actions
  CacheableKey,   \* the qualifiers that are ActionUniqueQualifier::Cacheable
  SortKey,        \* AwaitedActionSortKey
  MaxVersion,     \* bound of the versions of an action
  MaxDropped      \* bound of the departures queued for one operation

Stage == {"Queued", "Executing", "Completed"}

IsFinished(stage) == stage = "Completed"

AwaitedAction ==
  [version : Nat, key : Key, stage : Stage, sortKey : SortKey,
   clientSeen : Nat, worker : WorkerId \cup {None}, attempts : Nat, workerSeen : Nat]

ASSUME ConstantsOK ==
  /\ CacheableKey \subseteq Key
  /\ IsFiniteSet(ClientId)
  /\ None \notin AwaitedAction
  /\ MaxVersion \in Nat
  /\ MaxDropped \in Nat

VARIABLES
  used,       \* operation ids handed out so far
  action,     \* operation_id_to_awaited_action: the value in the watch channel
  clientOp,   \* client_operation_to_awaited_action
  keyOp,      \* action_info_hash_key_to_awaited_action
  sorted,     \* sorted_action_info_hash_keys, one set per stage
  connected,  \* connected_clients_for_operation_id (0: no entry)
  dropped     \* ClientDroppedOperation events not yet handled, per operation

dbVars == <<used, action, clientOp, keyOp, sorted, connected, dropped, now>>

Live == {o \in OperationId : action[o] # None}

\* Mutant: the fields in the other order.
EntrySwapped(o, a) == <<o, a.sortKey>>

\* SortedAwaitedAction: what a stage's ordered set holds for an operation.
Entry(o, a) == <<a.sortKey, o>>

DbInit ==
  /\ used = {}
  /\ action = [o \in OperationId |-> None]
  /\ clientOp = [c \in ClientId |-> None]
  /\ keyOp = [k \in Key |-> None]
  /\ sorted = [s \in Stage |-> {}]
  /\ connected = [o \in OperationId |-> 0]
  /\ dropped = [o \in OperationId |-> 0]
  /\ now = 0
-----------------------------------------------------------------------------
(* add_action.                                                              *)

\* AwaitedAction::new_with_criticality
NewAwaitedAction(k, p) ==
  [version |-> 0, key |-> k, stage |-> "Queued", sortKey |-> p,
   clientSeen |-> now, worker |-> None, attempts |-> 0, workerSeen |-> now]

\* The operation a client asking for k joins, None when a new one is made.
SubscribeTarget(k) == IF k \in CacheableKey THEN keyOp[k] ELSE None

\* Mutants: the new client is not counted; it is counted twice.
CountClientNever(o) == connected
CountClientTwice(o) == [connected EXCEPT ![o] = @ + 2]

CountClient(o) == [connected EXCEPT ![o] = @ + 1]

\* The body of try_subscribe once the key is known to be mapped.  Its three
\* error returns leave the state alone.
TrySubscribe(c, k) ==
  LET o == SubscribeTarget(k) IN
  /\ o # None
  /\ clientOp[c] = None
  /\ o \in Live /\ ~IsFinished(action[o].stage) /\ connected[o] # 0
  /\ connected' = CountClient(o)
  /\ action' = [action EXCEPT ![o].clientSeen = now]
  /\ clientOp' = [clientOp EXCEPT ![c] = o]
  /\ UNCHANGED <<used, keyOp, sorted, dropped, now>>

\* The rest of add_action: a new operation, queued, with one client.
AddAction(c, k, p) ==
  /\ SubscribeTarget(k) = None
  /\ clientOp[c] = None
  /\ \E o \in OperationId \ used :
       LET a == NewAwaitedAction(k, p) IN
       /\ used' = used \cup {o}
       /\ action' = [action EXCEPT ![o] = a]
       /\ connected' = [connected EXCEPT ![o] = 1]
       /\ clientOp' = [clientOp EXCEPT ![c] = o]
       /\ keyOp' = IF k \in CacheableKey THEN [keyOp EXCEPT ![k] = o] ELSE keyOp
       /\ sorted' = [sorted EXCEPT !["Queued"] = @ \cup {Entry(o, a)}]
  /\ UNCHANGED <<dropped, now>>
-----------------------------------------------------------------------------
(* Clients leaving, and the event task.                                     *)

\* The evicting map lets go of a client entry; Drop for ClientAwaitedAction
\* queues ClientDroppedOperation.
ClientDropped(c) ==
  /\ clientOp[c] # None
  /\ dropped[clientOp[c]] < MaxDropped
  /\ dropped' = [dropped EXCEPT ![clientOp[c]] = @ + 1]
  /\ clientOp' = [clientOp EXCEPT ![c] = None]
  /\ UNCHANGED <<used, action, keyOp, sorted, connected, now>>

\* Mutant: the key is freed even if a newer operation claimed it.
FreeKeyAlways(o, a) ==
  IF a.key \in CacheableKey THEN [keyOp EXCEPT ![a.key] = None] ELSE keyOp

\* The key map once operation o is gone: the slot is freed only if it still
\* points to o (dominated_by_self).
FreeKey(o, a) ==
  IF a.key \in CacheableKey /\ keyOp[a.key] = o
    THEN [keyOp EXCEPT ![a.key] = None]
    ELSE keyOp

\* handle_action_events, ClientDroppedOperation: with the last client the
\* operation leaves every map.
HandleClientDropped(o) ==
  /\ dropped[o] > 0
  /\ dropped' = [dropped EXCEPT ![o] = @ - 1]
  /\ IF o \in Live
       THEN LET a == action[o] IN
            /\ connected' = [connected EXCEPT ![o] = @ - 1]
            /\ IF connected[o] - 1 # 0
                 THEN UNCHANGED <<action, keyOp, sorted>>
                 ELSE /\ action' = [action EXCEPT ![o] = None]
                      /\ keyOp' = FreeKey(o, a)
                      /\ sorted' = [sorted EXCEPT ![a.stage] = @ \ {Entry(o, a)}]
       ELSE UNCHANGED <<action, connected, keyOp, sorted>>
  /\ UNCHANGED <<used, clientOp, now>>

\* handle_action_events, ClientKeepAlive: the stored action is changed in
\* place, without a new version and without waking the subscribers.
HandleClientKeepAlive(c) ==
  LET o == clientOp[c] IN
  /\ o # None /\ o \in Live
  /\ action[o].clientSeen # now
  /\ action' = [action EXCEPT ![o].clientSeen = now]
  /\ UNCHANGED <<used, clientOp, keyOp, sorted, connected, dropped, now>>
-----------------------------------------------------------------------------
(* update_awaited_action.                                                   *)

\* What the call returns for the new value of operation o.
UpdateResult(o, new) ==
  LET old == action[o] IN
  IF o \notin Live THEN "Internal"
  ELSE IF old.version # new.version THEN "Aborted"
  ELSE IF old.stage = new.stage THEN "Ok"
  ELSE IF /\ Entry(o, old) \in sorted[old.stage]
          /\ Entry(o, new) \notin sorted[new.stage] THEN "Ok"
  ELSE "Internal"

\* Mutant: the entry keeps the sort key it had (the bug the comment in
\* process_state_changes records).
KeepOldSortKey(o, old, new) ==
  IF old.stage # new.stage /\ Entry(o, old) \in sorted[old.stage]
    THEN [sorted EXCEPT ![old.stage] = @ \ {Entry(o, old)},
                        ![new.stage] = @ \cup {Entry(o, old)}]
    ELSE sorted

\* Mutant: the entry also stays where it was.
KeepOldEntry(o, old, new) ==
  IF old.stage # new.stage /\ Entry(o, old) \in sorted[old.stage]
    THEN [sorted EXCEPT ![new.stage] = @ \cup {Entry(o, new)}]
    ELSE sorted

\* process_state_changes: the entry found under the old stage and sort key
\* moves to the new ones; an entry that is not found is not moved.
ProcessStateChanges(o, old, new) ==
  IF old.stage # new.stage /\ Entry(o, old) \in sorted[old.stage]
    THEN [sorted EXCEPT ![old.stage] = @ \ {Entry(o, old)},
                        ![new.stage] = @ \cup {Entry(o, new)}]
    ELSE sorted

\* process_state_changes_for_hash_key_map
ProcessStateChangesForHashKeyMap(o, new) ==
  IF IsFinished(new.stage) THEN FreeKey(o, new) ELSE keyOp

\* The whole call.  A missing operation or another version changes nothing; a
\* failure to place the sorted entry returns before the value is replaced.
UpdateAwaitedAction(o, new) ==
  /\ LET old == action[o] IN
     IF o \notin Live \/ old.version # new.version
       THEN UNCHANGED <<action, keyOp, sorted>>
       ELSE /\ sorted' = ProcessStateChanges(o, old, new)
            /\ IF UpdateResult(o, new) = "Ok"
                 THEN /\ action' = [action EXCEPT ![o] =
                                      [new EXCEPT !.version = @ + 1]]
                      /\ keyOp' = IF old.stage # new.stage
                                    THEN ProcessStateChangesForHashKeyMap(o, new)
                                    ELSE keyOp
                 ELSE UNCHANGED <<action, keyOp>>
  /\ UNCHANGED <<used, clientOp, connected, dropped, now>>

\* get_range_of_actions over a whole stage: one entry whose operation is gone
\* fails the range.
RangeReadable(stage) == \A e \in sorted[stage] : e[2] \in Live

Tick ==
  /\ now < MaxTime
  /\ now' = now + 1
  /\ UNCHANGED <<used, action, clientOp, keyOp, sorted, connected, dropped>>
-----------------------------------------------------------------------------
(* The component on its own.  The caller of update_awaited_action read some *)
(* earlier value of the action: it keeps the key, never reopens a finished  *)
(* action, and changes the sort key only together with the stage.  The      *)
(* worker, the attempts and the worker's time are only carried.             *)

CallerUpdate(o) ==
  /\ o \in Live /\ ~IsFinished(action[o].stage)
  /\ action[o].version < MaxVersion
  /\ \E v \in 0..action[o].version, s \in Stage, p \in SortKey, t \in 0..now :
       /\ s = action[o].stage => p = action[o].sortKey
       /\ UpdateAwaitedAction(o, [action[o] EXCEPT !.version = v, !.stage = s,
                                                   !.sortKey = p, !.clientSeen = t])

ClientStep ==
  \/ \E c \in ClientId, k \in Key, p \in SortKey : AddAction(c, k, p)
  \/ \E c \in ClientId, k \in Key : TrySubscribe(c, k)
  \/ \E c \in ClientId : ClientDropped(c)

EventStep ==
  \/ \E o \in OperationId : HandleClientDropped(o)
  \/ \E c \in ClientId : HandleClientKeepAlive(c)

DbNext == ClientStep \/ EventStep \/ (\E o \in OperationId : CallerUpdate(o)) \/ Tick

\* The event task runs whenever an event is queued.
DbFairness == \A o \in OperationId : WF_dbVars(HandleClientDropped(o))

DbSafetySpec == DbInit /\ [][DbNext]_dbVars

DbSpec == DbSafetySpec /\ DbFairness
-----------------------------------------------------------------------------
(* Properties.                                                              *)

\* The maps have their types.
DbTypeOK ==
  /\ used \subseteq OperationId
  /\ action \in [OperationId -> AwaitedAction \cup {None}]
  /\ clientOp \in [ClientId -> OperationId \cup {None}]
  /\ keyOp \in [Key -> OperationId \cup {None}]
  /\ sorted \in [Stage -> SUBSET (SortKey \X OperationId)]
  /\ connected \in [OperationId -> Nat]
  /\ dropped \in [OperationId -> Nat]
  /\ now \in Nat

ClientsOf(o) == {c \in ClientId : clientOp[c] = o}

\* The client count of an operation is exactly its client entries plus the
\* departures still queued, it is positive while the operation is stored, and
\* nothing is left of an operation that is not: handle_action_events never
\* decrements a missing count and no client entry dangles.
ConnectedClientsExact ==
  \A o \in OperationId :
    IF o \in Live
      THEN connected[o] = Cardinality(ClientsOf(o)) + dropped[o] /\ connected[o] > 0
      ELSE connected[o] = 0 /\ dropped[o] = 0 /\ ClientsOf(o) = {}

\* The key map names an operation exactly while it is stored, unfinished and
\* cacheable: two requests for one key never run twice at once, and the
\* "already finished. This should never happen" branch of try_subscribe does
\* not happen, whatever order completions, departures and new requests take.
KeyMapExact ==
  \A k \in Key, o \in OperationId :
    keyOp[k] = o <=> /\ o \in Live
                     /\ action[o].key = k /\ k \in CacheableKey
                     /\ ~IsFinished(action[o].stage)

\* Every stored operation has exactly one sorted entry, under its stage and
\* its sort key, and there is no other entry: update_awaited_action never
\* meets "out of sync" and get_range_of_actions never fails.
SortedExact ==
  \A s \in Stage, p \in SortKey, o \in OperationId :
    <<p, o>> \in sorted[s] <=> /\ o \in Live
                              /\ action[o].stage = s /\ action[o].sortKey = p

\* An id that was not handed out yet is in no map: with the two above, what
\* makes the invariants inductive.
LiveWasUsed == Live \subseteq used

\* What holds whatever update_awaited_action is given.
DbCore == DbTypeOK /\ LiveWasUsed /\ ConnectedClientsExact

DbInv == DbCore /\ KeyMapExact /\ SortedExact

\* An operation whose last client left is forgotten, unless another client
\* joins it first: the event task's work is never lost.
OrphanCollected ==
  \A o \in OperationId :
    (o \in Live /\ ClientsOf(o) = {}) ~> (o \notin Live \/ ClientsOf(o) # {})
=============================================================================
