------------------------ MODULE AwaitedActionDbProofs ------------------------
(***************************************************************************)
(* Proofs about AwaitedActionDb, for every set of operations, clients, keys *)
(* and sort keys.                                                           *)
(***************************************************************************)
EXTENDS AwaitedActionDb, FiniteSetTheorems, TLAPS

LEMMA StageType == "Queued" \in Stage /\ "Executing" \in Stage /\ "Completed" \in Stage
BY DEF Stage

\* A new action is an action.
LEMMA NewAwaitedActionType ==
  ASSUME NEW k \in Key, NEW p \in SortKey, now \in Nat
  PROVE  NewAwaitedAction(k, p) \in AwaitedAction
BY ConstantsOK, IdsOK, StageType DEF NewAwaitedAction, AwaitedAction

\* Writing the keep-alive or the version of a stored action leaves an action.
LEMMA TouchType ==
  ASSUME NEW a \in AwaitedAction, NEW t \in Nat
  PROVE  [a EXCEPT !.clientSeen = t] \in AwaitedAction
BY DEF AwaitedAction

LEMMA BumpType ==
  ASSUME NEW a \in AwaitedAction
  PROVE  [a EXCEPT !.version = @ + 1] \in AwaitedAction
BY DEF AwaitedAction

LEMMA LiveType ==
  ASSUME DbTypeOK, NEW o \in Live
  PROVE  /\ o \in OperationId
         /\ action[o] \in AwaitedAction
         /\ action[o].stage \in Stage /\ action[o].key \in Key
         /\ action[o].sortKey \in SortKey /\ action[o].version \in Nat
         /\ Entry(o, action[o]) \in SortKey \X OperationId
BY DEF DbTypeOK, Live, AwaitedAction, Entry

\* update_awaited_action keeps the types, whatever action it is given.
LEMMA UpdateType ==
  ASSUME DbTypeOK, NEW o \in OperationId, NEW new \in AwaitedAction,
         UpdateAwaitedAction(o, new)
  PROVE  DbTypeOK'
<1>1. CASE o \notin Live \/ action[o].version # new.version
  BY <1>1 DEF UpdateAwaitedAction, DbTypeOK
<1>2. CASE o \in Live /\ action[o].version = new.version
  <2> DEFINE old == action[o]
  <2>1. old \in AwaitedAction /\ old.stage \in Stage /\ Entry(o, old) \in SortKey \X OperationId
    BY <1>2, LiveType
  <2>2. new.stage \in Stage /\ new.key \in Key /\ Entry(o, new) \in SortKey \X OperationId
    BY DEF AwaitedAction, Entry
  <2>3. sorted' \in [Stage -> SUBSET (SortKey \X OperationId)]
    BY <1>2, <2>1, <2>2 DEF UpdateAwaitedAction, ProcessStateChanges, DbTypeOK
  <2>4. action' \in [OperationId -> AwaitedAction \cup {None}]
    BY <1>2, BumpType DEF UpdateAwaitedAction, DbTypeOK
  <2>5. keyOp' \in [Key -> OperationId \cup {None}]
    BY <1>2, <2>2 DEF UpdateAwaitedAction, ProcessStateChangesForHashKeyMap, FreeKey, DbTypeOK
  <2> QED
    BY <2>3, <2>4, <2>5 DEF UpdateAwaitedAction, DbTypeOK
<1> QED
  BY <1>1, <1>2

\* The value a caller hands to update_awaited_action is an action.
LEMMA CallerUpdatePick ==
  ASSUME DbTypeOK, NEW o \in OperationId, CallerUpdate(o)
  PROVE  \E new \in AwaitedAction :
           /\ UpdateAwaitedAction(o, new)
           /\ o \in Live /\ ~IsFinished(action[o].stage)
           /\ new.key = action[o].key
           /\ new.stage = action[o].stage => new.sortKey = action[o].sortKey
<1>1. PICK v \in 0..action[o].version, s \in Stage, p \in SortKey, t \in 0..now :
        /\ s = action[o].stage => p = action[o].sortKey
        /\ UpdateAwaitedAction(o, [action[o] EXCEPT !.version = v, !.stage = s,
                                                    !.sortKey = p, !.clientSeen = t])
  BY ZenonT(60) DEF CallerUpdate
<1> DEFINE new == [action[o] EXCEPT !.version = v, !.stage = s,
                                    !.sortKey = p, !.clientSeen = t]
<1>2. o \in Live /\ ~IsFinished(action[o].stage)
  BY DEF CallerUpdate
<1>3. action[o] \in AwaitedAction /\ action[o].version \in Nat
  BY <1>2, LiveType
<1>4. v \in Nat /\ t \in Nat
  BY <1>3 DEF DbTypeOK
<1>5. new \in AwaitedAction /\ new.key = action[o].key /\ new.stage = s /\ new.sortKey = p
  BY ZenonT(60), <1>3, <1>4 DEF AwaitedAction
<1>6. UpdateAwaitedAction(o, new)
  BY <1>1
<1> HIDE DEF new
<1> QED
  BY <1>1, <1>2, <1>5, <1>6

\* Every step keeps the types; the decrement of a client count needs the count
\* of a stored operation to be positive.
LEMMA DbTypeStep ==
  ASSUME DbTypeOK, ConnectedClientsExact, [DbNext]_dbVars
  PROVE  DbTypeOK'
<1> USE ConstantsOK, IdsOK
<1>1. ASSUME NEW c \in ClientId, NEW k \in Key, NEW p \in SortKey, AddAction(c, k, p)
      PROVE  DbTypeOK'
  <2>1. PICK o \in OperationId \ used :
          /\ used' = used \cup {o}
          /\ action' = [action EXCEPT ![o] = NewAwaitedAction(k, p)]
          /\ connected' = [connected EXCEPT ![o] = 1]
          /\ clientOp' = [clientOp EXCEPT ![c] = o]
          /\ keyOp' = IF k \in CacheableKey THEN [keyOp EXCEPT ![k] = o] ELSE keyOp
          /\ sorted' = [sorted EXCEPT !["Queued"] = @ \cup {Entry(o, NewAwaitedAction(k, p))}]
    BY ZenonT(60), <1>1 DEF AddAction
  <2>2. NewAwaitedAction(k, p) \in AwaitedAction
    BY NewAwaitedActionType DEF DbTypeOK
  <2>3. Entry(o, NewAwaitedAction(k, p)) \in SortKey \X OperationId
    BY DEF Entry, NewAwaitedAction
  <2> QED
    BY SMTT(60), <1>1, <2>1, <2>2, <2>3, StageType DEF AddAction, DbTypeOK
<1>2. ASSUME NEW c \in ClientId, NEW k \in Key, TrySubscribe(c, k)
      PROVE  DbTypeOK'
  <2> DEFINE o == SubscribeTarget(k)
  <2>1. o \in Live /\ o \in OperationId
    BY <1>2 DEF TrySubscribe, Live
  <2>2. action[o] \in AwaitedAction /\ now \in Nat
    BY <2>1, LiveType DEF DbTypeOK
  <2>3. [action[o] EXCEPT !.clientSeen = now] \in AwaitedAction
    BY <2>2, TouchType
  <2>4. action' = [action EXCEPT ![o] = [action[o] EXCEPT !.clientSeen = now]]
    BY <1>2 DEF TrySubscribe
  <2>5. connected' \in [OperationId -> Nat]
    BY <1>2, <2>1 DEF TrySubscribe, CountClient, DbTypeOK
  <2> HIDE DEF o
  <2>6. action' \in [OperationId -> AwaitedAction \cup {None}]
    BY <2>1, <2>3, <2>4 DEF DbTypeOK
  <2> QED
    BY <1>2, <2>1, <2>5, <2>6 DEF TrySubscribe, DbTypeOK, o
<1>3. ASSUME NEW c \in ClientId, ClientDropped(c)
      PROVE  DbTypeOK'
  BY <1>3 DEF ClientDropped, DbTypeOK
<1>4. ASSUME NEW o \in OperationId, HandleClientDropped(o)
      PROVE  DbTypeOK'
  <2>1. dropped' \in [OperationId -> Nat]
    BY <1>4 DEF HandleClientDropped, DbTypeOK
  <2>2. CASE o \notin Live
    BY <1>4, <2>1, <2>2 DEF HandleClientDropped, DbTypeOK
  <2>3. CASE o \in Live
    <3>1. connected' \in [OperationId -> Nat]
      <4>1. connected[o] \in Nat /\ connected[o] > 0
        BY <2>3 DEF DbTypeOK, ConnectedClientsExact
      <4> QED
        BY <1>4, <2>3, <4>1 DEF HandleClientDropped, DbTypeOK
    <3>2. /\ action[o].stage \in Stage
          /\ action[o].key \in Key
      BY <2>3, LiveType
    <3>3. keyOp' \in [Key -> OperationId \cup {None}]
      BY <1>4, <2>3, <3>2 DEF HandleClientDropped, FreeKey, DbTypeOK
    <3>4. sorted' \in [Stage -> SUBSET (SortKey \X OperationId)]
      BY <1>4, <2>3, <3>2 DEF HandleClientDropped, DbTypeOK
    <3>5. action' \in [OperationId -> AwaitedAction \cup {None}]
      BY <1>4, <2>3 DEF HandleClientDropped, DbTypeOK
    <3> QED
      BY <1>4, <2>1, <3>1, <3>3, <3>4, <3>5 DEF HandleClientDropped, DbTypeOK
  <2> QED
    BY <2>2, <2>3
<1>5. ASSUME NEW c \in ClientId, HandleClientKeepAlive(c)
      PROVE  DbTypeOK'
  BY <1>5, LiveType, TouchType DEF HandleClientKeepAlive, DbTypeOK
<1>6. ASSUME NEW o \in OperationId, CallerUpdate(o)
      PROVE  DbTypeOK'
  BY <1>6, CallerUpdatePick, UpdateType
<1>7. CASE Tick
  BY <1>7 DEF Tick, DbTypeOK
<1>8. CASE UNCHANGED dbVars
  BY <1>8 DEF dbVars, DbTypeOK
<1> QED
  BY <1>1, <1>2, <1>3, <1>4, <1>5, <1>6, <1>7, <1>8 DEF DbNext, ClientStep, EventStep
-----------------------------------------------------------------------------
(* The client counts.                                                       *)

LEMMA ClientsOfFinite ==
  ASSUME NEW o
  PROVE  IsFiniteSet(ClientsOf(o)) /\ Cardinality(ClientsOf(o)) \in Nat
<1>1. ClientsOf(o) \subseteq ClientId
  BY DEF ClientsOf
<1> QED
  BY <1>1, ConstantsOK, IdsOK, FS_Subset, FS_CardinalityType

\* A client entry names a stored operation.
LEMMA ClientOpLive ==
  ASSUME DbTypeOK, ConnectedClientsExact, NEW c \in ClientId, clientOp[c] # None
  PROVE  clientOp[c] \in Live
<1>1. clientOp[c] \in OperationId /\ c \in ClientsOf(clientOp[c])
  BY DEF DbTypeOK, ClientsOf
<1> QED
  BY <1>1 DEF ConnectedClientsExact

LEMMA CountsAddAction ==
  ASSUME DbCore, NEW c \in ClientId, NEW k \in Key, NEW p \in SortKey, AddAction(c, k, p)
  PROVE  ConnectedClientsExact'
<1>1. PICK o \in OperationId \ used :
        /\ action' = [action EXCEPT ![o] = NewAwaitedAction(k, p)]
        /\ connected' = [connected EXCEPT ![o] = 1]
        /\ clientOp' = [clientOp EXCEPT ![c] = o]
  BY ZenonT(60) DEF AddAction
<1>2. clientOp[c] = None /\ UNCHANGED dropped
  BY DEF AddAction
<1>3. o \notin Live
  BY DEF DbCore, LiveWasUsed
<1>4. NewAwaitedAction(k, p) # None
  BY NewAwaitedActionType, ConstantsOK, IdsOK DEF DbCore, DbTypeOK
<1>5. Live' = Live \cup {o}
  BY <1>1, <1>4 DEF Live, DbCore, DbTypeOK
<1>6. ClientsOf(o) = {} /\ dropped[o] = 0
  BY <1>3 DEF DbCore, ConnectedClientsExact
<1>7. ClientsOf(o)' = {c}
  BY <1>1, <1>6 DEF ClientsOf, DbCore, DbTypeOK
<1>8. Cardinality({c}) = 1
  BY ZenonT(60), FS_Singleton
<1>9. ASSUME NEW x \in OperationId, x # o
      PROVE  ClientsOf(x)' = ClientsOf(x)
  BY <1>1, <1>2, <1>9, ConstantsOK, IdsOK DEF ClientsOf, DbCore, DbTypeOK
<1>10. ASSUME NEW x \in OperationId
       PROVE  IF x \in Live'
                THEN connected'[x] = Cardinality(ClientsOf(x)') + dropped'[x] /\ connected'[x] > 0
                ELSE connected'[x] = 0 /\ dropped'[x] = 0 /\ ClientsOf(x)' = {}
  <2>1. CASE x = o
    <3>1. connected'[o] = 1 /\ dropped'[o] = 0 /\ o \in Live'
      BY <1>1, <1>2, <1>5, <1>6 DEF DbCore, DbTypeOK
    <3>2. Cardinality(ClientsOf(o)') = 1
      BY <1>7, <1>8
    <3> QED
      BY <2>1, <3>1, <3>2
  <2>2. CASE x # o
    BY <1>1, <1>2, <1>5, <1>9, <2>2 DEF DbCore, DbTypeOK, ConnectedClientsExact
  <2> QED
    BY <2>1, <2>2
<1> QED
  BY <1>10 DEF ConnectedClientsExact

LEMMA CountsTrySubscribe ==
  ASSUME DbCore, NEW c \in ClientId, NEW k \in Key, TrySubscribe(c, k)
  PROVE  ConnectedClientsExact'
<1>1. PICK o : /\ o = SubscribeTarget(k)
               /\ o \in Live
               /\ clientOp[c] = None
               /\ connected' = [connected EXCEPT ![o] = @ + 1]
               /\ action' = [action EXCEPT ![o].clientSeen = now]
               /\ clientOp' = [clientOp EXCEPT ![c] = o]
               /\ UNCHANGED dropped
  BY ZenonT(60) DEF TrySubscribe, CountClient
<1>2. o \in OperationId
  BY <1>1 DEF Live
<1>3. Live' = Live
  <2>1. [action[o] EXCEPT !.clientSeen = now] # None
    BY <1>1, LiveType, TouchType, ConstantsOK, IdsOK DEF DbCore, DbTypeOK
  <2> QED
    BY <1>1, <1>2, <2>1 DEF Live, DbCore, DbTypeOK
<1>4. ClientsOf(o)' = ClientsOf(o) \cup {c} /\ c \notin ClientsOf(o)
  BY <1>1, <1>2, ConstantsOK, IdsOK DEF ClientsOf, DbCore, DbTypeOK
<1>5. Cardinality(ClientsOf(o)') = Cardinality(ClientsOf(o)) + 1
  BY <1>4, ClientsOfFinite, FS_AddElement
<1>6. ASSUME NEW x \in OperationId, x # o
      PROVE  ClientsOf(x)' = ClientsOf(x)
  BY <1>1, <1>6, ConstantsOK, IdsOK DEF ClientsOf, DbCore, DbTypeOK
<1>7. ASSUME NEW x \in OperationId
      PROVE  IF x \in Live'
               THEN connected'[x] = Cardinality(ClientsOf(x)') + dropped'[x] /\ connected'[x] > 0
               ELSE connected'[x] = 0 /\ dropped'[x] = 0 /\ ClientsOf(x)' = {}
  <2>1. CASE x = o
    BY <1>1, <1>2, <1>3, <1>5, <2>1, ClientsOfFinite DEF DbCore, DbTypeOK, ConnectedClientsExact
  <2>2. CASE x # o
    BY <1>1, <1>3, <1>6, <2>2 DEF DbCore, DbTypeOK, ConnectedClientsExact
  <2> QED
    BY <2>1, <2>2
<1> QED
  BY <1>7 DEF ConnectedClientsExact

LEMMA CountsClientDropped ==
  ASSUME DbCore, NEW c \in ClientId, ClientDropped(c)
  PROVE  ConnectedClientsExact'
<1>1. PICK o : /\ o = clientOp[c] /\ o \in Live
               /\ dropped' = [dropped EXCEPT ![o] = @ + 1]
               /\ clientOp' = [clientOp EXCEPT ![c] = None]
               /\ UNCHANGED <<connected, action>>
  BY ZenonT(60), ClientOpLive DEF ClientDropped, DbCore
<1>2. o \in OperationId /\ Live' = Live
  BY <1>1 DEF Live
<1>3. ClientsOf(o)' = ClientsOf(o) \ {c} /\ c \in ClientsOf(o)
  BY <1>1, <1>2, ConstantsOK, IdsOK DEF ClientsOf, DbCore, DbTypeOK
<1>4. Cardinality(ClientsOf(o)') = Cardinality(ClientsOf(o)) - 1
  BY SMTT(60), <1>3, ClientsOfFinite, FS_RemoveElement
<1>5. ASSUME NEW x \in OperationId, x # o
      PROVE  ClientsOf(x)' = ClientsOf(x)
  BY <1>1, <1>5, ConstantsOK, IdsOK DEF ClientsOf, DbCore, DbTypeOK
<1>6. ASSUME NEW x \in OperationId
      PROVE  IF x \in Live'
               THEN connected'[x] = Cardinality(ClientsOf(x)') + dropped'[x] /\ connected'[x] > 0
               ELSE connected'[x] = 0 /\ dropped'[x] = 0 /\ ClientsOf(x)' = {}
  <2>1. CASE x = o
    BY <1>1, <1>2, <1>4, <2>1, ClientsOfFinite DEF DbCore, DbTypeOK, ConnectedClientsExact
  <2>2. CASE x # o
    BY <1>1, <1>2, <1>5, <2>2 DEF DbCore, DbTypeOK, ConnectedClientsExact
  <2> QED
    BY <2>1, <2>2
<1> QED
  BY <1>6 DEF ConnectedClientsExact

LEMMA CountsHandleClientDropped ==
  ASSUME DbCore, NEW o \in OperationId, HandleClientDropped(o)
  PROVE  ConnectedClientsExact'
<1>1. dropped[o] > 0 /\ dropped' = [dropped EXCEPT ![o] = @ - 1] /\ UNCHANGED clientOp
  BY DEF HandleClientDropped
<1>2. o \in Live
  BY <1>1 DEF DbCore, ConnectedClientsExact
<1>3. connected' = [connected EXCEPT ![o] = @ - 1]
  BY <1>2 DEF HandleClientDropped
<1>4. \A x : ClientsOf(x)' = ClientsOf(x)
  BY <1>1 DEF ClientsOf
<1>5. connected[o] = Cardinality(ClientsOf(o)) + dropped[o]
  BY <1>2 DEF DbCore, ConnectedClientsExact
<1>6. dropped[o] \in Nat /\ Cardinality(ClientsOf(o)) \in Nat
  BY ClientsOfFinite DEF DbCore, DbTypeOK
<1>7. CASE connected[o] - 1 # 0
  <2>1. Live' = Live
    BY <1>2, <1>7 DEF HandleClientDropped, Live
  <2> QED
    BY SMTT(60), <1>1, <1>2, <1>3, <1>4, <1>5, <1>6, <1>7, <2>1 DEF DbCore, DbTypeOK, ConnectedClientsExact
<1>8. CASE connected[o] - 1 = 0
  <2>1. Live' = Live \ {o}
    BY <1>2, <1>8 DEF HandleClientDropped, Live, DbCore, DbTypeOK
  <2>2. Cardinality(ClientsOf(o)) = 0 /\ dropped[o] = 1
    BY <1>1, <1>5, <1>6, <1>8
  <2>3. ClientsOf(o) = {}
    BY <2>2, ClientsOfFinite, FS_EmptySet
  <2> QED
    BY SMTT(60), <1>1, <1>2, <1>3, <1>4, <1>8, <2>1, <2>2, <2>3 DEF DbCore, DbTypeOK, ConnectedClientsExact
<1> QED
  BY <1>7, <1>8
-----------------------------------------------------------------------------
(* The key map and the sorted entries.                                      *)

\* The two invariants, spelled out for one operation.
KeyAt(o) ==
  \A k \in Key :
    keyOp[k] = o <=> /\ o \in Live
                     /\ action[o].key = k /\ k \in CacheableKey
                     /\ ~IsFinished(action[o].stage)

SortedAt(o) ==
  \A s \in Stage, p \in SortKey :
    <<p, o>> \in sorted[s] <=> /\ o \in Live
                              /\ action[o].stage = s /\ action[o].sortKey = p

LEMMA MapsAt ==
  /\ KeyMapExact <=> \A o \in OperationId : KeyAt(o)
  /\ SortedExact <=> \A o \in OperationId : SortedAt(o)
BY SMTT(60) DEF KeyMapExact, SortedExact, KeyAt, SortedAt

LEMMA MapsAddAction ==
  ASSUME DbInv, NEW c \in ClientId, NEW k \in Key, NEW p \in SortKey, AddAction(c, k, p)
  PROVE  LiveWasUsed' /\ KeyMapExact' /\ SortedExact'
<1> DEFINE a == NewAwaitedAction(k, p)
<1>1. PICK o \in OperationId \ used :
        /\ used' = used \cup {o}
        /\ action' = [action EXCEPT ![o] = a]
        /\ keyOp' = IF k \in CacheableKey THEN [keyOp EXCEPT ![k] = o] ELSE keyOp
        /\ sorted' = [sorted EXCEPT !["Queued"] = @ \cup {<<p, o>>}]
  BY ZenonT(60) DEF AddAction, Entry, NewAwaitedAction
<1>2. k \in CacheableKey => keyOp[k] = None
  BY DEF AddAction, SubscribeTarget
<1>3. o \notin Live
  BY DEF DbInv, DbCore, LiveWasUsed
<1>4. a # None /\ a.key = k /\ a.stage = "Queued" /\ a.sortKey = p
  BY NewAwaitedActionType, ConstantsOK, IdsOK DEF DbInv, DbCore, DbTypeOK, NewAwaitedAction
<1> HIDE DEF a
<1>5. Live' = Live \cup {o}
  BY <1>1, <1>4 DEF Live, DbInv, DbCore, DbTypeOK
<1>6. ASSUME NEW x \in OperationId
      PROVE  KeyAt(x)'
  <2>1. KeyAt(x)
    BY MapsAt DEF DbInv, DbCore
  <2>2. CASE x = o
    BY <1>1, <1>3, <1>4, <1>5, <2>1, <2>2 DEF KeyAt, DbInv, DbCore, DbTypeOK, IsFinished
  <2>3. CASE x # o
    BY SMTT(60), <1>1, <1>2, <1>5, <2>1, <2>3, ConstantsOK, IdsOK DEF KeyAt, DbInv, DbCore, DbTypeOK
  <2> QED
    BY <2>2, <2>3
<1>7. ASSUME NEW x \in OperationId
      PROVE  SortedAt(x)'
  <2>1. SortedAt(x)
    BY MapsAt DEF DbInv, DbCore
  <2>2. CASE x = o
    BY <1>1, <1>3, <1>4, <1>5, <2>1, <2>2, StageType DEF SortedAt, DbInv, DbCore, DbTypeOK
  <2>3. CASE x # o
    BY <1>1, <1>5, <2>1, <2>3, StageType DEF SortedAt, DbInv, DbCore, DbTypeOK
  <2> QED
    BY <2>2, <2>3
<1> QED
  BY SMTT(60), <1>1, <1>5, <1>6, <1>7, MapsAt DEF DbInv, DbCore, LiveWasUsed, KeyMapExact, SortedExact, KeyAt, SortedAt

\* A keep-alive changes neither what is stored nor the fields the maps use.
LEMMA MapsTouch ==
  ASSUME DbInv, NEW o \in Live, UNCHANGED <<used, keyOp, sorted>>,
         action' = [action EXCEPT ![o].clientSeen = now]
  PROVE  Live' = Live /\ LiveWasUsed' /\ KeyMapExact' /\ SortedExact'
<1>1. o \in OperationId /\ action[o] \in AwaitedAction
  BY LiveType DEF DbInv, DbCore
<1> DEFINE b == [action[o] EXCEPT !.clientSeen = now]
<1>2. b \in AwaitedAction /\ b # None
  BY <1>1, TouchType, ConstantsOK, IdsOK DEF DbInv, DbCore, DbTypeOK
<1>3. b.key = action[o].key /\ b.stage = action[o].stage /\ b.sortKey = action[o].sortKey
  BY <1>1 DEF AwaitedAction
<1>4. action' = [action EXCEPT ![o] = b]
  OBVIOUS
<1> HIDE DEF b
<1>5. Live' = Live
  BY <1>1, <1>2, <1>4 DEF Live, DbInv, DbCore, DbTypeOK
<1>6. \A x \in OperationId : /\ action'[x].key = action[x].key
                             /\ action'[x].stage = action[x].stage
                             /\ action'[x].sortKey = action[x].sortKey
  BY <1>1, <1>3, <1>4 DEF DbInv, DbCore, DbTypeOK
<1> QED
  BY <1>5, <1>6 DEF DbInv, DbCore, LiveWasUsed, KeyMapExact, SortedExact, IsFinished

LEMMA MapsHandleClientDropped ==
  ASSUME DbInv, NEW o \in OperationId, HandleClientDropped(o)
  PROVE  LiveWasUsed' /\ KeyMapExact' /\ SortedExact'
<1>1. o \in Live
  BY DEF HandleClientDropped, DbInv, DbCore, ConnectedClientsExact
<1>2. CASE connected[o] - 1 # 0
  <2>1. UNCHANGED <<used, action, keyOp, sorted>>
    BY SMTT(60), <1>1, <1>2 DEF HandleClientDropped
  <2> QED
    BY <2>1 DEF DbInv, DbCore, LiveWasUsed, KeyMapExact, SortedExact, Live
<1>3. CASE connected[o] - 1 = 0
  <2>1. /\ action' = [action EXCEPT ![o] = None]
        /\ keyOp' = FreeKey(o, action[o])
        /\ sorted' = [sorted EXCEPT ![action[o].stage] = @ \ {<<action[o].sortKey, o>>}]
        /\ UNCHANGED used
    BY <1>1, <1>3 DEF HandleClientDropped, Entry
  <2>2. Live' = Live \ {o}
    BY <2>1 DEF Live, DbInv, DbCore, DbTypeOK
  <2>3. action[o].stage \in Stage /\ action[o].key \in Key /\ action[o].sortKey \in SortKey
    BY <1>1, LiveType DEF DbInv, DbCore
  <2>4. ASSUME NEW x \in OperationId
        PROVE  KeyAt(x)'
    <3>1. KeyAt(x) /\ KeyAt(o)
      BY SMTT(60), MapsAt DEF DbInv, DbCore
    <3>2. CASE x = o
      BY SMTT(60), <2>1, <2>2, <2>3, <3>1, <3>2, ConstantsOK, IdsOK DEF FreeKey, KeyAt, DbInv, DbCore, DbTypeOK
    <3>3. CASE x # o
      BY <2>1, <2>2, <2>3, <3>1, <3>3, ConstantsOK, IdsOK DEF FreeKey, KeyAt, DbInv, DbCore, DbTypeOK
    <3> QED
      BY <3>2, <3>3
  <2>5. ASSUME NEW x \in OperationId
        PROVE  SortedAt(x)'
    <3>1. SortedAt(x)
      BY MapsAt DEF DbInv, DbCore
    <3>2. CASE x = o
      BY <2>1, <2>2, <2>3, <3>1, <3>2 DEF SortedAt, DbInv, DbCore, DbTypeOK
    <3>3. CASE x # o
      BY SMTT(60), <2>1, <2>2, <2>3, <3>1, <3>3 DEF SortedAt, DbInv, DbCore, DbTypeOK
    <3> QED
      BY <3>2, <3>3
  <2> QED
    BY <2>1, <2>2, <2>4, <2>5 DEF DbInv, DbCore, LiveWasUsed, KeyMapExact, SortedExact, KeyAt, SortedAt
<1> QED
  BY <1>2, <1>3

\* update_awaited_action keeps the maps exact when the caller keeps the key,
\* starts from an unfinished action and moves the sort key only with the stage.
LEMMA MapsUpdate ==
  ASSUME DbInv, NEW o \in Live, NEW new \in AwaitedAction,
         UpdateAwaitedAction(o, new),
         ~IsFinished(action[o].stage),
         new.key = action[o].key,
         new.stage = action[o].stage => new.sortKey = action[o].sortKey
  PROVE  Live' = Live /\ LiveWasUsed' /\ KeyMapExact' /\ SortedExact'
<1>1. CASE action[o].version # new.version
  <2>1. UNCHANGED <<used, action, keyOp, sorted>>
    BY SMTT(60), <1>1 DEF UpdateAwaitedAction
  <2> QED
    BY <2>1 DEF DbInv, DbCore, LiveWasUsed, KeyMapExact, SortedExact, Live
<1>2. CASE action[o].version = new.version
  <2> DEFINE old == action[o]
             b == [new EXCEPT !.version = @ + 1]
  <2>1. /\ o \in OperationId
        /\ old.stage \in Stage /\ old.key \in Key /\ old.sortKey \in SortKey
    BY LiveType DEF DbInv, DbCore
  <2>2. new.stage \in Stage /\ new.sortKey \in SortKey
    BY DEF AwaitedAction
  <2>3. /\ b \in AwaitedAction /\ b # None
        /\ b.key = new.key /\ b.stage = new.stage /\ b.sortKey = new.sortKey
    BY BumpType, ConstantsOK, IdsOK DEF AwaitedAction
  <2>4. SortedAt(o) /\ KeyAt(o)
    BY <2>1, MapsAt DEF DbInv, DbCore
  <2>5. UpdateResult(o, new) = "Ok"
    <3>1. Entry(o, old) \in sorted[old.stage]
      BY <2>1, <2>4 DEF Entry, SortedAt
    <3>2. old.stage # new.stage => Entry(o, new) \notin sorted[new.stage]
      BY <2>1, <2>2, <2>4 DEF Entry, SortedAt
    <3> QED
      BY <1>2, <3>1, <3>2 DEF UpdateResult
  <2>6. /\ action' = [action EXCEPT ![o] = b]
        /\ sorted' = ProcessStateChanges(o, old, new)
        /\ keyOp' = IF old.stage # new.stage
                      THEN ProcessStateChangesForHashKeyMap(o, new) ELSE keyOp
        /\ UNCHANGED used
    BY <1>2, <2>5 DEF UpdateAwaitedAction
  <2> HIDE DEF b
  <2>7. Live' = Live
    BY <2>1, <2>3, <2>6 DEF Live, DbInv, DbCore, DbTypeOK
  <2>8. action'[o] = b /\ \A x \in OperationId : x # o => action'[x] = action[x]
    BY <2>1, <2>6 DEF DbInv, DbCore, DbTypeOK
  <2>9. ASSUME NEW x \in OperationId
        PROVE  KeyAt(x)'
    <3>1. KeyAt(x)
      BY MapsAt DEF DbInv, DbCore
    <3>2. CASE x = o
      <4>1. CASE IsFinished(new.stage)
        <5>1. keyOp' = FreeKey(o, new)
          BY SMTT(60), <2>6, <4>1 DEF ProcessStateChangesForHashKeyMap
        <5>2. \A k \in Key : keyOp'[k] # o
          BY SMTT(60), <2>1, <2>4, <5>1, ConstantsOK, IdsOK DEF FreeKey, KeyAt, DbInv, DbCore, DbTypeOK
        <5> QED
          BY SMTT(60), <2>3, <2>8, <3>2, <4>1, <5>2 DEF KeyAt
      <4>2. CASE ~IsFinished(new.stage)
        <5>1. keyOp' = keyOp
          BY SMTT(60), <2>6, <4>2 DEF ProcessStateChangesForHashKeyMap
        <5> QED
          BY SMTT(60), <2>3, <2>4, <2>7, <2>8, <3>2, <4>2, <5>1 DEF KeyAt
      <4> QED
        BY <4>1, <4>2
    <3>3. CASE x # o
      <4>1. \A k \in Key : keyOp'[k] = x <=> keyOp[k] = x
        BY SMTT(60), <2>1, <2>6, <3>3, ConstantsOK, IdsOK
           DEF ProcessStateChangesForHashKeyMap, FreeKey, DbInv, DbCore, DbTypeOK
      <4> QED
        BY SMTT(60), <2>7, <2>8, <3>1, <3>3, <4>1 DEF KeyAt
    <3> QED
      BY <3>2, <3>3
  <2>10. ASSUME NEW x \in OperationId
         PROVE  SortedAt(x)'
    <3>1. SortedAt(x)
      BY MapsAt DEF DbInv, DbCore
    <3>2. CASE old.stage = new.stage
      <4>1. sorted' = sorted
        BY SMTT(60), <2>6, <3>2 DEF ProcessStateChanges
      <4> QED
        BY <2>3, <2>7, <2>8, <3>1, <3>2, <4>1 DEF SortedAt
    <3>3. CASE old.stage # new.stage
      <4>1. sorted' = [sorted EXCEPT ![old.stage] = @ \ {<<old.sortKey, o>>},
                                     ![new.stage] = @ \cup {<<new.sortKey, o>>}]
        BY SMTT(60), <2>1, <2>4, <2>6, <3>3 DEF ProcessStateChanges, SortedAt, Entry
      <4>2. /\ sorted'[old.stage] = sorted[old.stage] \ {<<old.sortKey, o>>}
            /\ sorted'[new.stage] = sorted[new.stage] \cup {<<new.sortKey, o>>}
            /\ \A s \in Stage : s # old.stage /\ s # new.stage => sorted'[s] = sorted[s]
        BY SMTT(60), <2>1, <2>2, <3>3, <4>1 DEF DbInv, DbCore, DbTypeOK
      <4>3. CASE x = o
        BY SMTT(60), <2>1, <2>2, <2>3, <2>7, <2>8, <3>1, <3>3, <4>2, <4>3 DEF SortedAt
      <4>4. CASE x # o
        BY SMTT(60), <2>7, <2>8, <3>1, <4>2, <4>4 DEF SortedAt
      <4> QED
        BY <4>3, <4>4
    <3> QED
      BY SMTT(60), <3>2, <3>3
  <2> QED
    BY <2>6, <2>7, <2>9, <2>10 DEF DbInv, DbCore, LiveWasUsed, KeyMapExact, SortedExact, KeyAt, SortedAt
<1> QED
  BY SMTT(60), <1>1, <1>2
-----------------------------------------------------------------------------
(* The invariant.                                                           *)

LEMMA DbInitInv == DbInit => DbInv
<1> SUFFICES ASSUME DbInit PROVE DbInv
  OBVIOUS
<1>1. Live = {}
  BY DEF DbInit, Live
<1>2. DbTypeOK
  BY ConstantsOK, IdsOK DEF DbInit, DbTypeOK
<1>3. \A o \in OperationId : ClientsOf(o) = {}
  BY ConstantsOK, IdsOK DEF DbInit, ClientsOf
<1> QED
  BY <1>1, <1>2, <1>3, ConstantsOK, IdsOK
     DEF DbInit, DbInv, DbCore, LiveWasUsed, ConnectedClientsExact, KeyMapExact, SortedExact

\* Steps that leave clients, counts and the set of stored operations alone.
LEMMA CountsUnchanged ==
  ASSUME ConnectedClientsExact, Live' = Live, UNCHANGED <<clientOp, connected, dropped>>
  PROVE  ConnectedClientsExact'
<1>1. \A o : ClientsOf(o)' = ClientsOf(o)
  BY DEF ClientsOf
<1> QED
  BY <1>1 DEF ConnectedClientsExact

\* Steps that leave the actions and their maps alone.
LEMMA MapsUnchanged ==
  ASSUME DbInv, UNCHANGED <<used, action, keyOp, sorted>>
  PROVE  Live' = Live /\ LiveWasUsed' /\ KeyMapExact' /\ SortedExact'
BY DEF DbInv, DbCore, LiveWasUsed, KeyMapExact, SortedExact, Live

\* The core needs nothing of the callers of update_awaited_action: it holds of
\* every step of the database and of every update.
LEMMA CoreStep ==
  ASSUME DbCore, ClientStep \/ EventStep \/ Tick
  PROVE  DbCore'
<1>0. DbTypeOK'
  BY DbTypeStep DEF DbCore, DbNext
<1>1. ASSUME NEW c \in ClientId, NEW k \in Key, NEW p \in SortKey, AddAction(c, k, p)
      PROVE  DbCore'
  <2>1. LiveWasUsed'
    BY <1>1 DEF AddAction, Live, LiveWasUsed, DbCore, DbTypeOK
  <2> QED
    BY <1>0, <1>1, <2>1, CountsAddAction DEF DbCore
<1>2. ASSUME NEW c \in ClientId, NEW k \in Key, TrySubscribe(c, k)
      PROVE  DbCore'
  <2>1. LiveWasUsed'
    BY <1>2 DEF TrySubscribe, Live, LiveWasUsed, DbCore, DbTypeOK
  <2> QED
    BY <1>0, <1>2, <2>1, CountsTrySubscribe DEF DbCore
<1>3. ASSUME NEW c \in ClientId, ClientDropped(c)
      PROVE  DbCore'
  BY ZenonT(60), <1>0, <1>3, CountsClientDropped DEF DbCore, ClientDropped, LiveWasUsed, Live
<1>4. ASSUME NEW o \in OperationId, HandleClientDropped(o)
      PROVE  DbCore'
  <2>1. LiveWasUsed'
    BY <1>4 DEF HandleClientDropped, Live, LiveWasUsed, DbCore, DbTypeOK
  <2> QED
    BY <1>0, <1>4, <2>1, CountsHandleClientDropped DEF DbCore
<1>5. ASSUME NEW c \in ClientId, HandleClientKeepAlive(c)
      PROVE  DbCore'
  <2>1. Live' = Live
    <3>1. clientOp[c] \in Live /\ action' = [action EXCEPT ![clientOp[c]].clientSeen = now]
      BY <1>5 DEF HandleClientKeepAlive
    <3>2. [action[clientOp[c]] EXCEPT !.clientSeen = now] # None
      BY <3>1, LiveType, TouchType, ConstantsOK DEF DbCore, DbTypeOK
    <3> QED
      BY <3>1, <3>2 DEF Live, DbCore, DbTypeOK
  <2> QED
    BY <1>0, <1>5, <2>1, CountsUnchanged DEF DbCore, HandleClientKeepAlive, LiveWasUsed
<1>6. CASE Tick
  BY <1>0, <1>6, CountsUnchanged DEF DbCore, Tick, LiveWasUsed, Live
<1> QED
  BY <1>1, <1>2, <1>3, <1>4, <1>5, <1>6 DEF ClientStep, EventStep

LEMMA CoreUpdate ==
  ASSUME DbCore, NEW o \in OperationId, NEW new \in AwaitedAction,
         UpdateAwaitedAction(o, new)
  PROVE  DbCore' /\ Live' = Live
<1>1. DbTypeOK'
  BY UpdateType DEF DbCore
<1>2. Live' = Live
  <2>1. [new EXCEPT !.version = @ + 1] # None
    BY BumpType, ConstantsOK
  <2> QED
    BY <2>1 DEF UpdateAwaitedAction, Live, DbCore, DbTypeOK
<1>3. UNCHANGED <<used, clientOp, connected, dropped>>
  BY DEF UpdateAwaitedAction
<1> QED
  BY <1>1, <1>2, <1>3, CountsUnchanged DEF DbCore, LiveWasUsed

LEMMA DbStepInv == DbInv /\ [DbNext]_dbVars => DbInv'
<1> SUFFICES ASSUME DbInv, [DbNext]_dbVars PROVE DbInv'
  OBVIOUS
<1>0. DbTypeOK'
  BY DbTypeStep DEF DbInv, DbCore
<1>1. ASSUME NEW c \in ClientId, NEW k \in Key, NEW p \in SortKey, AddAction(c, k, p)
      PROVE  DbInv'
  BY <1>0, <1>1, CountsAddAction, MapsAddAction DEF DbInv, DbCore
<1>2. ASSUME NEW c \in ClientId, NEW k \in Key, TrySubscribe(c, k)
      PROVE  DbInv'
  <2>1. /\ SubscribeTarget(k) \in Live
        /\ UNCHANGED <<used, keyOp, sorted>>
        /\ action' = [action EXCEPT ![SubscribeTarget(k)].clientSeen = now]
    BY <1>2 DEF TrySubscribe
  <2>2. LiveWasUsed' /\ KeyMapExact' /\ SortedExact'
    BY ZenonT(60), <2>1, MapsTouch
  <2> QED
    BY <1>0, <1>2, <2>2, CountsTrySubscribe DEF DbInv, DbCore
<1>3. ASSUME NEW c \in ClientId, ClientDropped(c)
      PROVE  DbInv'
  <2>1. UNCHANGED <<used, action, keyOp, sorted>>
    BY <1>3 DEF ClientDropped
  <2> QED
    BY <1>0, <1>3, <2>1, CountsClientDropped, MapsUnchanged DEF DbInv, DbCore
<1>4. ASSUME NEW o \in OperationId, HandleClientDropped(o)
      PROVE  DbInv'
  BY <1>0, <1>4, CountsHandleClientDropped, MapsHandleClientDropped DEF DbInv, DbCore
<1>5. ASSUME NEW c \in ClientId, HandleClientKeepAlive(c)
      PROVE  DbInv'
  <2>1. /\ clientOp[c] \in Live
        /\ UNCHANGED <<used, keyOp, sorted, clientOp, connected, dropped>>
        /\ action' = [action EXCEPT ![clientOp[c]].clientSeen = now]
    BY <1>5 DEF HandleClientKeepAlive
  <2>2. Live' = Live /\ LiveWasUsed' /\ KeyMapExact' /\ SortedExact'
    BY ZenonT(60), <2>1, MapsTouch
  <2> QED
    BY <1>0, <2>1, <2>2, CountsUnchanged DEF DbInv, DbCore
<1>6. ASSUME NEW o \in OperationId, CallerUpdate(o)
      PROVE  DbInv'
  <2>1. PICK new \in AwaitedAction :
           /\ UpdateAwaitedAction(o, new)
           /\ o \in Live /\ ~IsFinished(action[o].stage)
           /\ new.key = action[o].key
           /\ new.stage = action[o].stage => new.sortKey = action[o].sortKey
    BY SMTT(60), <1>6, CallerUpdatePick DEF DbInv, DbCore
  <2>2. Live' = Live /\ LiveWasUsed' /\ KeyMapExact' /\ SortedExact'
    BY <2>1, MapsUpdate
  <2>3. UNCHANGED <<clientOp, connected, dropped>>
    BY <2>1 DEF UpdateAwaitedAction
  <2> QED
    BY <1>0, <2>2, <2>3, CountsUnchanged DEF DbInv, DbCore
<1>7. CASE Tick
  <2>1. UNCHANGED <<used, action, keyOp, sorted, clientOp, connected, dropped>>
    BY <1>7 DEF Tick
  <2> QED
    BY <1>0, <2>1, CountsUnchanged, MapsUnchanged DEF DbInv, DbCore
<1>8. CASE UNCHANGED dbVars
  <2>1. UNCHANGED <<used, action, keyOp, sorted, clientOp, connected, dropped>>
    BY <1>8 DEF dbVars
  <2> QED
    BY <1>0, <2>1, CountsUnchanged, MapsUnchanged DEF DbInv, DbCore
<1> QED
  BY <1>1, <1>2, <1>3, <1>4, <1>5, <1>6, <1>7, <1>8 DEF DbNext, ClientStep, EventStep

\* The maps of memory_awaited_action_db.rs have their types in every reachable
\* state: in particular no client count is decremented below zero
\* (handle_action_events, `value - 1`).
THEOREM DbTypeCorrect == DbSafetySpec => []DbTypeOK
<1>1. DbInv => DbTypeOK
  BY DEF DbInv, DbCore
<1> QED
  BY <1>1, DbInitInv, DbStepInv, PTL DEF DbSafetySpec

\* The five maps stay in step in every reachable state, for any number of
\* operations, clients, keys and sort keys: client counts are exact, the key map
\* names exactly the unfinished cacheable operations, and every stored
\* operation has exactly one sorted entry.
THEOREM DbMapsExact ==
  DbSafetySpec => [](ConnectedClientsExact /\ KeyMapExact /\ SortedExact)
<1>1. DbInv => ConnectedClientsExact /\ KeyMapExact /\ SortedExact
  BY DEF DbInv, DbCore
<1> QED
  BY <1>1, DbInitInv, DbStepInv, PTL DEF DbSafetySpec
=============================================================================
