------------------------- MODULE StateManagerProofs -------------------------
(***************************************************************************)
(* Proofs about SimpleSchedulerStateManager, for every set of operations,   *)
(* workers and concurrent callers and for every limit.  The argument: what  *)
(* a caller is about to commit is one lifecycle step away from the stored   *)
(* action as long as the version it read is still the stored one, and the   *)
(* version grows with every commit.                                         *)
(***************************************************************************)
EXTENDS SimpleSchedulerStateManager, AwaitedActionDbProofs

\* The part of an action the lifecycle is about.
SameLifecycle(a, b) ==
  b.stage = a.stage /\ b.worker = a.worker /\ b.attempts = a.attempts

\* b is one step of the lifecycle away from a.
Moves(a, b) ==
  /\ ~IsFinished(a.stage)
  /\ \/ SameLifecycle(a, b)
     \/ /\ a.stage = "Queued" /\ b.stage = "Executing"
        /\ b.worker \in WorkerId /\ b.attempts = a.attempts
     \/ /\ b.stage = "Queued" /\ b.worker = None
        /\ b.attempts \in {a.attempts, a.attempts + 1} /\ b.attempts <= max_job_retries
     \/ /\ b.stage = "Completed"
        /\ b.attempts \in {a.attempts, a.attempts + 1}

\* The limits of one stored action.
ActionOK(a) ==
  /\ a.attempts <= max_job_retries + 1
  /\ ~IsFinished(a.stage) => a.attempts <= max_job_retries
  /\ a.stage = "Executing" => a.worker # None
  /\ a.stage = "Queued" => a.worker = None

\* Only assign_operation with an error names no worker.
WellFormed(req) == req.worker = None => req.update \in {"Error", "Backpressure", "MissingInputs"}

\* A value to be committed for o is not newer than the stored one, and when it
\* is as new it is a step away from it.
Commitable(o, new) ==
  o \in Live =>
    /\ new.version <= action[o].version
    /\ new.version = action[o].version => Moves(action[o], new)

CallOK(u) ==
  /\ call[u].pc \in {"read", "commit"} => call[u].req.op \in used /\ WellFormed(call[u].req)
  /\ call[u].pc = "commit" => Commitable(call[u].req.op, call[u].new)

FilterOK(f) ==
  LET o == filter[f].op
      snap == filter[f].snap
  IN
  /\ filter[f].pc \in {"commit", "reload"} => o \in used
  /\ (filter[f].pc = "commit" /\ o \in Live) =>
       /\ snap.version <= action[o].version
       /\ snap.version = action[o].version =>
            ~IsFinished(action[o].stage) /\ SameLifecycle(action[o], snap)

SmInv ==
  /\ SmTypeOK
  /\ DbCore
  /\ RetriesBounded
  /\ \A u \in Updater : CallOK(u)
  /\ \A f \in Filter : FilterOK(f)
-----------------------------------------------------------------------------
(* What a caller computes.                                                  *)

LEMMA RequestFields ==
  ASSUME NEW req \in Request
  PROVE  req.op \in OperationId /\ req.worker \in WorkerId \cup {None} /\ req.update \in Update
BY DEF Request

LEMMA ActionFields ==
  ASSUME NEW a \in AwaitedAction
  PROVE  /\ a.version \in Nat /\ a.key \in Key /\ a.stage \in Stage /\ a.sortKey \in SortKey
         /\ a.clientSeen \in Nat /\ a.worker \in WorkerId \cup {None}
         /\ a.attempts \in Nat /\ a.workerSeen \in Nat
BY DEF AwaitedAction

LEMMA AttemptsType ==
  ASSUME NEW a \in AwaitedAction, NEW update \in Update
  PROVE  /\ Attempts(a, update) \in Nat
         /\ Attempts(a, update) \in {a.attempts, a.attempts + 1}
BY ActionFields DEF Attempts

LEMMA NewStageType ==
  ASSUME NEW a \in AwaitedAction, NEW update \in Update
  PROVE  NewStage(a, update) \in Stage
BY ActionFields, StageType DEF NewStage, Update

\* The value inner_update_operation computes is an action of the same version.
LEMMA UpdatedType ==
  ASSUME NEW a \in AwaitedAction, NEW w \in WorkerId \cup {None}, NEW update \in Update,
         now \in Nat
  PROVE  /\ Updated(a, w, update) \in AwaitedAction
         /\ Updated(a, w, update).version = a.version
<1>1. Attempts(a, update) \in Nat /\ NewStage(a, update) \in Stage
  BY AttemptsType, NewStageType
<1>2. BoostedKey \in SortKey
  BY StateManagerConstantsOK
<1> QED
  BY ZenonT(60), <1>1, <1>2 DEF Updated, AwaitedAction

\* The fields the lifecycle is about.
LEMMA UpdatedFields ==
  ASSUME NEW a \in AwaitedAction, NEW w \in WorkerId \cup {None}, NEW update \in Update
  PROVE  LET b == Updated(a, w, update) IN
         IF update = "KeepAlive" THEN SameLifecycle(a, b)
         ELSE /\ b.stage = NewStage(a, update)
              /\ b.worker = IF NewStage(a, update) = "Queued" THEN None ELSE w
              /\ b.attempts = Attempts(a, update)
BY DEF Updated, SameLifecycle, AwaitedAction

\* An update that passed the checks of inner_update_operation is one step.
LEMMA UpdatedMoves ==
  ASSUME NEW a \in AwaitedAction, NEW req \in Request, WellFormed(req), ActionOK(a),
         ~IsFinished(a.stage), ~AlreadyAssigned(a, req)
  PROVE  Moves(a, Updated(a, req.worker, req.update))
<1> DEFINE w == req.worker
           update == req.update
           b == Updated(a, w, update)
<1>1. w \in WorkerId \cup {None} /\ update \in Update
  BY RequestFields
<1>2. a.attempts \in Nat /\ a.attempts <= max_job_retries /\ a.stage \in Stage
  BY ActionFields DEF ActionOK
<1>3. max_job_retries \in Nat
  BY StateManagerConstantsOK
<1>4. Attempts(a, update) \in {a.attempts, a.attempts + 1} /\ Attempts(a, update) \in Nat
  BY <1>1, AttemptsType
<1>5. CASE update = "KeepAlive"
  BY <1>1, <1>5, UpdatedFields DEF Moves
<1>6. CASE update = "Executing"
  <2>1. a.stage = "Queued"
    BY <1>2, <1>6 DEF AlreadyAssigned, IsFinished, Stage
  <2>2. w \in WorkerId
    BY <1>1, <1>6 DEF WellFormed
  <2>3. NewStage(a, update) = "Executing" /\ Attempts(a, update) = a.attempts
    BY <1>6 DEF NewStage, Attempts
  <2>4. b.stage = "Executing" /\ b.worker = w /\ b.attempts = a.attempts
    BY <1>1, <1>6, <2>3, UpdatedFields
  <2> QED
    BY <2>1, <2>2, <2>4 DEF Moves
<1>7. CASE update \notin {"KeepAlive", "Executing"}
  <2> SUFFICES Moves(a, b)
    OBVIOUS
  <2>1. /\ b.stage = NewStage(a, update)
        /\ b.worker = IF NewStage(a, update) = "Queued" THEN None ELSE w
        /\ b.attempts = Attempts(a, update)
    BY <1>1, <1>7, UpdatedFields
  <2>2. \/ NewStage(a, update) = "Completed"
        \/ NewStage(a, update) = "Queued" /\ ~(Attempts(a, update) > max_job_retries)
    BY <1>7 DEF NewStage
  <2> HIDE DEF b
  <2>3. CASE NewStage(a, update) = "Completed"
    BY <1>4, <2>1, <2>3 DEF Moves
  <2>4. CASE NewStage(a, update) = "Queued" /\ ~(Attempts(a, update) > max_job_retries)
    <3>1. b.stage = "Queued" /\ b.worker = None /\ b.attempts = Attempts(a, update)
      BY <2>1, <2>4
    <3>2. Attempts(a, update) <= max_job_retries
      BY <1>3, <1>4, <2>4
    <3> QED
      BY <1>4, <3>1, <3>2 DEF Moves
  <2> QED
    BY <2>2, <2>3, <2>4
<1> QED
  BY <1>5, <1>6, <1>7

\* A step keeps the limits of the action.
LEMMA MovesOK ==
  ASSUME NEW a \in AwaitedAction, NEW b \in AwaitedAction, ActionOK(a), Moves(a, b)
  PROVE  ActionOK(b)
<1>1. a.attempts \in Nat /\ b.attempts \in Nat /\ max_job_retries \in Nat
  BY ActionFields, StateManagerConstantsOK
<1>2. a.attempts <= max_job_retries
  BY DEF ActionOK, Moves
<1> QED
  BY <1>1, <1>2, IdsOK DEF ActionOK, Moves, SameLifecycle, IsFinished

\* The value the client timeout commits is a step as well.
LEMMA TimedOutMoves ==
  ASSUME NEW a \in AwaitedAction, NEW snap \in AwaitedAction, now \in Nat,
         ~IsFinished(a.stage), SameLifecycle(a, snap)
  PROVE  /\ ClientTimedOut(snap) \in AwaitedAction
         /\ ClientTimedOut(snap).version = snap.version
         /\ Moves(a, ClientTimedOut(snap))
<1>1. /\ ClientTimedOut(snap) \in AwaitedAction
      /\ ClientTimedOut(snap).version = snap.version
      /\ ClientTimedOut(snap).stage = "Completed"
      /\ ClientTimedOut(snap).attempts = snap.attempts
  BY ZenonT(60), StageType DEF ClientTimedOut, AwaitedAction
<1> QED
  BY <1>1 DEF Moves, SameLifecycle
-----------------------------------------------------------------------------
(* What a step does to the stored actions: it adds one, touches the         *)
(* keep-alive of one, drops one, commits one, or leaves them alone.         *)

Adds(o) ==
  /\ o \in OperationId \ used /\ used' = used \cup {o}
  /\ \E k \in Key, p \in SortKey : action' = [action EXCEPT ![o] = NewAwaitedAction(k, p)]

Touches(o) == o \in Live /\ action' = [action EXCEPT ![o].clientSeen = now] /\ used' = used

Drops(o) == o \in Live /\ action' = [action EXCEPT ![o] = None] /\ used' = used

Commits(o, new) ==
  /\ o \in Live /\ action[o].version = new.version
  /\ action' = [action EXCEPT ![o] = [new EXCEPT !.version = @ + 1]]
  /\ used' = used

Leaves == UNCHANGED <<action, used>>

LEMMA DbEffect ==
  ASSUME DbCore, ClientStep \/ EventStep \/ Tick
  PROVE  Leaves \/ \E o \in OperationId : Adds(o) \/ Touches(o) \/ Drops(o)
<1>1. ASSUME NEW c \in ClientId, NEW k \in Key, NEW p \in SortKey, AddAction(c, k, p)
      PROVE  \E o \in OperationId : Adds(o)
  <2>1. PICK o \in OperationId \ used :
          used' = used \cup {o} /\ action' = [action EXCEPT ![o] = NewAwaitedAction(k, p)]
    BY ZenonT(60), <1>1 DEF AddAction
  <2> QED
    BY ZenonT(60), <2>1 DEF Adds
<1>2. ASSUME NEW c \in ClientId, NEW k \in Key, TrySubscribe(c, k)
      PROVE  \E o \in OperationId : Touches(o)
  <2>1. Touches(SubscribeTarget(k)) /\ SubscribeTarget(k) \in OperationId
    BY <1>2 DEF TrySubscribe, Touches, Live
  <2> QED
    BY <2>1
<1>3. ASSUME NEW c \in ClientId, ClientDropped(c)
      PROVE  Leaves
  BY <1>3 DEF ClientDropped, Leaves
<1>4. ASSUME NEW o \in OperationId, HandleClientDropped(o)
      PROVE  Leaves \/ Drops(o)
  BY <1>4 DEF HandleClientDropped, Leaves, Drops
<1>5. ASSUME NEW c \in ClientId, HandleClientKeepAlive(c)
      PROVE  \E o \in OperationId : Touches(o)
  <2>1. Touches(clientOp[c]) /\ clientOp[c] \in OperationId
    BY <1>5 DEF HandleClientKeepAlive, Touches, Live
  <2> QED
    BY <2>1
<1>6. CASE Tick
  BY <1>6 DEF Tick, Leaves
<1> QED
  BY <1>1, <1>2, <1>3, <1>4, <1>5, <1>6 DEF ClientStep, EventStep

LEMMA UpdateEffect ==
  ASSUME NEW o \in OperationId, NEW new \in AwaitedAction, UpdateAwaitedAction(o, new)
  PROVE  Leaves \/ Commits(o, new)
BY DEF UpdateAwaitedAction, Leaves, Commits

\* Values seen by different versions differ, values of one version agree.
Newer(a, b) == b.version > a.version \/ (b.version = a.version /\ SameLifecycle(a, b))

Monotone ==
  /\ used \subseteq used'
  /\ \A o \in used : o \in Live' => o \in Live /\ Newer(action[o], action'[o])

LEMMA MonotoneLeaves ==
  ASSUME Leaves
  PROVE  Monotone
BY DEF Leaves, Monotone, Newer, SameLifecycle, Live

LEMMA MonotoneAdds ==
  ASSUME DbCore, NEW o \in OperationId, Adds(o)
  PROVE  Monotone
BY DEF DbCore, DbTypeOK, Adds, Monotone, Newer, SameLifecycle, Live

LEMMA MonotoneTouches ==
  ASSUME DbCore, NEW o \in OperationId, Touches(o)
  PROVE  Monotone
<1> DEFINE b == [action[o] EXCEPT !.clientSeen = now]
<1>1. action[o] \in AwaitedAction
  BY LiveType DEF DbCore, Touches
<1>2. b.version = action[o].version /\ SameLifecycle(action[o], b)
  BY <1>1 DEF AwaitedAction, SameLifecycle
<1>3. action' = [action EXCEPT ![o] = b] /\ used' = used
  BY DEF Touches
<1> HIDE DEF b
<1> QED
  BY <1>2, <1>3 DEF DbCore, DbTypeOK, Touches, Monotone, Newer, SameLifecycle, Live

LEMMA MonotoneDrops ==
  ASSUME DbCore, NEW o \in OperationId, Drops(o)
  PROVE  Monotone
BY DEF DbCore, DbTypeOK, Drops, Monotone, Newer, SameLifecycle, Live

LEMMA MonotoneCommits ==
  ASSUME DbCore, NEW o \in OperationId, NEW new \in AwaitedAction, Commits(o, new)
  PROVE  Monotone
<1> DEFINE b == [new EXCEPT !.version = @ + 1]
<1>1. b.version > action[o].version
  BY ActionFields DEF AwaitedAction, Commits
<1>2. action' = [action EXCEPT ![o] = b] /\ used' = used /\ o \in Live
  BY DEF Commits
<1> HIDE DEF b
<1> QED
  BY <1>1, <1>2 DEF DbCore, DbTypeOK, Monotone, Newer, SameLifecycle, Live
-----------------------------------------------------------------------------
(* What the callers hold survives every step that leaves their own state.    *)

LEMMA CallFields ==
  ASSUME SmTypeOK, NEW u \in Updater
  PROVE  /\ call[u] \in Call
         /\ call[u].pc \in {"read", "commit"} => call[u].req \in Request /\ call[u].tries \in Nat
         /\ call[u].pc = "commit" => call[u].new \in AwaitedAction
<1>1. call[u] \in Call
  BY DEF SmTypeOK
<1> QED
  BY <1>1 DEF Call

LEMMA FilterFields ==
  ASSUME SmTypeOK, NEW f \in Filter
  PROVE  /\ filter[f] \in FilterState
         /\ filter[f].pc \in {"commit", "reload"} =>
              /\ filter[f].op \in OperationId /\ filter[f].tries \in Nat
              /\ filter[f].snap \in AwaitedAction
<1>1. filter[f] \in FilterState
  BY DEF SmTypeOK
<1> QED
  BY <1>1 DEF FilterState

LEMMA CommitableKept ==
  ASSUME DbTypeOK, DbTypeOK', Monotone, NEW o \in used, NEW new \in AwaitedAction,
         Commitable(o, new)
  PROVE  Commitable(o, new)'
<1> SUFFICES ASSUME o \in Live'
             PROVE  /\ new.version <= action'[o].version
                    /\ new.version = action'[o].version => Moves(action'[o], new)
  BY DEF Commitable
<1>1. o \in Live /\ Newer(action[o], action'[o])
  BY DEF Monotone
<1>2. action[o] \in AwaitedAction /\ action'[o] \in AwaitedAction
  BY <1>1 DEF DbTypeOK, Live
<1>3. new.version \in Nat /\ action[o].version \in Nat /\ action'[o].version \in Nat
  BY <1>2, ActionFields
<1>4. /\ new.version <= action[o].version
      /\ new.version = action[o].version => Moves(action[o], new)
  BY <1>1 DEF Commitable
<1>5. CASE action'[o].version > action[o].version
  BY SMTT(60), <1>3, <1>4, <1>5
<1>6. CASE action'[o].version = action[o].version /\ SameLifecycle(action[o], action'[o])
  BY SMTT(60), <1>3, <1>4, <1>6 DEF Moves, SameLifecycle
<1> QED
  BY <1>1, <1>5, <1>6 DEF Newer

LEMMA CallKept ==
  ASSUME SmTypeOK, DbTypeOK', Monotone, NEW u \in Updater, CallOK(u), call'[u] = call[u]
  PROVE  CallOK(u)'
<1>1. call[u].pc \in {"read", "commit"} =>
        (call[u].req.op \in used' /\ WellFormed(call[u].req))
  BY SMTT(60) DEF CallOK, Monotone
<1>2. ASSUME call[u].pc = "commit"
      PROVE  Commitable(call[u].req.op, call[u].new)'
  <2>1. call[u].req.op \in used /\ call[u].new \in AwaitedAction
        /\ Commitable(call[u].req.op, call[u].new)
    BY <1>2, CallFields DEF CallOK
  <2>2. DbTypeOK
    BY DEF SmTypeOK
  <2>3. \A o \in used, new \in AwaitedAction :
          Commitable(o, new) => Commitable(o, new)'
    BY SMTT(60), <2>2, CommitableKept
  <2>4. (call[u].req.op \in Live' =>
          /\ call[u].new.version <= action'[call[u].req.op].version
          /\ call[u].new.version = action'[call[u].req.op].version =>
               Moves(action'[call[u].req.op], call[u].new))
    BY SMTT(60), <2>1, <2>3 DEF Commitable
  <2> QED
    BY <2>4 DEF Commitable
<1> QED
  BY <1>1, <1>2 DEF CallOK, WellFormed

LEMMA FilterKept ==
  ASSUME SmTypeOK, DbTypeOK', Monotone, NEW f \in Filter, FilterOK(f), filter'[f] = filter[f]
  PROVE  FilterOK(f)'
<1> DEFINE o == filter[f].op
           snap == filter[f].snap
<1>1. filter[f].pc \in {"commit", "reload"} => o \in used'
  BY SMTT(60) DEF FilterOK, Monotone
<1>2. ASSUME filter[f].pc = "commit", o \in Live'
      PROVE  /\ snap.version <= action'[o].version
             /\ snap.version = action'[o].version =>
                  ~IsFinished(action'[o].stage) /\ SameLifecycle(action'[o], snap)
  <2>1. o \in used /\ snap \in AwaitedAction
    BY <1>2, FilterFields DEF FilterOK
  <2>2. o \in Live /\ Newer(action[o], action'[o])
    BY <1>2, <2>1 DEF Monotone
  <2>3. action[o] \in AwaitedAction /\ action'[o] \in AwaitedAction
    BY SMTT(60), <1>2, <2>2 DEF SmTypeOK, DbTypeOK, Live
  <2>4. snap.version \in Nat /\ action[o].version \in Nat /\ action'[o].version \in Nat
    BY SMTT(60), <2>1, <2>3, ActionFields
  <2>5. /\ snap.version <= action[o].version
        /\ snap.version = action[o].version =>
             ~IsFinished(action[o].stage) /\ SameLifecycle(action[o], snap)
    BY SMTT(60), <1>2, <2>2 DEF FilterOK
  <2>6. CASE action'[o].version > action[o].version
    BY SMTT(60), <2>4, <2>5, <2>6
  <2>7. CASE action'[o].version = action[o].version /\ SameLifecycle(action[o], action'[o])
    BY <2>4, <2>5, <2>7 DEF SameLifecycle
  <2> QED
    BY SMTT(60), <2>2, <2>6, <2>7 DEF Newer
<1> QED
  BY SMTT(60), <1>1, <1>2 DEF FilterOK
-----------------------------------------------------------------------------
(* The limits of the stored actions, per effect.                            *)

LEMMA RetriesAt == RetriesBounded <=> \A o \in Live : ActionOK(action[o])
BY DEF RetriesBounded, ActionOK

LEMMA RetriesLeaves ==
  ASSUME RetriesBounded, Leaves
  PROVE  RetriesBounded'
BY SMTT(60) DEF RetriesBounded, Leaves, Live

LEMMA RetriesAdds ==
  ASSUME DbCore, RetriesBounded, NEW o \in OperationId, Adds(o)
  PROVE  RetriesBounded'
<1>1. PICK k \in Key, p \in SortKey : action' = [action EXCEPT ![o] = NewAwaitedAction(k, p)]
  BY ZenonT(60) DEF Adds
<1>2. ActionOK(NewAwaitedAction(k, p))
  BY SMTT(60), StateManagerConstantsOK DEF NewAwaitedAction, ActionOK, IsFinished
<1> HIDE DEF NewAwaitedAction
<1> QED
  BY <1>1, <1>2 DEF DbCore, DbTypeOK, RetriesBounded, ActionOK, Live

LEMMA RetriesTouches ==
  ASSUME DbCore, RetriesBounded, NEW o \in OperationId, Touches(o)
  PROVE  RetriesBounded'
<1> DEFINE b == [action[o] EXCEPT !.clientSeen = now]
<1>1. action[o] \in AwaitedAction /\ ActionOK(action[o])
  BY LiveType, RetriesAt DEF DbCore, Touches
<1>2. ActionOK(b)
  BY <1>1 DEF AwaitedAction, ActionOK
<1>3. action' = [action EXCEPT ![o] = b]
  BY DEF Touches
<1> HIDE DEF b
<1> QED
  BY SMTT(60), <1>2, <1>3 DEF DbCore, DbTypeOK, RetriesBounded, ActionOK, Live

LEMMA RetriesDrops ==
  ASSUME DbCore, RetriesBounded, NEW o \in OperationId, Drops(o)
  PROVE  RetriesBounded'
BY SMTT(60) DEF DbCore, DbTypeOK, Drops, RetriesBounded, Live

LEMMA RetriesCommits ==
  ASSUME DbCore, RetriesBounded, NEW o \in OperationId, NEW new \in AwaitedAction,
         Commits(o, new), Moves(action[o], new)
  PROVE  RetriesBounded'
<1> DEFINE b == [new EXCEPT !.version = @ + 1]
<1>1. action[o] \in AwaitedAction /\ ActionOK(action[o])
  BY LiveType, RetriesAt DEF DbCore, Commits
<1>2. ActionOK(new)
  BY <1>1, MovesOK
<1>3. ActionOK(b)
  BY <1>2 DEF AwaitedAction, ActionOK
<1>4. action' = [action EXCEPT ![o] = b]
  BY DEF Commits
<1> HIDE DEF b
<1> QED
  BY <1>3, <1>4 DEF DbCore, DbTypeOK, RetriesBounded, ActionOK, Live
-----------------------------------------------------------------------------
(* The lifecycle step each effect is.                                       *)

Lives == [o \in OperationId |-> Abstraction(action[o])]

LifecycleStep == Abstract!LifecycleNext \/ UNCHANGED <<Lives, used>>

LEMMA AbstractionType ==
  /\ Abstraction(None) = None
  /\ \A a \in AwaitedAction :
       /\ Abstraction(a) # None
       /\ Abstraction(a) = [stage |-> a.stage, worker |-> a.worker, attempts |-> a.attempts]
<1> SUFFICES ASSUME NEW a \in AwaitedAction
             PROVE  /\ Abstraction(a) # None
                    /\ Abstraction(a) = [stage |-> a.stage, worker |-> a.worker,
                                         attempts |-> a.attempts]
  BY DEF Abstraction
<1>1. a # None
  BY ConstantsOK
<1>2. Abstraction(a) = [stage |-> a.stage, worker |-> a.worker, attempts |-> a.attempts]
  BY <1>1 DEF Abstraction
<1>3. Abstraction(a) \in [stage : Stage, worker : WorkerId \cup {None}, attempts : Nat]
  BY <1>2, ActionFields
<1> QED
  BY <1>2, <1>3, StateManagerConstantsOK

LEMMA LifecycleLeaves ==
  ASSUME Leaves
  PROVE  LifecycleStep
BY DEF Leaves, LifecycleStep, Lives

LEMMA LifecycleAdds ==
  ASSUME DbCore, NEW o \in OperationId, Adds(o)
  PROVE  LifecycleStep
<1>1. PICK k \in Key, p \in SortKey : action' = [action EXCEPT ![o] = NewAwaitedAction(k, p)]
  BY ZenonT(60) DEF Adds
<1>2. NewAwaitedAction(k, p) # None
  BY NewAwaitedActionType, ConstantsOK DEF DbCore, DbTypeOK
<1>3. Abstraction(NewAwaitedAction(k, p)) = Abstract!Fresh
  BY SMTT(60), <1>2 DEF Abstraction, NewAwaitedAction, Abstract!Fresh
<1>4. Lives' = [Lives EXCEPT ![o] = Abstract!Fresh]
  BY ZenonT(60), <1>1, <1>3 DEF Lives, DbCore, DbTypeOK
<1>5. Abstract!Submit(o)
  BY SMTT(60), <1>4 DEF Adds, Lives, Abstract!Submit
<1> QED
  BY <1>5 DEF LifecycleStep, Abstract!LifecycleNext

LEMMA LifecycleTouches ==
  ASSUME DbCore, NEW o \in OperationId, Touches(o)
  PROVE  LifecycleStep
<1> DEFINE b == [action[o] EXCEPT !.clientSeen = now]
<1>1. action[o] \in AwaitedAction /\ b \in AwaitedAction
  BY LiveType, TouchType DEF DbCore, DbTypeOK, Touches
<1>2. Abstraction(b) = Abstraction(action[o])
  BY <1>1, ConstantsOK DEF Abstraction, AwaitedAction
<1>3. action' = [action EXCEPT ![o] = b] /\ used' = used
  BY DEF Touches
<1> HIDE DEF b
<1>4. Lives' = Lives
  BY <1>2, <1>3 DEF Lives, DbCore, DbTypeOK
<1> QED
  BY <1>3, <1>4 DEF LifecycleStep

LEMMA LifecycleDrops ==
  ASSUME DbCore, NEW o \in OperationId, Drops(o)
  PROVE  LifecycleStep
<1>1. action[o] # None /\ action' = [action EXCEPT ![o] = None] /\ used' = used
  BY SMTT(60) DEF Drops, Live
<1>2. Abstraction(action[o]) # None /\ Abstraction(None) = None
  BY <1>1, AbstractionType DEF DbCore, DbTypeOK
<1>3. Lives' = [Lives EXCEPT ![o] = None]
  BY ZenonT(60), <1>1, <1>2 DEF Lives, DbCore, DbTypeOK
<1>4. Abstract!Forget(o)
  BY <1>1, <1>2, <1>3 DEF Lives, Abstract!Forget
<1> QED
  BY <1>4 DEF LifecycleStep, Abstract!LifecycleNext

LEMMA LifecycleCommits ==
  ASSUME DbCore, NEW o \in OperationId, NEW new \in AwaitedAction,
         Commits(o, new), Moves(action[o], new)
  PROVE  LifecycleStep
<1> DEFINE a == action[o]
           b == [new EXCEPT !.version = @ + 1]
           x == Abstraction(a)
           y == Abstraction(b)
<1>1. a \in AwaitedAction /\ b \in AwaitedAction /\ used' = used
      /\ action' = [action EXCEPT ![o] = b]
  BY SMTT(60), LiveType, BumpType DEF DbCore, Commits
<1>2. /\ x # None
      /\ x = [stage |-> a.stage, worker |-> a.worker, attempts |-> a.attempts]
      /\ y = [stage |-> b.stage, worker |-> b.worker, attempts |-> b.attempts]
  BY ZenonT(60), <1>1, AbstractionType
<1>3. b.stage = new.stage /\ b.worker = new.worker /\ b.attempts = new.attempts
  BY DEF AwaitedAction
<1>4. b.worker \in WorkerId \cup {None} /\ a.attempts \in Nat /\ b.attempts \in Nat
  BY <1>1, ActionFields
<1>5. ~IsFinished(a.stage)
      /\ \/ SameLifecycle(a, b)
         \/ /\ a.stage = "Queued" /\ b.stage = "Executing"
            /\ b.worker \in WorkerId /\ b.attempts = a.attempts
         \/ /\ b.stage = "Queued" /\ b.worker = None
            /\ b.attempts \in {a.attempts, a.attempts + 1} /\ b.attempts <= max_job_retries
         \/ b.stage = "Completed" /\ b.attempts \in {a.attempts, a.attempts + 1}
  BY <1>3 DEF Moves, SameLifecycle
<1>6. Lives[o] = x /\ Lives' = [Lives EXCEPT ![o] = y]
  BY ZenonT(60), <1>1 DEF Lives, DbCore, DbTypeOK
<1> HIDE DEF a, b, x, y
<1>7. CASE SameLifecycle(a, b)
  <2>1. y = x
    BY <1>2, <1>7 DEF SameLifecycle
  <2>2. Lives' = Lives
    BY ZenonT(60), <1>6, <2>1 DEF Lives
  <2> QED
    BY <1>1, <2>2 DEF LifecycleStep
<1>8. CASE a.stage = "Queued" /\ b.stage = "Executing"
           /\ b.worker \in WorkerId /\ b.attempts = a.attempts
  <2>1. Lives[o].attempts = a.attempts
    BY SMTT(60), <1>2, <1>6
  <2>2. Lives' = [Lives EXCEPT ![o] = [stage |-> "Executing", worker |-> b.worker,
                                       attempts |-> Lives[o].attempts]]
    BY <1>2, <1>6, <1>8, <2>1
  <2>3. Lives[o] # None /\ Lives[o].stage = "Queued"
    BY SMTT(60), <1>2, <1>6, <1>8
  <2>4. Abstract!Assign(o, b.worker)
    BY <1>1, <2>2, <2>3 DEF Lives, Abstract!Assign
  <2> QED
    BY SMTT(60), <1>8, <2>4 DEF LifecycleStep, Abstract!LifecycleNext
<1>9. Abstract!Unfinished(o)
  <2>1. Lives[o] # None /\ Lives[o].stage # "Completed"
    BY SMTT(60), <1>2, <1>5, <1>6 DEF IsFinished
  <2> QED
    BY SMTT(60), <2>1 DEF Lives, Abstract!Unfinished
<1>10. ASSUME b.attempts \in {a.attempts, a.attempts + 1}
       PROVE  \E charge \in {0, 1} : b.attempts = Lives[o].attempts + charge
  <2>1. Lives[o].attempts = a.attempts
    BY <1>2, <1>6
  <2> QED
    BY <1>4, <1>10, <2>1
<1>11. CASE b.stage = "Queued" /\ b.worker = None
            /\ b.attempts \in {a.attempts, a.attempts + 1} /\ b.attempts <= max_job_retries
  <2>1. PICK charge \in {0, 1} : b.attempts = Lives[o].attempts + charge
    BY SMTT(60), <1>10, <1>11
  <2>2. Lives' = [Lives EXCEPT ![o] = [stage |-> "Queued", worker |-> None,
                                       attempts |-> Lives[o].attempts + charge]]
    BY SMTT(60), <1>2, <1>6, <1>11, <2>1
  <2>3. Lives[o].attempts + charge <= max_job_retries
    BY SMTT(60), <1>11, <2>1
  <2>4. Abstract!Requeue(o, charge)
    BY SMTT(60), <1>1, <1>9, <2>2, <2>3 DEF Lives, Abstract!Requeue
  <2> QED
    BY <2>4 DEF LifecycleStep, Abstract!LifecycleNext
<1>12. CASE b.stage = "Completed" /\ b.attempts \in {a.attempts, a.attempts + 1}
  <2>1. PICK charge \in {0, 1} : b.attempts = Lives[o].attempts + charge
    BY SMTT(60), <1>10, <1>12
  <2>2. Lives' = [Lives EXCEPT ![o] = [stage |-> "Completed", worker |-> b.worker,
                                       attempts |-> Lives[o].attempts + charge]]
    BY SMTT(60), <1>2, <1>6, <1>12, <2>1
  <2>3. Abstract!Complete(o, b.worker, charge)
    BY <1>1, <1>9, <2>2 DEF Lives, Abstract!Complete
  <2> QED
    BY SMTT(60), <1>4, <2>3 DEF LifecycleStep, Abstract!LifecycleNext
<1> QED
  BY <1>5, <1>7, <1>8, <1>11, <1>12
-----------------------------------------------------------------------------
(* A finished action keeps its outcome, per effect.                         *)

OutcomeOf(a) == [a EXCEPT !.clientSeen = 0]

FinalStep ==
  \A o \in OperationId :
    (action[o] # None /\ IsFinished(action[o].stage) /\ action'[o] # None) =>
      OutcomeOf(action'[o]) = OutcomeOf(action[o])

LEMMA FinalLeaves ==
  ASSUME Leaves
  PROVE  FinalStep
BY DEF Leaves, FinalStep

LEMMA FinalAdds ==
  ASSUME DbCore, NEW o \in OperationId, Adds(o)
  PROVE  FinalStep
<1>1. action[o] = None
  BY DEF Adds, DbCore, LiveWasUsed, Live
<1>2. \A p \in OperationId : p # o => action'[p] = action[p]
  BY DEF Adds, DbCore, DbTypeOK
<1> QED
  BY SMTT(60), <1>1, <1>2 DEF FinalStep

LEMMA FinalTouches ==
  ASSUME DbCore, NEW o \in OperationId, Touches(o)
  PROVE  FinalStep
<1>1. action[o] \in AwaitedAction
  BY LiveType DEF DbCore, Touches
<1>2. OutcomeOf([action[o] EXCEPT !.clientSeen = now]) = OutcomeOf(action[o])
  BY ZenonT(60), <1>1 DEF OutcomeOf, AwaitedAction
<1>3. /\ action'[o] = [action[o] EXCEPT !.clientSeen = now]
      /\ \A p \in OperationId : p # o => action'[p] = action[p]
  BY DEF Touches, DbCore, DbTypeOK
<1> QED
  BY <1>2, <1>3 DEF FinalStep

LEMMA FinalDrops ==
  ASSUME DbCore, NEW o \in OperationId, Drops(o)
  PROVE  FinalStep
<1>1. action'[o] = None /\ \A p \in OperationId : p # o => action'[p] = action[p]
  BY DEF Drops, DbCore, DbTypeOK
<1> QED
  BY <1>1 DEF FinalStep

LEMMA FinalCommits ==
  ASSUME DbCore, NEW o \in OperationId, NEW new \in AwaitedAction,
         Commits(o, new), Moves(action[o], new)
  PROVE  FinalStep
<1>1. ~IsFinished(action[o].stage)
  BY DEF Moves
<1>2. \A p \in OperationId : p # o => action'[p] = action[p]
  BY DEF Commits, DbCore, DbTypeOK
<1> QED
  BY <1>1, <1>2 DEF FinalStep
-----------------------------------------------------------------------------
(* The steps of the state manager.                                          *)

LEMMA CoreSame ==
  ASSUME DbCore, UNCHANGED dbVars
  PROVE  DbCore'
<1>1. Live' = Live /\ UNCHANGED <<clientOp, connected, dropped>>
  BY DEF dbVars, Live
<1>2. ConnectedClientsExact'
  BY <1>1, CountsUnchanged DEF DbCore
<1> QED
  BY <1>1, <1>2 DEF DbCore, DbTypeOK, LiveWasUsed, dbVars

\* A step that changes the state of one call.
LEMMA CallStepInv ==
  ASSUME SmInv, DbCore', RetriesBounded', Monotone, NEW u \in Updater,
         call' = [call EXCEPT ![u] = call'[u]], call'[u] \in Call, CallOK(u)',
         UNCHANGED <<filter, heartbeat>>
  PROVE  SmInv'
<1>1. SmTypeOK' /\ SmTypeOK /\ DbTypeOK'
  BY DEF SmInv, SmTypeOK, DbCore, RegistryTypeOK
<1>2. ASSUME NEW v \in Updater
      PROVE  CallOK(v)'
  <2>1. CASE v = u
    BY <2>1
  <2>2. CASE v # u
    <3>1. call'[v] = call[v] /\ CallOK(v)
      BY <2>2 DEF SmInv, SmTypeOK
    <3> QED
      BY <1>1, <3>1, CallKept
  <2> QED
    BY <2>1, <2>2
<1>3. ASSUME NEW f \in Filter
      PROVE  FilterOK(f)'
  BY <1>1, FilterKept DEF SmInv
<1> QED
  BY <1>1, <1>2, <1>3 DEF SmInv

\* A step that changes the state of one client timeout check.
LEMMA FilterStepInv ==
  ASSUME SmInv, DbCore', RetriesBounded', Monotone, NEW f \in Filter,
         filter' = [filter EXCEPT ![f] = filter'[f]], filter'[f] \in FilterState,
         FilterOK(f)', UNCHANGED <<call, heartbeat>>
  PROVE  SmInv'
<1>1. SmTypeOK' /\ SmTypeOK /\ DbTypeOK'
  BY DEF SmInv, SmTypeOK, DbCore, RegistryTypeOK
<1>2. ASSUME NEW g \in Filter
      PROVE  FilterOK(g)'
  <2>1. CASE g = f
    BY <2>1
  <2>2. CASE g # f
    <3>1. filter'[g] = filter[g] /\ FilterOK(g)
      BY <2>2 DEF SmInv, SmTypeOK
    <3> QED
      BY <1>1, <3>1, FilterKept
  <2> QED
    BY <2>1, <2>2
<1>3. ASSUME NEW u \in Updater
      PROVE  CallOK(u)'
  BY <1>1, CallKept DEF SmInv
<1> QED
  BY <1>1, <1>2, <1>3 DEF SmInv

LEMMA DbStepSm ==
  ASSUME SmInv, DbStep
  PROVE  SmInv' /\ LifecycleStep /\ FinalStep
<1>1. DbCore /\ RetriesBounded /\ SmTypeOK /\ (ClientStep \/ EventStep \/ Tick)
  BY DEF SmInv, DbStep
<1>2. DbCore'
  BY <1>1, CoreStep
<1>3. Monotone /\ RetriesBounded' /\ LifecycleStep /\ FinalStep
  <2>1. CASE Leaves
    BY <1>1, <2>1, MonotoneLeaves, RetriesLeaves, LifecycleLeaves, FinalLeaves
  <2>2. ASSUME NEW o \in OperationId, Adds(o)
        PROVE  Monotone /\ RetriesBounded' /\ LifecycleStep /\ FinalStep
    BY <1>1, <2>2, MonotoneAdds, RetriesAdds, LifecycleAdds, FinalAdds
  <2>3. ASSUME NEW o \in OperationId, Touches(o)
        PROVE  Monotone /\ RetriesBounded' /\ LifecycleStep /\ FinalStep
    BY <1>1, <2>3, MonotoneTouches, RetriesTouches, LifecycleTouches, FinalTouches
  <2>4. ASSUME NEW o \in OperationId, Drops(o)
        PROVE  Monotone /\ RetriesBounded' /\ LifecycleStep /\ FinalStep
    BY <1>1, <2>4, MonotoneDrops, RetriesDrops, LifecycleDrops, FinalDrops
  <2> QED
    BY <1>1, <2>1, <2>2, <2>3, <2>4, DbEffect
<1>4. UNCHANGED <<call, filter, heartbeat>>
  BY DEF DbStep
<1>5. SmTypeOK' /\ DbTypeOK'
  BY <1>1, <1>2, <1>4 DEF SmTypeOK, DbCore, RegistryTypeOK
<1>6. \A u \in Updater : CallOK(u)'
  BY <1>1, <1>3, <1>4, <1>5, CallKept DEF SmInv
<1>7. \A f \in Filter : FilterOK(f)'
  BY <1>1, <1>3, <1>4, <1>5, FilterKept DEF SmInv
<1> QED
  BY SMTT(60), <1>2, <1>3, <1>5, <1>6, <1>7 DEF SmInv

\* A step that leaves the database alone.
LEMMA DbSame ==
  ASSUME SmInv, UNCHANGED dbVars
  PROVE  DbCore' /\ RetriesBounded' /\ Monotone /\ LifecycleStep /\ FinalStep
<1>1. Leaves
  BY DEF dbVars, Leaves
<1> QED
  BY <1>1, CoreSame, RetriesLeaves, MonotoneLeaves, LifecycleLeaves, FinalLeaves DEF SmInv

LEMMA StartUpdateSm ==
  ASSUME SmInv, NEW u \in Updater, NEW req \in Request, req.op \in Live, WellFormed(req),
         StartUpdate(u, req), UNCHANGED <<dbVars, filter, heartbeat>>
  PROVE  SmInv' /\ LifecycleStep /\ FinalStep
<1> DEFINE c == [pc |-> "read", req |-> req, tries |-> 0]
<1>1. call' = [call EXCEPT ![u] = c] /\ call \in [Updater -> Call]
  BY DEF StartUpdate, SmInv, SmTypeOK
<1>2. call'[u] = c /\ call' = [call EXCEPT ![u] = call'[u]]
  BY <1>1
<1>3. c \in Call
  BY DEF Call
<1>4. req.op \in used'
  BY DEF SmInv, DbCore, LiveWasUsed, dbVars
<1>5. CallOK(u)'
  BY <1>2, <1>4 DEF CallOK
<1>6. DbCore' /\ RetriesBounded' /\ Monotone /\ LifecycleStep /\ FinalStep
  BY SMTT(60), DbSame
<1> QED
  BY <1>2, <1>3, <1>5, <1>6, CallStepInv

\* inner_update_operation reads: it returns, or holds a value that is one step
\* away from the one it read.
LEMMA ReadForUpdateSm ==
  ASSUME SmInv, NEW u \in Updater, ReadForUpdate(u)
  PROVE  SmInv' /\ LifecycleStep /\ FinalStep
<1> DEFINE req == call[u].req
           a == action[req.op]
           c == [pc |-> "commit", req |-> req, tries |-> call[u].tries,
                 new |-> Updated(a, req.worker, req.update)]
<1>1. /\ call[u].pc = "read" /\ req \in Request /\ call[u].tries \in Nat
      /\ req.op \in used /\ WellFormed(req) /\ call \in [Updater -> Call]
  BY SMTT(60), CallFields DEF ReadForUpdate, SmInv, CallOK, SmTypeOK
<1>2. UNCHANGED <<dbVars, filter, heartbeat>>
  BY DEF ReadForUpdate
<1>3. DbCore' /\ RetriesBounded' /\ Monotone /\ LifecycleStep /\ FinalStep
  BY SMTT(60), <1>2, DbSame
<1>4. CASE \E res \in Result : Return(u, res)
  <2>1. PICK res \in Result : call' = [call EXCEPT ![u] = [pc |-> "done", result |-> res]]
    BY ZenonT(60), <1>4 DEF Return
  <2>2. call'[u] = [pc |-> "done", result |-> res] /\ call' = [call EXCEPT ![u] = call'[u]]
    BY <1>1, <2>1
  <2>3. call'[u] \in Call
    BY SMTT(60), <2>2 DEF Call
  <2>4. CallOK(u)'
    BY <2>2 DEF CallOK
  <2> QED
    BY SMTT(60), <1>2, <1>3, <2>2, <2>3, <2>4, CallStepInv
<1>5. CASE /\ req.op \in Live /\ ~IsFinished(a.stage) /\ ~AlreadyAssigned(a, req)
           /\ call' = [call EXCEPT ![u] = c]
  <2>1. a \in AwaitedAction /\ ActionOK(a) /\ now \in Nat
    BY SMTT(60), <1>5, LiveType, RetriesAt DEF SmInv, DbCore, DbTypeOK
  <2>2. req.worker \in WorkerId \cup {None} /\ req.update \in Update
    BY SMTT(60), <1>1, RequestFields
  <2> DEFINE new == Updated(a, req.worker, req.update)
  <2>3. new \in AwaitedAction /\ new.version = a.version
    BY SMTT(60), <2>1, <2>2, UpdatedType
  <2>4. Moves(a, new)
    BY SMTT(60), <1>1, <1>5, <2>1, UpdatedMoves
  <2> HIDE DEF new
  <2>5. call'[u] = [pc |-> "commit", req |-> req, tries |-> call[u].tries, new |-> new]
        /\ call' = [call EXCEPT ![u] = call'[u]]
    BY SMTT(60), <1>1, <1>5 DEF new
  <2>6. call'[u] \in Call
    BY SMTT(60), <1>1, <2>3, <2>5 DEF Call
  <2>7. a.version \in Nat
    BY SMTT(60), <2>1, ActionFields
  <2>8. Commitable(req.op, new)
    BY <2>3, <2>4, <2>7 DEF Commitable
  <2>9. action' = action /\ used' = used
    BY SMTT(60), <1>2 DEF dbVars
  <2>10. CallOK(u)'
    BY SMTT(60), <1>1, <2>5, <2>8, <2>9 DEF CallOK, Commitable, Live
  <2> QED
    BY SMTT(60), <1>2, <1>3, <2>5, <2>6, <2>10, CallStepInv
<1> QED
  BY SMTT(60), <1>4, <1>5 DEF ReadForUpdate, Result

\* inner_update_operation commits, turns the loop, or gives up.
LEMMA CommitUpdateSm ==
  ASSUME SmInv, NEW u \in Updater, CommitUpdate(u)
  PROVE  SmInv' /\ LifecycleStep /\ FinalStep
<1> DEFINE req == call[u].req
           o == req.op
           new == call[u].new
           res == UpdateResult(o, new)
<1>1. /\ call[u].pc = "commit" /\ req \in Request /\ call[u].tries \in Nat
      /\ new \in AwaitedAction /\ o \in used /\ WellFormed(req) /\ Commitable(o, new)
      /\ call \in [Updater -> Call]
  BY CallFields DEF CommitUpdate, SmInv, CallOK, SmTypeOK
<1>2. UpdateAwaitedAction(o, new) /\ UNCHANGED <<filter, heartbeat>>
  BY DEF CommitUpdate
<1>3. o \in OperationId /\ DbCore /\ RetriesBounded
  BY <1>1, RequestFields DEF SmInv
<1>4. DbCore'
  BY SMTT(60), <1>1, <1>2, <1>3, CoreUpdate
<1>5. RetriesBounded' /\ Monotone /\ LifecycleStep /\ FinalStep
  <2>1. CASE Leaves
    BY SMTT(60), <1>3, <2>1, RetriesLeaves, MonotoneLeaves, LifecycleLeaves, FinalLeaves
  <2>2. CASE Commits(o, new)
    <3>1. Moves(action[o], new)
      BY SMTT(60), <1>1, <2>2 DEF Commits, Commitable
    <3> HIDE DEF o, new
    <3> QED
      BY SMTT(60), <1>1, <1>3, <2>2, <3>1, RetriesCommits, MonotoneCommits, LifecycleCommits, FinalCommits
  <2> QED
    BY SMTT(60), <1>1, <1>2, <1>3, <2>1, <2>2, UpdateEffect
<1>6. res \in Result
  BY DEF UpdateResult, Result
<1>7. used' = used
  BY SMTT(60), <1>2 DEF UpdateAwaitedAction
<1>8. CASE call' = [call EXCEPT ![u] = Retry(u)]
  <2>1. call'[u] = [pc |-> "read", req |-> req, tries |-> call[u].tries + 1]
        /\ call' = [call EXCEPT ![u] = call'[u]]
    BY SMTT(60), <1>1, <1>8 DEF Retry
  <2>2. call'[u] \in Call
    BY SMTT(60), <1>1, <2>1 DEF Call
  <2>3. CallOK(u)'
    BY SMTT(60), <1>1, <1>7, <2>1 DEF CallOK
  <2> QED
    BY SMTT(60), <1>2, <1>4, <1>5, <2>1, <2>2, <2>3, CallStepInv
<1>9. CASE Return(u, res)
  <2> HIDE DEF res
  <2>1. call'[u] = [pc |-> "done", result |-> res] /\ call' = [call EXCEPT ![u] = call'[u]]
    BY SMTT(60), <1>1, <1>9 DEF Return
  <2>2. call'[u] \in Call
    BY SMTT(60), <1>6, <2>1 DEF Call
  <2>3. CallOK(u)'
    BY <2>1 DEF CallOK
  <2> QED
    BY SMTT(60), <1>2, <1>4, <1>5, <2>1, <2>2, <2>3, CallStepInv
<1> QED
  BY SMTT(60), <1>8, <1>9 DEF CommitUpdate

LEMMA TimeoutSm ==
  ASSUME SmInv, NEW o \in OperationId, TimeoutOperationId(o)
  PROVE  SmInv' /\ LifecycleStep /\ FinalStep
<1> DEFINE req == TimeoutRequest(o)
<1>1. req \in Request /\ req.op = o /\ WellFormed(req)
  BY SMTT(60) DEF TimeoutRequest, Request, WellFormed, Update
<1>2. /\ o \in Live /\ StartUpdate(Timer, req)
      /\ UNCHANGED <<dbVars, filter, heartbeat>> /\ Timer \in Updater
  BY SMTT(60), StateManagerConstantsOK DEF TimeoutOperationId
<1> HIDE DEF req
<1> QED
  BY SMTT(60), <1>1, <1>2, StartUpdateSm

\* A client timeout check starts, or starts again, from the stored action.
LEMMA SnapshotOK ==
  ASSUME SmInv, NEW f \in Filter, NEW o \in Live, NEW n \in Nat,
         ~IsFinished(action[o].stage), UNCHANGED <<dbVars, call, heartbeat>>,
         filter' = [filter EXCEPT ![f] = [pc |-> "commit", op |-> o, tries |-> n,
                                          snap |-> action[o]]]
  PROVE  SmInv' /\ LifecycleStep /\ FinalStep
<1>1. /\ o \in OperationId /\ action[o] \in AwaitedAction /\ action[o].version \in Nat
      /\ o \in used
  BY SMTT(60), LiveType DEF SmInv, DbCore, LiveWasUsed
<1>2. filter'[f] = [pc |-> "commit", op |-> o, tries |-> n, snap |-> action[o]]
      /\ filter' = [filter EXCEPT ![f] = filter'[f]]
  BY DEF SmInv, SmTypeOK
<1>3. filter'[f] \in FilterState
  BY SMTT(60), <1>1, <1>2 DEF FilterState
<1>4. action' = action /\ used' = used
  BY SMTT(60) DEF dbVars
<1>5. FilterOK(f)'
  BY SMTT(60), <1>1, <1>2, <1>4 DEF FilterOK, SameLifecycle
<1> QED
  BY ZenonT(60), <1>2, <1>3, <1>5, DbSame, FilterStepInv

LEMMA FilterOperationSm ==
  ASSUME SmInv, NEW f \in Filter, NEW o \in OperationId, FilterOperation(f, o)
  PROVE  SmInv' /\ LifecycleStep /\ FinalStep
BY ZenonT(60), SnapshotOK DEF FilterOperation

\* A client timeout check ends.
LEMMA FilterIdle ==
  ASSUME SmInv, DbCore', RetriesBounded', Monotone, NEW f \in Filter,
         filter' = [filter EXCEPT ![f] = Idle], UNCHANGED <<call, heartbeat>>
  PROVE  SmInv'
<1>1. filter'[f] = [pc |-> "idle"] /\ filter' = [filter EXCEPT ![f] = filter'[f]]
  BY DEF SmInv, SmTypeOK, Idle
<1>2. filter'[f] \in FilterState
  BY <1>1 DEF FilterState
<1>3. FilterOK(f)'
  BY SMTT(60), <1>1 DEF FilterOK
<1> QED
  BY ZenonT(60), <1>1, <1>2, <1>3, FilterStepInv

LEMMA FilterReloadSm ==
  ASSUME SmInv, NEW f \in Filter, FilterReload(f)
  PROVE  SmInv' /\ LifecycleStep /\ FinalStep
<1> DEFINE o == filter[f].op
<1>1. /\ filter[f].pc = "reload" /\ filter[f] \in FilterState
      /\ UNCHANGED <<dbVars, call, heartbeat>> /\ filter \in [Filter -> FilterState]
  BY SMTT(60), FilterFields DEF FilterReload, SmInv, SmTypeOK
<1>2. CASE o \in Live /\ ClientStale(action[o]) /\ ~IsFinished(action[o].stage)
  <2>1. filter' = [filter EXCEPT ![f] = [pc |-> "commit", op |-> o,
                                         tries |-> filter[f].tries + 1, snap |-> action[o]]]
    BY SMTT(60), <1>1, <1>2 DEF FilterReload
  <2>2. filter[f].tries + 1 \in Nat
    BY <1>1, FilterFields DEF SmInv
  <2> QED
    BY ZenonT(60), <1>1, <1>2, <2>1, <2>2, SnapshotOK
<1>3. CASE ~(o \in Live /\ ClientStale(action[o]) /\ ~IsFinished(action[o].stage))
  <2>1. filter' = [filter EXCEPT ![f] = Idle]
    BY ZenonT(60), <1>1, <1>3 DEF FilterReload
  <2> QED
    BY ZenonT(60), <1>1, <2>1, DbSame, FilterIdle
<1> QED
  BY SMTT(60), <1>2, <1>3

LEMMA FilterCommitSm ==
  ASSUME SmInv, NEW f \in Filter, FilterCommit(f)
  PROVE  SmInv' /\ LifecycleStep /\ FinalStep
<1> DEFINE o == filter[f].op
           snap == filter[f].snap
           new == ClientTimedOut(snap)
<1>1. /\ filter[f].pc = "commit" /\ o \in OperationId /\ snap \in AwaitedAction
      /\ o \in used /\ filter[f] \in FilterState /\ filter \in [Filter -> FilterState]
  BY SMTT(60), FilterFields DEF FilterCommit, SmInv, FilterOK, SmTypeOK
<1>2. UpdateAwaitedAction(o, new) /\ UNCHANGED <<call, heartbeat>>
  BY DEF FilterCommit
<1>3. DbCore /\ RetriesBounded /\ now \in Nat
  BY DEF SmInv, DbCore, DbTypeOK
<1>4. new \in AwaitedAction /\ new.version = snap.version
  BY ZenonT(60), <1>1, <1>3, StageType DEF ClientTimedOut, AwaitedAction
<1>5. DbCore'
  BY SMTT(60), <1>1, <1>2, <1>3, <1>4, CoreUpdate
<1>6. RetriesBounded' /\ Monotone /\ LifecycleStep /\ FinalStep
  <2>1. CASE Leaves
    BY SMTT(60), <1>3, <2>1, RetriesLeaves, MonotoneLeaves, LifecycleLeaves, FinalLeaves
  <2>2. CASE Commits(o, new)
    <3>1. o \in Live /\ action[o].version = snap.version
      BY SMTT(60), <1>4, <2>2 DEF Commits
    <3>2. ~IsFinished(action[o].stage) /\ SameLifecycle(action[o], snap)
      BY SMTT(60), <1>1, <3>1 DEF SmInv, FilterOK
    <3>3. action[o] \in AwaitedAction
      BY SMTT(60), <1>3, <3>1, LiveType DEF DbCore
    <3>4. Moves(action[o], new)
      BY SMTT(60), <1>1, <1>3, <3>2, <3>3, TimedOutMoves
    <3> HIDE DEF o, new
    <3> QED
      BY SMTT(60), <1>1, <1>3, <1>4, <2>2, <3>4, RetriesCommits, MonotoneCommits, LifecycleCommits,
         FinalCommits
  <2> QED
    BY SMTT(60), <1>1, <1>2, <1>4, <2>1, <2>2, UpdateEffect
<1>7. CASE filter' = [filter EXCEPT ![f] = Idle]
  BY ZenonT(60), <1>2, <1>5, <1>6, <1>7, FilterIdle
<1>8. CASE filter' = [filter EXCEPT ![f] = [filter[f] EXCEPT !.pc = "reload"]]
  <2>1. filter[f] \in [pc : {"commit", "reload"}, op : OperationId, tries : Nat,
                       snap : AwaitedAction]
    BY SMTT(60), <1>1 DEF FilterState
  <2>2. filter'[f] = [filter[f] EXCEPT !.pc = "reload"]
        /\ filter' = [filter EXCEPT ![f] = filter'[f]]
    BY <1>1, <1>8
  <2>3. filter'[f] \in FilterState /\ filter'[f].pc = "reload" /\ filter'[f].op = o
    BY SMTT(60), <2>1, <2>2 DEF FilterState
  <2>4. used' = used
    BY SMTT(60), <1>2 DEF UpdateAwaitedAction
  <2>5. FilterOK(f)'
    BY SMTT(60), <1>1, <2>3, <2>4 DEF FilterOK
  <2> QED
    BY SMTT(60), <1>2, <1>5, <1>6, <2>2, <2>3, <2>5, FilterStepInv
<1> QED
  BY ZenonT(60), <1>7, <1>8 DEF FilterCommit

LEMMA HeartbeatSm ==
  ASSUME SmInv, NEW w \in WorkerId, Heartbeat(w)
  PROVE  SmInv' /\ LifecycleStep /\ FinalStep
<1>1. UNCHANGED <<dbVars, call, filter>> /\ heartbeat' = [heartbeat EXCEPT ![w] = now]
  BY DEF Heartbeat, UpdateWorkerHeartbeat
<1>2. DbCore' /\ RetriesBounded' /\ Monotone /\ LifecycleStep /\ FinalStep
  BY SMTT(60), <1>1, DbSame
<1>3. SmTypeOK /\ SmTypeOK' /\ DbTypeOK'
  BY SMTT(60), <1>1, <1>2 DEF SmInv, SmTypeOK, DbCore, DbTypeOK, RegistryTypeOK
<1>4. \A u \in Updater : CallOK(u)'
  BY <1>1, <1>2, <1>3, CallKept DEF SmInv
<1>5. \A f \in Filter : FilterOK(f)'
  BY SMTT(60), <1>1, <1>2, <1>3, FilterKept DEF SmInv
<1> QED
  BY SMTT(60), <1>2, <1>3, <1>4, <1>5 DEF SmInv
-----------------------------------------------------------------------------
LEMMA SmInitInv == SmInit => SmInv /\ Abstract!LifecycleInit
<1> SUFFICES ASSUME SmInit PROVE SmInv /\ Abstract!LifecycleInit
  OBVIOUS
<1>1. DbCore
  BY DbInitInv DEF SmInit, DbInv
<1>2. Live = {} /\ used = {} /\ action = [o \in OperationId |-> None]
  BY SMTT(60) DEF SmInit, DbInit, Live
<1>3. SmTypeOK
  BY <1>1 DEF SmInit, SmTypeOK, DbCore, Call, FilterState, Idle, RegistryInit, RegistryTypeOK
<1>4. /\ \A u \in Updater : CallOK(u)
      /\ \A f \in Filter : FilterOK(f)
  BY ZenonT(60) DEF SmInit, Idle, CallOK, FilterOK
<1>5. Abstract!LifecycleInit
  BY <1>2 DEF Abstract!LifecycleInit, Abstraction
<1> QED
  BY SMTT(60), <1>1, <1>2, <1>3, <1>4, <1>5 DEF SmInv, RetriesBounded

LEMMA SmStepInv ==
  ASSUME SmInv, [SmNext]_smVars
  PROVE  SmInv' /\ LifecycleStep /\ FinalStep
<1>1. CASE DbStep
  BY SMTT(60), <1>1, DbStepSm
<1>2. ASSUME NEW u \in Updater, NEW req \in Request, CallUpdateOperation(u, req)
      PROVE  SmInv' /\ LifecycleStep /\ FinalStep
  BY <1>2, StartUpdateSm DEF CallUpdateOperation, WellFormed
<1>3. ASSUME NEW u \in Updater, ReadForUpdate(u) \/ CommitUpdate(u)
      PROVE  SmInv' /\ LifecycleStep /\ FinalStep
  BY <1>3, ReadForUpdateSm, CommitUpdateSm
<1>4. ASSUME NEW o \in OperationId, TimeoutOperationId(o)
      PROVE  SmInv' /\ LifecycleStep /\ FinalStep
  BY <1>4, TimeoutSm
<1>5. ASSUME NEW f \in Filter, FilterCommit(f) \/ FilterReload(f)
      PROVE  SmInv' /\ LifecycleStep /\ FinalStep
  BY <1>5, FilterCommitSm, FilterReloadSm
<1>6. ASSUME NEW f \in Filter, NEW o \in OperationId, FilterOperation(f, o)
      PROVE  SmInv' /\ LifecycleStep /\ FinalStep
  BY <1>6, FilterOperationSm
<1>7. ASSUME NEW w \in WorkerId, Heartbeat(w)
      PROVE  SmInv' /\ LifecycleStep /\ FinalStep
  BY <1>7, HeartbeatSm
<1>8. CASE UNCHANGED smVars
  <2>1. UNCHANGED <<dbVars, call, filter, heartbeat>>
    BY <1>8 DEF smVars
  <2>2. DbCore' /\ RetriesBounded' /\ Monotone /\ LifecycleStep /\ FinalStep
    BY <2>1, DbSame
  <2>3. SmTypeOK /\ SmTypeOK' /\ DbTypeOK'
    BY <2>1, <2>2 DEF SmInv, SmTypeOK, DbCore, RegistryTypeOK
  <2>4. \A u \in Updater : CallOK(u)'
    BY SMTT(60), <2>1, <2>2, <2>3, CallKept DEF SmInv
  <2>5. \A f \in Filter : FilterOK(f)'
    BY <2>1, <2>2, <2>3, FilterKept DEF SmInv
  <2> QED
    BY SMTT(60), <2>2, <2>3, <2>4, <2>5 DEF SmInv
<1> QED
  BY SMTT(60), <1>1, <1>2, <1>3, <1>4, <1>5, <1>6, <1>7, <1>8 DEF SmNext
-----------------------------------------------------------------------------
LEMMA SmInvariant == SmSpec => []SmInv
<1>1. SmInit => SmInv
  BY SmInitInv
<1>2. SmInv /\ [SmNext]_smVars => SmInv'
  BY SmStepInv
<1> QED
  BY <1>1, <1>2, PTL DEF SmSpec

\* The database, every call of inner_update_operation and every client timeout
\* check keep their types.
THEOREM SmTypeCorrect == SmSpec => []SmTypeOK
<1>1. SmInv => SmTypeOK
  BY DEF SmInv
<1> QED
  BY <1>1, SmInvariant, PTL

\* No interleaving of callers gives an operation more attempts than
\* max_job_retries allows, or leaves one executing without a worker.
THEOREM SmRetriesBounded == SmSpec => []RetriesBounded
<1>1. SmInv => RetriesBounded
  BY DEF SmInv
<1> QED
  BY <1>1, SmInvariant, PTL

\* The outcome of a finished operation never changes while it is stored: the
\* version check refuses every update computed from an older value.
THEOREM SmFinishedIsFinal == SmSpec => FinishedIsFinal
<1>1. SmInv /\ [SmNext]_smVars =>
        [\A o \in OperationId :
           (action[o] # None /\ IsFinished(action[o].stage) /\ action'[o] # None) =>
             [action'[o] EXCEPT !.clientSeen = 0] = [action[o] EXCEPT !.clientSeen = 0]]_smVars
  BY SmStepInv DEF FinalStep, OutcomeOf
<1> QED
  BY <1>1, SmInvariant, PTL DEF SmSpec, FinishedIsFinal

\* The state manager implements OperationLifecycle: every step of every caller
\* is one step of the lifecycle of one operation, or changes none.
THEOREM SmImplementsLifecycle == SmSpec => Lifecycle
<1>1. SmInit => Abstract!LifecycleInit
  BY SmInitInv
<1>2. SmInv /\ [SmNext]_smVars =>
        [Abstract!LifecycleNext]_<<[o \in OperationId |-> Abstraction(action[o])], used>>
  BY SmStepInv DEF LifecycleStep, Lives
<1> QED
  BY <1>1, <1>2, SmInvariant, PTL DEF SmSpec, Lifecycle, Abstract!LifecycleSpec
=============================================================================
