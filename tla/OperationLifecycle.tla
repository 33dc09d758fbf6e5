------------------------- MODULE OperationLifecycle -------------------------
(***************************************************************************)
(* What the scheduler promises about one operation, without versions,       *)
(* retries, timestamps or callers: it is queued, given to one worker at a   *)
(* time, queued again at most max_job_retries times at its own expense, and *)
(* completed once.  An operation forgotten with its last client never       *)
(* comes back.                                                              *)
(***************************************************************************)
EXTENDS Naturals

CONSTANTS OperationId, WorkerId, None, max_job_retries

VARIABLES
  op,     \* the operations the scheduler knows, None otherwise
  seen    \* the operations it ever knew

Fresh == [stage |-> "Queued", worker |-> None, attempts |-> 0]

Unfinished(o) == op[o] # None /\ op[o].stage # "Completed"

LifecycleInit == op = [o \in OperationId |-> None] /\ seen = {}

Submit(o) ==
  /\ o \notin seen
  /\ seen' = seen \cup {o}
  /\ op' = [op EXCEPT ![o] = Fresh]

Assign(o, w) ==
  /\ op[o] # None /\ op[o].stage = "Queued"
  /\ op' = [op EXCEPT ![o] = [stage |-> "Executing", worker |-> w,
                              attempts |-> op[o].attempts]]
  /\ UNCHANGED seen

\* An execution that did not count (charge 0) or failed (charge 1).
Requeue(o, charge) ==
  /\ Unfinished(o)
  /\ op[o].attempts + charge <= max_job_retries
  /\ op' = [op EXCEPT ![o] = [stage |-> "Queued", worker |-> None,
                              attempts |-> op[o].attempts + charge]]
  /\ UNCHANGED seen

\* The last word about the operation, of a worker or of the scheduler itself.
Complete(o, w, charge) ==
  /\ Unfinished(o)
  /\ op' = [op EXCEPT ![o] = [stage |-> "Completed", worker |-> w,
                              attempts |-> op[o].attempts + charge]]
  /\ UNCHANGED seen

Forget(o) ==
  /\ op[o] # None
  /\ op' = [op EXCEPT ![o] = None]
  /\ UNCHANGED seen

LifecycleNext ==
  \E o \in OperationId :
    \/ Submit(o) \/ Forget(o)
    \/ \E w \in WorkerId : Assign(o, w)
    \/ \E charge \in {0, 1} :
         Requeue(o, charge) \/ \E w \in WorkerId \cup {None} : Complete(o, w, charge)

LifecycleSpec == LifecycleInit /\ [][LifecycleNext]_<<op, seen>>
=============================================================================
