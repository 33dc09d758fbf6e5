--------------------------- MODULE DirectoryCache ---------------------------
(***************************************************************************)
(* The worker's cache of input directories (directory_cache.rs): an action *)
(* asks for the tree of a root digest; the tree is built once under the    *)
(* construction lock of its digest (coalesce.rs), renamed to its place in  *)
(* the cache and entered in the map; the action pins the entry while it    *)
(* hardlinks the tree or, in direct-use mode, while it runs on it.         *)
(*                                                                         *)
(* One subtree common to all roots stands for the subtrees: the index says *)
(* in which cached tree it is found, the count in how many cached trees it *)
(* is, and the pending changes what the scheduler has yet to be told.      *)
(* The files of a tree, the ways to build it (subtree hits, fuzzy match,   *)
(* full) and the temporary directory are abstracted to their outcome.      *)
(***************************************************************************)
EXTENDS Naturals, Sequences, FiniteSets, SequencesExt, FiniteSetsExt

CONSTANTS Action,      \* the callers: actions, and prewarming
          Root,        \* root digests, all with the common subtree
          Weight,      \* the size of each tree
          MaxEntries,  \* config.max_entries
          MaxSize,     \* config.max_size_bytes, 0 for no limit
          MaxRestarts, \* bound: restarts of the worker
          Mode,        \* the settings to start from
          None

ASSUME DcOK ==
    /\ None \notin Action \union Root
    /\ IsFiniteSet(Action) /\ IsFiniteSet(Root)
    /\ Weight \in [Root -> Nat \ {0}]
    /\ MaxEntries \in Nat /\ MaxSize \in Nat /\ MaxRestarts \in Nat
    /\ Mode \subseteq [direct : BOOLEAN, faults : BOOLEAN,
                      callers : SUBSET Action, roots : SUBSET Root]

VARIABLES
    mode,      \* direct-use mode; whether calls, links and deletions fail and
               \* the worker dies; who asks, and for what
    call,      \* call[a]: where the call of a stands and the root it asks for; of a
               \* leader, the tree its new one links into (via) and the evicted
               \* ones it has yet to delete (victims)
    disk,      \* disk[r]: the directory at the cache path of r
    link,      \* link[r]: the tree that the directory of r links into
    cached,    \* the roots in the map, least recently used first
    refs,      \* refs[r]: ref_count of the entry
    lock,      \* lock[r]: the leader in construction_locks
    index,     \* subtree_index: the tree that holds the common subtree
    count,     \* subtree_refcount of the common subtree
    pending,   \* pending_subtree_changes: "added", "removed" or "none"
    told,      \* whether the scheduler lists the common subtree
    restarts,  \* bound
    poisoned,  \* history: trees found half-deleted at a restart
    trimmed    \* history: a restart has evicted

dcVars == <<mode, call, disk, link, cached, refs, lock, index, count, pending,
            told, restarts, poisoned, trimmed>>

treeVars == <<disk, link>>
reportVars == <<index, count, pending, told>>
pastVars == <<mode, restarts, poisoned, trimmed>>

Cached == Range(cached)

\* Where a caller owns a DirectoryCachePinGuard.
Holding == {"link", "relink", "using"}

\* Where a caller runs the construction of its root.
Leading == {"build", "built", "renamed", "indexed", "evict", "delete"}

Place == {"idle", "lock", "wait", "after"} \union Holding \union Leading

Idle == [at |-> "idle", root |-> None, via |-> None, victims |-> {}]

At(a) == call[a].at
Want(a) == call[a].root

\* The links in the directories that d has.
LinksIn(d) == [r \in Root |-> IF d[r] = "none" THEN None ELSE link[r]]

\* The call of a goes on to a place.
Go(a, to) == [call EXCEPT ![a].at = to]

\* The call of a returns.
Over(a) == [call EXCEPT ![a] = Idle]

SizeOf(R) == FoldSet(LAMBDA r, n : Weight[r] + n, 0, R)

(***************************************************************************)
(* Pins                                                                    *)
(***************************************************************************)

\* metadata.touch(): the entry becomes the most recently used.
Touched(r) == Append(Remove(cached, r), r)

\* from_already_pinned: found in the map under the read lock, pinned.
Pin(a, r, to) ==
    /\ r \in Cached
    /\ cached' = Touched(r)
    /\ refs' = [refs EXCEPT ![r] = @ + 1]
    /\ call' = [call EXCEPT ![a].at = to, ![a].root = r]

MutantUnpinned(a) == [refs EXCEPT ![Want(a)] = @ - 1]

MutantUnpinnedLate(a) ==
    IF At(a) = "using" THEN [refs EXCEPT ![Want(a)] = @ - 1] ELSE refs

\* Drop of the guard, on every way out of the call.
Unpinned(a) ==
    IF At(a) \in Holding THEN [refs EXCEPT ![Want(a)] = @ - 1] ELSE refs

(***************************************************************************)
(* get_or_create, get_or_create_direct and prewarm                         *)
(***************************************************************************)

\* The fast path pins the entry if the root is cached.
Ask(a, r) ==
    /\ At(a) = "idle"
    /\ a \in mode.callers /\ r \in mode.roots
    /\ \/ Pin(a, r, "link")
       \/ /\ r \notin Cached
          /\ call' = [call EXCEPT ![a].at = "lock", ![a].root = r]
          /\ UNCHANGED <<cached, refs>>
    /\ UNCHANGED <<treeVars, lock, reportVars, pastVars>>

\* The tree is linked to the action's directory.  A hardlinked copy needs the
\* entry no more; in direct-use mode the guard goes to the action.
Link(a) ==
    /\ At(a) \in {"link", "relink"}
    /\ call' = IF mode.direct THEN Go(a, "using") ELSE Over(a)
    /\ refs' = IF mode.direct THEN refs ELSE Unpinned(a)
    /\ UNCHANGED <<treeVars, cached, lock, reportVars, pastVars>>

\* Linking fails: the first time the caller goes on to construct the tree,
\* after a construction it reports an error.
LinkFails(a) ==
    /\ At(a) \in {"link", "relink"}
    /\ mode.faults
    /\ call' = IF At(a) = "link" THEN Go(a, "lock") ELSE Over(a)
    /\ refs' = Unpinned(a)
    /\ UNCHANGED <<treeVars, cached, lock, reportVars, pastVars>>

\* The construction is over: the entry is pinned, or was evicted meanwhile.
LookAgain(a) ==
    /\ At(a) = "after"
    /\ \/ Pin(a, Want(a), "relink")
       \/ /\ Want(a) \notin Cached
          /\ call' = Over(a)
          /\ UNCHANGED <<cached, refs>>
    /\ UNCHANGED <<treeVars, lock, reportVars, pastVars>>

\* The action ends, or the time of a prewarmed entry is over.
ReleaseUse(a) ==
    /\ At(a) = "using"
    /\ call' = Over(a)
    /\ refs' = Unpinned(a)
    /\ UNCHANGED <<treeVars, cached, lock, reportVars, pastVars>>

(***************************************************************************)
(* The construction lock                                                   *)
(***************************************************************************)

\* The leader a ends with a result: its waiters receive it, the slot is empty.
Publish(a, result) ==
    /\ call' = [b \in Action |->
                   IF b = a \/ (At(b) = "wait" /\ Want(b) = Want(a)) THEN result ELSE call[b]]
    /\ lock' = [lock EXCEPT ![Want(a)] = None]

Succeed(a) == Publish(a, [Idle EXCEPT !.at = "after", !.root = Want(a)])

MutantFail(a) == call' = Over(a) /\ UNCHANGED lock

Fail(a) == Publish(a, Idle)

\* The first caller leads, unless a look at the map shows that the tree has
\* been built since; the others wait.
Acquire(a) ==
    /\ At(a) = "lock"
    /\ \/ /\ lock[Want(a)] # None
          /\ call' = Go(a, "wait")
          /\ UNCHANGED lock
       \/ /\ lock[Want(a)] = None
          /\ Want(a) \in Cached
          /\ call' = Go(a, "after")
          /\ UNCHANGED lock
       \/ /\ lock[Want(a)] = None
          /\ Want(a) \notin Cached
          /\ call' = Go(a, "build")
          /\ lock' = [lock EXCEPT ![Want(a)] = a]
    /\ UNCHANGED <<treeVars, cached, refs, reportVars, pastVars>>

\* The waiter's own timeout.
WaiterTimesOut(a) ==
    /\ At(a) = "wait"
    /\ mode.faults
    /\ call' = Over(a)
    /\ UNCHANGED <<treeVars, cached, refs, lock, reportVars, pastVars>>

\* The caller's future is dropped (the action is aborted) or the leader
\* exceeds its time: the guards run, the rest of the body does not.  A removal
\* that has started is a blocking task and goes on to its end.
Cancel(a) ==
    /\ mode.faults
    /\ At(a) # "idle"
    /\ refs' = Unpinned(a)
    /\ IF At(a) \in Leading
       THEN Fail(a)
       ELSE call' = Over(a) /\ UNCHANGED lock
    /\ disk' = [r \in Root |->
                   IF r \in call[a].victims /\ disk[r] = "partial" THEN "none" ELSE disk[r]]
    /\ link' = LinksIn(disk')
    /\ UNCHANGED <<cached, reportVars, pastVars>>

(***************************************************************************)
(* Construction                                                            *)
(***************************************************************************)

\* The tree is built and validated in a temporary directory.  In direct-use
\* mode its copy of the common subtree links into the tree the index names, if
\* that is still there.
Build(a) ==
    /\ At(a) = "build"
    /\ LET hit == mode.direct /\ index # None /\ disk[index] = "whole"
       IN  call' = [call EXCEPT ![a].at = "built", ![a].via = IF hit THEN index ELSE None]
    /\ UNCHANGED <<treeVars, cached, refs, lock, reportVars, pastVars>>

BuildFails(a) ==
    /\ At(a) = "build"
    /\ mode.faults
    /\ Fail(a)
    /\ UNCHANGED <<treeVars, cached, refs, reportVars, pastVars>>

MutantVacant(r) == disk[r] # "whole"

\* fs::rename refuses a target that is a directory with something in it.
Vacant(r) == disk[r] = "none"

\* The tree takes its place, unless another is still there.
Rename(a) ==
    /\ At(a) = "built"
    /\ IF Vacant(Want(a))
       THEN /\ disk' = [disk EXCEPT ![Want(a)] = "whole"]
            /\ link' = [link EXCEPT ![Want(a)] = call[a].via]
            /\ call' = Go(a, "renamed")
            /\ UNCHANGED lock
       ELSE Fail(a) /\ UNCHANGED treeVars
    /\ UNCHANGED <<cached, refs, reportVars, pastVars>>

\* subtree_index, then record_subtree_insertion.
Record(a) ==
    /\ At(a) = "renamed"
    /\ index' = Want(a)
    /\ count' = count + 1
    /\ pending' = IF count = 0 THEN "added" ELSE pending
    /\ call' = Go(a, "indexed")
    /\ UNCHANGED <<treeVars, cached, refs, lock, told, pastVars>>

\* evict_lru_entry passes over the entries in use.
Evictable(r) == refs[r] = 0

\* collect_evictions: the least recently used entries that are not in use, as
\* many as make room for r, or all of them.
Evictions(r) ==
    LET lru == SelectSeq(cached, Evictable)
        left(n) == Cached \ Range(SubSeq(lru, 1, n))
        fits(n) == /\ Cardinality(left(n)) < MaxEntries
                   /\ MaxSize = 0 \/ SizeOf(left(n)) + Weight[r] <= MaxSize
        n == CHOOSE n \in 0..Len(lru) :
                 /\ fits(n) \/ n = Len(lru)
                 /\ \A k \in 0..(n - 1) : ~fits(k)
    IN  Range(SubSeq(lru, 1, n))

\* Under the write lock of the map: evict, insert with ref_count 0.
Insert(a) ==
    /\ At(a) = "indexed"
    /\ LET gone == Evictions(Want(a))
           rest == SelectSeq(cached, LAMBDA r : r \notin gone \union {Want(a)})
       IN  /\ cached' = Append(rest, Want(a))
           /\ refs' = [refs EXCEPT ![Want(a)] = 0]
           /\ IF gone = {}
              THEN Succeed(a)
              ELSE /\ call' = [call EXCEPT ![a].at = "evict", ![a].victims = gone]
                   /\ UNCHANGED lock
    /\ UNCHANGED <<treeVars, reportVars, pastVars>>

SaturatingSub(m, n) == IF m > n THEN m - n ELSE 0

MutantPendingRemoval(n) == IF n > 0 THEN "removed" ELSE pending

\* record_subtree_removal, for n trees with the common subtree.
PendingRemoval(n) == IF count \in 1..n THEN "removed" ELSE pending

\* remove_subtree_index_for_path, for every evicted tree: the metadata that
\* names its subtrees is read from its directory, which is still there.
Unindex(a) ==
    /\ At(a) = "evict"
    /\ index' = IF index \in call[a].victims THEN None ELSE index
    /\ count' = SaturatingSub(count, Cardinality(call[a].victims))
    /\ pending' = PendingRemoval(Cardinality(call[a].victims))
    /\ call' = Go(a, "delete")
    /\ UNCHANGED <<treeVars, cached, refs, lock, told, pastVars>>

\* remove_readonly_dir takes the directory apart, then it is gone.  One that
\* cannot be removed stays, with a warning.
DeleteStarts(a, r) ==
    /\ At(a) = "delete"
    /\ r \in call[a].victims
    /\ \A v \in call[a].victims : disk[v] = "whole"
    /\ disk' = [disk EXCEPT ![r] = "partial"]
    /\ UNCHANGED <<call, link, cached, refs, lock, reportVars, pastVars>>

MutantDeleted(r) == disk

Deleted(r) == [disk EXCEPT ![r] = "none"]

DeleteEnds(a, r) ==
    /\ At(a) = "delete"
    /\ r \in call[a].victims
    /\ disk[r] = "partial"
    /\ \/ disk' = Deleted(r)
       \/ mode.faults /\ UNCHANGED disk
    /\ link' = LinksIn(disk')
    /\ IF call[a].victims = {r}
       THEN Succeed(a)
       ELSE call' = [call EXCEPT ![a].victims = @ \ {r}] /\ UNCHANGED lock
    /\ UNCHANGED <<cached, refs, reportVars, pastVars>>

(***************************************************************************)
(* Reports and restarts                                                    *)
(***************************************************************************)

\* take_pending_subtree_changes, sent to the scheduler.
Report ==
    /\ pending # "none"
    /\ told' = (pending = "added")
    /\ pending' = "none"
    /\ UNCHANGED <<call, treeVars, cached, refs, lock, index, count, pastVars>>

Present == {r \in Root : disk[r] # "none"}

\* The first entries of a startup's list, oldest first, that do not fit.
StartupEvictions(loaded) ==
    LET left(n) == Range(SubSeq(loaded, n + 1, Len(loaded)))
        over(n) == \/ Cardinality(left(n)) > MaxEntries
                   \/ MaxSize > 0 /\ SizeOf(left(n)) > MaxSize
        n == CHOOSE n \in 0..Len(loaded) : ~over(n) /\ \A k \in 0..(n - 1) : over(k)
    IN  Range(SubSeq(loaded, 1, n))

\* The worker dies and new() loads what the disk holds: every directory named
\* by a digest, whatever is in it.  The index keeps the tree it met last if
\* that survives the startup's evictions; the count of a subtree that the
\* index has lost goes, the others keep the evicted trees in.  The first
\* report after the start lists all subtrees with a count.
Restart ==
    /\ mode.faults
    /\ restarts < MaxRestarts
    /\ restarts' = restarts + 1
    /\ poisoned' = poisoned \union {r \in Root : disk[r] = "partial"}
    /\ \E loaded \in SetToSeqs(Present), last \in Present \union {None} :
          LET gone == StartupEvictions(loaded)
              found == IF last \in gone THEN None ELSE last
          IN  /\ last = None <=> Present = {}
              /\ cached' = SelectSeq(loaded, LAMBDA r : r \notin gone)
              /\ disk' = [r \in Root |-> IF r \in gone THEN "none" ELSE disk[r]]
              /\ index' = found
              /\ count' = IF found = None THEN 0 ELSE Len(loaded)
              /\ told' = (found # None)
              /\ trimmed' = (trimmed \/ gone # {})
    /\ pending' = "none"
    /\ call' = [a \in Action |-> Idle]
    /\ refs' = [r \in Root |-> 0]
    /\ lock' = [r \in Root |-> None]
    /\ link' = LinksIn(disk')
    /\ UNCHANGED mode

(***************************************************************************)
(* The specification                                                       *)
(***************************************************************************)

DcInit ==
    /\ mode \in Mode
    /\ call = [a \in Action |-> Idle]
    /\ disk = [r \in Root |-> "none"]
    /\ link = [r \in Root |-> None]
    /\ cached = <<>>
    /\ refs = [r \in Root |-> 0]
    /\ lock = [r \in Root |-> None]
    /\ index = None
    /\ count = 0
    /\ pending = "none"
    /\ told = FALSE
    /\ restarts = 0
    /\ poisoned = {}
    /\ trimmed = FALSE

ConstructStep(a) ==
    \/ Build(a)
    \/ Rename(a)
    \/ Record(a)
    \/ Insert(a)
    \/ Unindex(a)
    \/ \E r \in Root : DeleteStarts(a, r) \/ DeleteEnds(a, r)

CallStep(a) ==
    \/ Link(a)
    \/ LookAgain(a)
    \/ Acquire(a)

FaultStep(a) ==
    \/ LinkFails(a)
    \/ WaiterTimesOut(a)
    \/ Cancel(a)
    \/ BuildFails(a)

DcNext ==
    \/ \E a \in Action :
          \/ \E r \in Root : Ask(a, r)
          \/ CallStep(a)
          \/ ConstructStep(a)
          \/ ReleaseUse(a)
          \/ FaultStep(a)
    \/ Report
    \/ Restart

DcSpec == DcInit /\ [][DcNext]_dcVars

\* The runtime keeps polling a call and a construction.
DcFairness == \A a \in Action : WF_dcVars(CallStep(a) \/ ConstructStep(a))

DcFairSpec == DcSpec /\ DcFairness

(***************************************************************************)
(* Properties                                                              *)
(***************************************************************************)

\* Every call stands at a place of its code with a root to ask for, and every
\* count, list and slot has its type.
DcTypeOK ==
    /\ mode \in Mode
    /\ call \in [Action -> [at : Place, root : Root \union {None},
                            via : Root \union {None}, victims : SUBSET Root]]
    /\ disk \in [Root -> {"none", "whole", "partial"}]
    /\ link \in [Root -> Root \union {None}]
    /\ IsInjective(cached) /\ Cached \subseteq Root
    /\ refs \in [Root -> 0..Cardinality(Action)]
    /\ lock \in [Root -> Action \union {None}]
    /\ index \in Root \union {None}
    /\ count \in Nat
    /\ pending \in {"none", "added", "removed"}
    /\ told \in BOOLEAN
    /\ restarts \in 0..MaxRestarts
    /\ poisoned \subseteq Root
    /\ trimmed \in BOOLEAN

\* The reference count of an entry is the number of calls that hold a guard of
\* it, on whatever path they came and are cut off, and a held entry is never
\* evicted (DirectoryCachePinGuard, evict_lru_entry).
PinsExact ==
    \A r \in Root :
        LET holders == {a \in Action : At(a) \in Holding /\ Want(a) = r}
        IN  /\ refs[r] = Cardinality(holders)
            /\ holders # {} => r \in Cached

\* The directory of a cached root is complete on disk: the late deletion of an
\* evicted tree never meets the tree that replaced it, and only a restart that
\* finds a half-deleted directory caches one.
CachedWhole == \A r \in Cached : disk[r] = "whole" \/ r \in poisoned

\* Once the pending changes are sent, the scheduler lists the common subtree
\* while a cached tree has it, and does not when no directory does, until a
\* restart evicts (record_subtree_insertion, record_subtree_removal).
SubtreesAdvertised ==
    LET listed == IF pending = "none" THEN told ELSE pending = "added"
    IN  ~trimmed /\ poisoned = {} =>
            /\ Cached # {} => listed
            /\ listed => Present # {}

\* A construction slot is held by the one caller that builds the root, and by
\* nobody once that caller is gone (LeaderGuard).
SlotHasLeader ==
    \A r \in Root, a \in Action : lock[r] = a <=> At(a) \in Leading /\ Want(a) = r

\* If no call is cut off, a directory without an entry gets its entry or is
\* deleted, so that its root can be built again.
DiskReclaimed ==
    \A r \in Root :
        (~mode.faults /\ r \in Present /\ r \notin Cached) ~>
            (r \notin Present \/ r \in Cached)

\* In direct-use mode the tree that an action runs on is complete, the part it
\* links to in another tree included (get_or_create_direct holds the entry for
\* the action's lifetime).
UsedWhole ==
    \A a \in Action : At(a) = "using" /\ link[Want(a)] # None => disk[link[Want(a)]] = "whole"
=============================================================================
