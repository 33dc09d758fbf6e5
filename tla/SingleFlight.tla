---------------------------- MODULE SingleFlight ----------------------------
(***************************************************************************)
(* SingleflightMap (nativelink-store/src/singleflight.rs): callers that ask *)
(* for the same key at the same time share one fetch.  The first caller     *)
(* leads: it fetches and publishes its result on a watch channel.  The      *)
(* others wait on that channel.  The map holds only a Weak of the entry, so *)
(* the entry lives as long as a caller holds it, and its Drop takes it out  *)
(* of the accounts and out of the map.                                      *)
(*                                                                          *)
(* Every step here is one lock section, one atomic operation or one drop of *)
(* the code, because callers run on different threads and any of them may  *)
(* be cancelled (its future dropped) at an await.                           *)
(***************************************************************************)
EXTENDS Naturals, FiniteSets, FiniteSetsExt

CONSTANTS
  Caller,             \* tasks that call singleflight()
  Key,                \* store keys
  Wants,              \* Wants[c]: the keys that c asks for
  Entry,              \* addresses an InflightEntry can be allocated at
  Size,               \* Size[k]: the expected_size a caller of k passes
  MaxInflightBytes,   \* max_inflight_bytes
  Outcome,            \* what a fetch can end with
  None

ASSUME SingleFlightOK ==
  /\ Size \in [Key -> Nat \ {0}]
  /\ Wants \in [Caller -> SUBSET Key]
  /\ MaxInflightBytes \in Nat
  /\ None \notin Entry \cup Key \cup Outcome

VARIABLES
  sfMap,      \* map: the Weak at each key, as the address it points at
  sfBytes,    \* current_inflight_bytes
  sfEntry,    \* what each allocated entry holds
  sfCall      \* where each caller is

sfVars == <<sfMap, sfBytes, sfEntry, sfCall>>

Idle == [pc |-> "idle", key |-> None, entry |-> None]

(* At the head of the loop of singleflight().                              *)
Asking(k) == [Idle EXCEPT !.pc = "acquire", !.key = k]

Freed == [key |-> None, result |-> None, open |-> FALSE]

(* A caller's Arc of its entry lives in these places of the code.          *)
Holding == {"lead", "published", "abandoned", "cancelled", "wait", "got", "purge", "purged"}

Pc == Holding \cup {"idle", "acquire", "bypass", "sub", "unmap", "subloop", "unmaploop"}

(* The map, the entries and the calls have their types, and the counter of *)
(* bytes, a u64 that Drop subtracts from, never goes below zero.           *)
SfTypeOK ==
  /\ sfMap \in [Key -> Entry \cup {None}]
  /\ sfBytes \in Nat
  /\ sfEntry \in [Entry -> [key : Key \cup {None}, result : Outcome \cup {None},
                            open : BOOLEAN]]
  /\ sfCall \in [Caller -> [pc : Pc, key : Key \cup {None}, entry : Entry \cup {None}]]

SfInit ==
  /\ sfMap = [k \in Key |-> None]
  /\ sfBytes = 0
  /\ sfEntry = [e \in Entry |-> Freed]
  /\ sfCall = [c \in Caller |-> Idle]

-----------------------------------------------------------------------------
(* Arc and Weak.                                                           *)

Holders(e) == {c \in Caller : sfCall[c].entry = e /\ sfCall[c].pc \in Holding}

(* strong_count() of the Weak that the map holds for an entry.             *)
StrongCount(e) == Cardinality(Holders(e))

(* Its Drop has begun and not ended: the address is not free yet, and it   *)
(* is not free either while the map holds a Weak to it.                    *)
Dropping(e) == \E c \in Caller :
  sfCall[c].entry = e /\ sfCall[c].pc \in {"sub", "unmap", "subloop", "unmaploop"}

Free(e) == Holders(e) = {} /\ ~Dropping(e) /\ \A k \in Key : sfMap[k] # e

Go(c, pc) == sfCall' = [sfCall EXCEPT ![c].pc = pc]

-----------------------------------------------------------------------------
(* A caller asks for a key.                                                *)
Singleflight(c, k) ==
  /\ sfCall[c].pc = "idle"
  /\ sfCall' = [sfCall EXCEPT ![c] = Asking(k)]
  /\ UNCHANGED <<sfMap, sfBytes, sfEntry>>

(* acquire_role, one section under the lock of the map.                    *)
AcquireWaiter(c) ==
  LET e == sfMap[sfCall[c].key] IN
  /\ sfCall[c].pc = "acquire"
  /\ e # None
  /\ StrongCount(e) > 0                    \* weak.upgrade() is Some
  /\ sfCall' = [sfCall EXCEPT ![c].pc = "wait", ![c].entry = e]
  /\ UNCHANGED <<sfMap, sfBytes, sfEntry>>

NoLiveEntry(c) ==
  /\ sfCall[c].pc = "acquire"
  /\ sfMap[sfCall[c].key] # None => StrongCount(sfMap[sfCall[c].key]) = 0

MutantOverCap(k) == sfBytes > MaxInflightBytes

OverCap(k) == sfBytes + Size[k] > MaxInflightBytes

AcquireBypass(c) ==
  /\ NoLiveEntry(c)
  /\ OverCap(sfCall[c].key)
  /\ Go(c, "bypass")
  /\ UNCHANGED <<sfMap, sfBytes, sfEntry>>

(* Addresses are only compared for equality: which free one the entry gets *)
(* does not matter.                                                        *)
AcquireLeader(c) ==
  LET k == sfCall[c].key
      e == CHOOSE x \in Entry : Free(x)
  IN
  /\ NoLiveEntry(c)
  /\ ~OverCap(k)
  /\ \E x \in Entry : Free(x)
  /\ sfEntry' = [sfEntry EXCEPT ![e] = [key |-> k, result |-> None, open |-> TRUE]]
  /\ sfMap' = [sfMap EXCEPT ![k] = e]
  /\ sfCall' = [sfCall EXCEPT ![c].pc = "lead", ![c].entry = e]
  /\ sfBytes' = sfBytes + Size[k]

-----------------------------------------------------------------------------
(* The fetcher of a leader or of a caller past the cap returns.            *)
BypassReturns(c) ==
  /\ sfCall[c].pc = "bypass"
  /\ sfCall' = [sfCall EXCEPT ![c] = Idle]
  /\ UNCHANGED <<sfMap, sfBytes, sfEntry>>

(* run_as_leader: tx.send(Some(result)).                                   *)
Publish(c, r) ==
  /\ sfCall[c].pc = "lead"
  /\ sfEntry' = [sfEntry EXCEPT ![sfCall[c].entry].result = r]
  /\ Go(c, "published")
  /\ UNCHANGED <<sfMap, sfBytes>>

(* The leader's future is dropped: the sender goes before the entry.       *)
CancelLeader(c) ==
  /\ sfCall[c].pc = "lead"
  /\ sfEntry' = [sfEntry EXCEPT ![sfCall[c].entry].open = FALSE]
  /\ Go(c, "abandoned")
  /\ UNCHANGED <<sfMap, sfBytes>>

(* The future of a waiter or of a caller past the cap is dropped.          *)
CancelOther(c) ==
  /\ \/ sfCall[c].pc = "wait" /\ Go(c, "cancelled")
     \/ sfCall[c].pc = "bypass" /\ sfCall' = [sfCall EXCEPT ![c] = Idle]
  /\ UNCHANGED <<sfMap, sfBytes, sfEntry>>

(* run_as_waiter: the value is there, before or after the wait.            *)
WaiterResult(c) ==
  /\ sfCall[c].pc = "wait"
  /\ sfEntry[sfCall[c].entry].result # None
  /\ Go(c, "got")
  /\ UNCHANGED <<sfMap, sfBytes, sfEntry>>

(* run_as_waiter: the channel closed with no value, the leader is gone.    *)
WaiterPromote(c) ==
  /\ sfCall[c].pc = "wait"
  /\ sfEntry[sfCall[c].entry].result = None
  /\ ~sfEntry[sfCall[c].entry].open
  /\ Go(c, "purge")
  /\ UNCHANGED <<sfMap, sfBytes, sfEntry>>

MutantPurgeSlot(k, e) == [sfMap EXCEPT ![k] = None]

MutantPurgeNothing(k, e) == sfMap

(* purge_canceled_slot: only when the map still points at this entry.      *)
PurgeSlot(k, e) == IF sfMap[k] = e THEN [sfMap EXCEPT ![k] = None] ELSE sfMap

PurgeCanceledSlot(c) ==
  /\ sfCall[c].pc = "purge"
  /\ sfMap' = PurgeSlot(sfCall[c].key, sfCall[c].entry)
  /\ Go(c, "purged")
  /\ UNCHANGED <<sfBytes, sfEntry>>

-----------------------------------------------------------------------------
(* A caller drops its Arc.  Whoever drops the last one runs Drop: it gives *)
(* the bytes back, and only then takes the lock and looks at the map.      *)
LastHolder(c) == Holders(sfCall[c].entry) = {c}

Release(c) ==
  /\ sfCall[c].pc \in {"published", "abandoned", "cancelled", "got", "purged"}
  /\ LET loop == sfCall[c].pc = "purged"
     IN IF LastHolder(c) THEN Go(c, IF loop THEN "subloop" ELSE "sub")
        ELSE sfCall' = [sfCall EXCEPT ![c] =
               IF loop THEN Asking(sfCall[c].key) ELSE Idle]
  /\ UNCHANGED <<sfMap, sfBytes, sfEntry>>

DropSub(c) ==
  /\ sfCall[c].pc \in {"sub", "subloop"}
  /\ sfBytes' = sfBytes - Size[sfEntry[sfCall[c].entry].key]
  /\ Go(c, IF sfCall[c].pc = "sub" THEN "unmap" ELSE "unmaploop")
  /\ UNCHANGED <<sfMap, sfEntry>>

MutantUnmapDead(k) == [sfMap EXCEPT ![k] = None]

MutantNeverUnmap(k) == sfMap

(* The Weak in the map may be a successor's by now: it stays when alive.   *)
UnmapDead(k) ==
  IF sfMap[k] # None /\ StrongCount(sfMap[k]) = 0
  THEN [sfMap EXCEPT ![k] = None] ELSE sfMap

DropUnmap(c) ==
  /\ sfCall[c].pc \in {"unmap", "unmaploop"}
  /\ sfMap' = UnmapDead(sfEntry[sfCall[c].entry].key)
  /\ sfCall' = [sfCall EXCEPT ![c] =
       IF sfCall[c].pc = "unmap" THEN Idle ELSE Asking(sfCall[c].key)]
  /\ sfEntry' = [sfEntry EXCEPT ![sfCall[c].entry] = Freed]
  /\ UNCHANGED sfBytes

-----------------------------------------------------------------------------
(* What a caller does once it has called, besides being cancelled.         *)
SfStep(c) ==
  \/ AcquireWaiter(c) \/ AcquireBypass(c) \/ AcquireLeader(c)
  \/ BypassReturns(c) \/ (\E r \in Outcome : Publish(c, r))
  \/ WaiterResult(c) \/ WaiterPromote(c) \/ PurgeCanceledSlot(c)
  \/ Release(c) \/ DropSub(c) \/ DropUnmap(c)

SfNext ==
  \E c \in Caller :
    \/ \E k \in Wants[c] : Singleflight(c, k)
    \/ SfStep(c)
    \/ CancelLeader(c) \/ CancelOther(c)

SfSpec == SfInit /\ [][SfNext]_sfVars

(* Tasks are scheduled fairly and a fetch ends (it has a timeout of its    *)
(* own); nobody has to call, and nobody has to be cancelled.               *)
SfFairSpec == SfSpec /\ \A c \in Caller : WF_sfVars(SfStep(c))

-----------------------------------------------------------------------------
(* The promise of SharedFlight, read off the entries: a call that holds a  *)
(* published entry has its result; one that holds the entry of a leader    *)
(* that is gone asks again; a cancelled call leaves when it drops its Arc. *)
LeaderOf(e) == CHOOSE c \in Caller : sfCall[c].pc = "lead" /\ sfCall[c].entry = e

SharedCall(c) ==
  LET e == sfCall[c].entry
      k == sfCall[c].key
      call(pc) == [pc |-> pc, key |-> k, lead |-> None, result |-> None]
      holds == sfCall[c].pc \in {"published", "wait", "cancelled", "got"}
  IN CASE sfCall[c].pc \in {"idle", "abandoned", "sub", "unmap"} ->
            [call("idle") EXCEPT !.key = None]
       [] sfCall[c].pc \in {"lead", "bypass"} -> call(sfCall[c].pc)
       [] holds /\ sfEntry[e].result # None -> [call("got") EXCEPT !.result = sfEntry[e].result]
       [] holds /\ sfEntry[e].result = None /\ sfEntry[e].open ->
            [call("wait") EXCEPT !.lead = LeaderOf(e)]
       [] OTHER -> call("ask")

Shared == INSTANCE SharedFlight WITH flCall <- [c \in Caller |-> SharedCall(c)]

(* The calls behave as if singleflight() were SharedFlight: a waiter's     *)
(* result is its own leader's, never that of a later or an earlier flight  *)
(* on the same key, although addresses and map slots are reused and drops  *)
(* interleave with new flights.                                            *)
SharedSpec == Shared!FlSpec

(* At most one caller fetches a key as its leader, whatever callers are    *)
(* cancelled and however the drops of an old entry interleave with the     *)
(* insertion of a new one: purge_canceled_slot compares pointers and Drop  *)
(* leaves a live Weak alone, so neither takes a successor's entry out.     *)
OneLeaderPerKey ==
  \A k \in Key : Cardinality({c \in Caller : sfCall[c].pc = "lead" /\ sfCall[c].key = k}) <= 1

(* The bytes reserved are those of the entries that are alive or whose     *)
(* Drop has not given them back, never more than the cap: check and        *)
(* addition are one section under the lock of the map.                     *)
ReservedWithinCap ==
  /\ sfBytes <= MaxInflightBytes
  /\ sfBytes = FoldSet(LAMBDA e, acc : acc + Size[sfEntry[e].key], 0,
       {e \in Entry : \/ Holders(e) # {}
                      \/ \E c \in Caller : /\ sfCall[c].entry = e
                                           /\ sfCall[c].pc \in {"sub", "subloop"}})

(* When every call has returned, the map is empty and no byte is reserved: *)
(* no order of cancellations and drops leaks a slot or a reservation.      *)
SlotsReclaimed ==
  (\A c \in Caller : sfCall[c].pc = "idle") => sfBytes = 0 /\ \A k \in Key : sfMap[k] = None

(* Every call returns, once leaders stop being cancelled: a waiter whose   *)
(* leader is gone is promoted and does not bounce for ever off the dead    *)
(* slot.  (New leaders that are cancelled for ever can keep a waiter.)     *)
EveryCallReturns ==
  <>[][\A c \in Caller : ~CancelLeader(c)]_sfVars
    => \A c \in Caller : sfCall[c].pc # "idle" ~> sfCall[c].pc = "idle"
=============================================================================
