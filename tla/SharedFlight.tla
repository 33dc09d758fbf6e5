----------------------------- MODULE SharedFlight -----------------------------
(***************************************************************************)
(* What SingleflightMap::singleflight (nativelink-store/src/singleflight.rs)*)
(* promises its callers, with no map, no Weak and no Drop: per key at most  *)
(* one caller leads; a caller that joins gets the very result that its      *)
(* leader published; when the leader is cancelled, those that waited for it *)
(* ask again.  SingleFlight is shown to implement this, and WorkerProxyStore*)
(* is built on it.                                                          *)
(***************************************************************************)
CONSTANTS
  Caller,    \* tasks that call singleflight()
  Key,       \* store keys
  Outcome,   \* what a fetch can end with
  None

VARIABLE flCall   \* where each caller is: [pc, key, lead, result]

Away == [pc |-> "idle", key |-> None, lead |-> None, result |-> None]

Asks(k) == [Away EXCEPT !.pc = "ask", !.key = k]

Gets(k, r) == [Away EXCEPT !.pc = "got", !.key = k, !.result = r]

FlInit == flCall = [c \in Caller |-> Away]

Leads(c, k) == flCall[c].pc = "lead" /\ flCall[c].key = k

Ask(c, k) ==
  /\ flCall[c].pc = "idle"
  /\ flCall' = [flCall EXCEPT ![c] = Asks(k)]

Lead(c) ==
  /\ flCall[c].pc = "ask"
  /\ ~\E d \in Caller : Leads(d, flCall[c].key)
  /\ flCall' = [flCall EXCEPT ![c].pc = "lead"]

Join(c) ==
  /\ flCall[c].pc = "ask"
  /\ \E d \in Caller :
       /\ Leads(d, flCall[c].key)
       /\ flCall' = [flCall EXCEPT ![c].pc = "wait", ![c].lead = d]

(* While someone still holds a published result, a caller may be given it. *)
JoinPublished(c) ==
  /\ flCall[c].pc = "ask"
  /\ \E d \in Caller :
       /\ flCall[d].pc = "got" /\ flCall[d].key = flCall[c].key
       /\ flCall' = [flCall EXCEPT ![c] = Gets(flCall[c].key, flCall[d].result)]

(* Too many bytes are in flight: the caller fetches on its own.            *)
Bypass(c) ==
  /\ flCall[c].pc = "ask"
  /\ flCall' = [flCall EXCEPT ![c].pc = "bypass"]

(* The leader and those that wait for it have the result.                  *)
FlPublish(c, r) ==
  /\ flCall[c].pc = "lead"
  /\ flCall' = [d \in Caller |-> IF d = c \/ flCall[d].lead = c
                                 THEN Gets(flCall[d].key, r) ELSE flCall[d]]

MutantAbandonLead(c) ==
  /\ flCall[c].pc = "lead"
  /\ flCall' = [flCall EXCEPT ![c] = Away]

AbandonLead(c) ==
  /\ flCall[c].pc = "lead"
  /\ flCall' = [d \in Caller |-> IF d = c THEN Away
                                 ELSE IF flCall[d].lead = c THEN Asks(flCall[d].key)
                                 ELSE flCall[d]]

(* A call returns or, unless it leads, is dropped.                         *)
Leave(c) ==
  /\ flCall[c].pc \in {"got", "bypass", "wait", "ask"}
  /\ flCall' = [flCall EXCEPT ![c] = Away]

FlNext ==
  \E c \in Caller :
    \/ \E k \in Key : Ask(c, k)
    \/ Lead(c) \/ Join(c) \/ JoinPublished(c) \/ Bypass(c)
    \/ \E r \in Outcome : FlPublish(c, r)
    \/ AbandonLead(c) \/ Leave(c)

FlSpec == FlInit /\ [][FlNext]_flCall
=============================================================================
