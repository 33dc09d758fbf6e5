--------------------------- MODULE WorkerProxyStore ---------------------------
(***************************************************************************)
(* WorkerProxyStore (nativelink-store/src/worker_proxy_store.rs): a read of *)
(* a blob goes to the inner store, and on a miss to the workers that the    *)
(* locality map names, one after the other, resuming where the last one     *)
(* stopped.  A whole-blob read of a peer goes through the SingleflightMap,  *)
(* and its bytes are also written into the inner store by a detached task.  *)
(* On a worker (race_peers) the inner store and one peer are raced.         *)
(*                                                                          *)
(* The blob is one digest of BlobSize units; what a reader has been sent is *)
(* the sequence of the units' positions.  A peer and the inner store may    *)
(* fail at any unit.  Their answer is one step: nobody else sees the stream *)
(* of a reader before it ends.                                              *)
(***************************************************************************)
EXTENDS SharedFlight, Naturals, FiniteSets, Sequences

CONSTANTS
  Peer,       \* worker endpoints
  BlobSize,   \* digest.size_bytes()
  Setting     \* who takes part: the readers, the peers, the calls of get_part
              \* as [off, len (None: to the end), worker], and the lists of
              \* endpoints that a redirect of the inner store may name

(* What a source ends with: NotFound and DataLoss are "gone".              *)
SourceCode == {"ok", "gone", "fail"}

ReadCode == SourceCode \cup {"redirect"}

(* Lists of different endpoints.                                           *)
PeerLists == {s \in UNION {[1 .. n -> Peer] : n \in 0 .. Cardinality(Peer)} :
                \A i, j \in DOMAIN s : s[i] = s[j] => i = j}

ASSUME ProxyOK ==
  /\ BlobSize \in Nat \ {0}
  /\ Key = {"digest"}
  /\ Outcome = SourceCode
  /\ Setting \subseteq
       [readers : SUBSET Caller, peers : SUBSET Peer,
        calls : SUBSET [off : 0 .. BlobSize - 1, len : {None} \cup 1 .. BlobSize,
                        worker : BOOLEAN],
        redirects : SUBSET (PeerLists \ {<<>>})]

VARIABLES
  setting,      \* one of Setting, for good
  racePeers,    \* race_peers
  locality,     \* lookup_workers(digest)
  innerHas,     \* the inner store holds the blob
  caching,      \* a detached cache task has all the bytes and has not ended
  rd            \* the readers

wpsVars == <<setting, racePeers, locality, innerHas, caching, rd>>

vars == <<flCall, wpsVars>>

NotReading ==
  [pc |-> "idle", req |-> None, loop |-> None, redirected |-> FALSE, eps |-> <<>>, off |-> 0, rem |-> None,
   base |-> 0, mark |-> 0, out |-> <<>>, open |-> TRUE, code |-> None]

Init ==
  /\ FlInit
  /\ setting \in Setting
  /\ racePeers \in BOOLEAN
  /\ locality = <<>>
  /\ innerHas \in BOOLEAN
  /\ caching = FALSE
  /\ rd = [r \in Caller |-> NotReading]

-----------------------------------------------------------------------------
(* Positions off, off + 1, ... of n units.                                 *)
Units(off, n) == [i \in 1 .. n |-> off + i - 1]

(* The units from off to the end.                                          *)
Rest(off) == IF off >= BlobSize THEN 0 ELSE BlobSize - off

(* owed_bytes.                                                             *)
Owed(off, len) == IF len = None \/ len >= Rest(off) THEN Rest(off) ELSE len

(* GrpcStore::get_part asks for effective_length units, and a read_limit   *)
(* of 0 means no limit on the wire.                                        *)
PeerSends(off, len) == IF Owed(off, len) = 0 THEN Rest(off) ELSE Owed(off, len)

Without(s, p) == SelectSeq(s, LAMBDA x : x # p)

(* should_evict_locality_on_peer_error.                                    *)
EvictsLocality(code) == code = "gone"

Asked(x) == Head(x.eps)

(* The end of get_part: an error is sent to the writer, EOF was sent.      *)
Done(x, code) ==
  [NotReading EXCEPT !.pc = "done", !.req = x.req, !.redirected = x.redirected,
                     !.out = x.out, !.code = code, !.open = FALSE]

(* A source sends n units and fails.                                       *)
Partial(x, off, n) == [x EXCEPT !.out = @ \o Units(off, n)]

Become(r, x) == rd' = [rd EXCEPT ![r] = x]

AwayFromFlight(r) == flCall[r].pc = "idle" /\ UNCHANGED flCall

-----------------------------------------------------------------------------
(* get_part: where a call starts.  A responder reads its inner store only; *)
(* a racer needs a peer and a connection to it.                            *)
Starts(r, q) ==
  LET x == [NotReading EXCEPT !.req = q, !.off = q.off, !.rem = q.len] IN
  \/ /\ racePeers /\ q.worker
     /\ Become(r, [x EXCEPT !.pc = "respond"])
  \/ /\ racePeers /\ ~q.worker /\ locality # <<>>
     /\ Become(r, [x EXCEPT !.pc = "race", !.eps = <<Head(locality)>>])
  \/ /\ racePeers => ~q.worker
     /\ Become(r, [x EXCEPT !.pc = "inner"])

Read(r) ==
  /\ r \in setting.readers
  /\ rd[r].pc = "idle"
  /\ AwayFromFlight(r)
  /\ \E q \in setting.calls : Starts(r, q)
  /\ UNCHANGED <<setting, racePeers, locality, innerHas, caching>>

(* inner.get_part serves the whole range.                                  *)
InnerServes(r) ==
  LET x == rd[r] IN
  /\ x.pc \in {"inner", "respond", "retry"}
  /\ AwayFromFlight(r)
  /\ innerHas /\ x.open
  /\ Become(r, Done(Partial(x, x.req.off, Owed(x.req.off, x.req.len)), "ok"))
  /\ UNCHANGED <<setting, racePeers, locality, innerHas, caching>>

(* inner.get_part fails.  Before the peers: after some units, or with a    *)
(* code that must not go to the peers, the read fails.  After the peers    *)
(* (the retry), and for a responder, it fails with the inner store's code. *)
InnerFails(r) ==
  LET x == rd[r] IN
  /\ x.pc \in {"inner", "respond", "retry"}
  /\ AwayFromFlight(r)
  /\ \E n \in 0 .. (IF x.open THEN Owed(x.req.off, x.req.len) ELSE 0),
        code \in {"gone", "fail"} :
       /\ x.pc = "inner" => n > 0 \/ code = "fail"
       /\ Become(r, Done(Partial(x, x.req.off, n), code))
  /\ UNCHANGED <<setting, racePeers, locality, innerHas, caching>>

(* The loop of try_read_from_worker starts: a snapshot of the locality map *)
(* and of the writer's position.                                           *)
TryWorkers(x) ==
  [x EXCEPT !.pc = "peers", !.loop = "workers", !.eps = locality,
            !.off = x.req.off, !.rem = x.req.len, !.base = Len(x.out)]

(* get_part_sequential: the inner store fails with nothing sent, and       *)
(* should_try_peers says yes.  A worker is sent the peers' names instead.  *)
InnerMisses(r) ==
  LET x == rd[r] IN
  /\ x.pc = "inner"
  /\ AwayFromFlight(r)
  /\ Become(r, IF ~x.req.worker THEN TryWorkers(x)
               ELSE Done(x, IF locality = <<>> THEN "gone" ELSE "redirect"))
  /\ UNCHANGED <<setting, racePeers, locality, innerHas, caching>>

(* get_part_sequential: the inner store answers with a redirect, which is  *)
(* followed (try_read_from_endpoints), or passed on to a worker.           *)
InnerRedirects(r) ==
  LET x == rd[r] IN
  /\ x.pc = "inner"
  /\ AwayFromFlight(r)
  /\ \E eps \in setting.redirects :
       Become(r, IF x.req.worker THEN Done(x, "redirect")
                 ELSE [x EXCEPT !.pc = "peers", !.loop = "redirect", !.eps = eps,
                                !.redirected = TRUE])
  /\ UNCHANGED <<setting, racePeers, locality, innerHas, caching>>

-----------------------------------------------------------------------------
(* The loops over the endpoints.  get_part_and_cache shares and caches     *)
(* whole-blob reads only.                                                  *)
ShouldCache(x) == x.off = 0 /\ x.rem = None

(* get_or_create_connection is None.                                       *)
NoConnection(r) ==
  /\ rd[r].pc = "peers"
  /\ AwayFromFlight(r)
  /\ rd[r].eps # <<>>
  /\ Become(r, [rd[r] EXCEPT !.eps = Tail(@)])
  /\ UNCHANGED <<setting, racePeers, locality, innerHas, caching>>

AskPeer(r) ==
  LET x == [rd[r] EXCEPT !.mark = Len(rd[r].out)] IN
  /\ rd[r].pc = "peers"
  /\ rd[r].eps # <<>>
  /\ IF ShouldCache(x)
     THEN Ask(r, "digest") /\ Become(r, [x EXCEPT !.pc = "flight"])
     ELSE AwayFromFlight(r) /\ Become(r, [x EXCEPT !.pc = "direct"])
  /\ UNCHANGED <<setting, racePeers, locality, innerHas, caching>>

(* After try_read_from_worker gave up: the inner store is only asked again *)
(* when no worker has sent anything.                                       *)
AfterWorkers(x) ==
  IF Len(x.out) > x.base THEN Done(x, "fail") ELSE [x EXCEPT !.pc = "retry"]

(* No endpoint is left: after a redirect the locality map is tried.        *)
NoPeerLeft(r) ==
  LET x == rd[r] IN
  /\ x.pc = "peers"
  /\ x.eps = <<>>
  /\ AwayFromFlight(r)
  /\ Become(r, IF x.loop = "redirect" THEN TryWorkers(x) ELSE AfterWorkers(x))
  /\ UNCHANGED <<setting, racePeers, locality, innerHas, caching>>

-----------------------------------------------------------------------------
(* One read of the endpoint at the head of the list, by get_part or by     *)
(* get_part_and_cache_inner: all the units and EOF; EOF alone, from a peer *)
(* that has an empty file; or some units and an error of the peer or, when *)
(* the consumer leaves, of the writer.  A closed writer takes nothing.     *)
PeerAnswers(x) ==
  LET k == PeerSends(x.off, x.rem)
      sent(n, code, open) ==
        [Partial(x, x.off, n) EXCEPT !.pc = "settle", !.code = code,
                                     !.open = open]
  IN {sent(n, code, x.open) : n \in 0 .. (IF x.open THEN k ELSE 0),
                              code \in {"gone", "fail"}}
     \cup IF ~x.open THEN {}
          ELSE {sent(k, "ok", FALSE), sent(0, "ok", FALSE)}
               \cup {sent(n, "fail", FALSE) : n \in 0 .. k - 1}

(* The cache task has every unit when the peer's stream was complete.      *)
Complete(x) == x.code = "ok" /\ Len(x.out) - x.mark = BlobSize

(* A read that is not shared: of a range, or by a waiter that found        *)
(* nothing in the inner store after its leader's success.                  *)
DirectRead(r) ==
  LET x == rd[r] IN
  /\ x.pc = "direct"
  /\ AwayFromFlight(r)
  /\ \E y \in PeerAnswers(x) :
       /\ Become(r, y)
       /\ caching' = (caching \/ (ShouldCache(x) /\ Complete(y)))
  /\ UNCHANGED <<setting, racePeers, locality, innerHas>>

(* The leader's fetch ends, and its result is published to the waiters.    *)
LeaderReads(r) ==
  /\ rd[r].pc = "flight"
  /\ \E y \in PeerAnswers(rd[r]) :
       /\ FlPublish(r, y.code)
       /\ Become(r, y)
       /\ caching' = (caching \/ Complete(y))
  /\ UNCHANGED <<setting, racePeers, locality, innerHas>>

BypassReads(r) ==
  /\ rd[r].pc = "flight"
  /\ \E y \in PeerAnswers(rd[r]) :
       /\ flCall[r].pc = "bypass" /\ Leave(r)
       /\ Become(r, y)
       /\ caching' = (caching \/ Complete(y))
  /\ UNCHANGED <<setting, racePeers, locality, innerHas>>

(* A waiter gets its leader's result: on success it reads the inner store. *)
WaiterGets(r) ==
  /\ rd[r].pc = "flight"
  /\ flCall[r].pc = "got" /\ Leave(r)
  /\ Become(r, [rd[r] EXCEPT !.pc = IF flCall[r].result = "ok" THEN "cached" ELSE "settle",
                             !.code = flCall[r].result])
  /\ UNCHANGED <<setting, racePeers, locality, innerHas, caching>>

(* The waiter's inner.get_part: served; missed with the writer untouched,  *)
(* so the peer is read after all; or failed.                               *)
WaiterReadsInner(r) ==
  LET x == rd[r] IN
  /\ x.pc = "cached"
  /\ AwayFromFlight(r)
  /\ \/ /\ innerHas /\ x.open
        /\ Become(r, [Partial(x, 0, BlobSize) EXCEPT !.pc = "settle", !.open = FALSE])
     \/ /\ ~innerHas /\ x.open
        /\ Become(r, [x EXCEPT !.pc = "direct"])
     \/ \E n \in 0 .. (IF x.open THEN BlobSize ELSE 0), code \in {"gone", "fail"} :
          /\ code = "gone" => n > 0 \/ ~x.open
          /\ Become(r, [Partial(x, 0, n) EXCEPT !.pc = "settle", !.code = code])
  /\ UNCHANGED <<setting, racePeers, locality, innerHas, caching>>

(* The other steps of singleflight(): a role is taken; the leader, its     *)
(* result published, returns.                                              *)
FlightStep(r) ==
  /\ \/ Lead(r) \/ Join(r) \/ JoinPublished(r) \/ Bypass(r)
     \/ rd[r].pc = "settle" /\ flCall[r].pc = "got" /\ Leave(r)
  /\ UNCHANGED wpsVars

-----------------------------------------------------------------------------
(* On to the next endpoint of the list.                                    *)
Onward(x) == [x EXCEPT !.pc = "peers", !.eps = Tail(@), !.mark = 0, !.code = None]

SaturatingSub(a, b) == IF a > b THEN a - b ELSE 0

MutantResumed(x) == Onward(x)

(* try_read_from_worker moves on to where the stream stopped;              *)
(* try_read_from_endpoints asks the next endpoint for the same range.      *)
Resumed(x) ==
  LET total == Len(x.out) - x.base
  IN IF x.loop = "redirect" THEN Onward(x)
     ELSE [Onward(x) EXCEPT !.off = x.req.off + total,
                    !.rem = IF @ = None THEN None
                            ELSE SaturatingSub(@, total)]

(* Ok with nothing sent when something was owed.                           *)
EmptyAnswer(x) == x.code = "ok" /\ Len(x.out) = x.mark /\ Owed(x.off, x.rem) > 0

(* The attempt at one endpoint is over.                                    *)
Settle(r) ==
  LET x == rd[r] IN
  /\ x.pc = "settle"
  /\ AwayFromFlight(r)
  /\ \/ /\ EmptyAnswer(x)
        /\ locality' = Without(locality, Asked(x))
        /\ Become(r, Onward(x))
     \/ /\ x.code = "ok" /\ ~EmptyAnswer(x)
        /\ Become(r, Done(x, "ok"))
        /\ UNCHANGED locality
     \/ /\ x.code # "ok"
        /\ locality' = IF EvictsLocality(x.code) THEN Without(locality, Asked(x))
                       ELSE locality
        /\ Become(r, Resumed(x))
  /\ UNCHANGED <<setting, racePeers, innerHas, caching>>

-----------------------------------------------------------------------------
(* The race of the inner store ("race", "awaitserver") and one peer        *)
(* ("race", "awaitpeer").  The first to send a unit wins and the other is  *)
(* cancelled; the winner's failure after that is the read's failure.  A    *)
(* racer that ends with nothing sent leaves the read to the other.         *)
Forwarded(x) ==
  LET k == Owed(x.req.off, x.req.len) IN
  {Done(Partial(x, x.req.off, n), "fail") : n \in 1 .. k}

RacerServes(x) == Done(Partial(x, x.req.off, Owed(x.req.off, x.req.len)), "ok")

RaceServer(r) ==
  LET x == rd[r] IN
  /\ x.pc \in {"race", "awaitserver"}
  /\ AwayFromFlight(r)
  /\ \/ innerHas /\ Become(r, RacerServes(x))
     \/ \E y \in Forwarded(x) : Become(r, y)
     \/ \E code \in {"gone", "fail"} :
          Become(r, IF x.pc = "race" THEN [x EXCEPT !.pc = "awaitpeer"] ELSE Done(x, code))
  /\ UNCHANGED <<setting, racePeers, locality, innerHas, caching>>

RacePeer(r) ==
  LET x == rd[r] IN
  /\ x.pc \in {"race", "awaitpeer"}
  /\ AwayFromFlight(r)
  /\ \/ Become(r, RacerServes(x)) /\ UNCHANGED locality
     \/ (\E y \in Forwarded(x) : Become(r, y)) /\ UNCHANGED locality
     \/ /\ \E code \in {"gone", "fail"} :
             Become(r, IF x.pc = "race" THEN [x EXCEPT !.pc = "awaitserver"] ELSE Done(x, code))
        /\ UNCHANGED locality
     \/ /\ x.pc = "race"                         \* EOF with nothing sent
        /\ Become(r, [x EXCEPT !.pc = "awaitserver"])
        /\ locality' = Without(locality, Asked(x))
  /\ UNCHANGED <<setting, racePeers, innerHas, caching>>

-----------------------------------------------------------------------------
(* The caller has seen the result.                                         *)
Return(r) ==
  /\ rd[r].pc = "done"
  /\ AwayFromFlight(r)
  /\ Become(r, NotReading)
  /\ UNCHANGED <<setting, racePeers, locality, innerHas, caching>>

(* The request is dropped at an await.                                     *)
Cancel(r) ==
  /\ \/ /\ rd[r].pc \in {"inner", "respond", "retry", "direct", "cached", "race",
                         "awaitpeer", "awaitserver"}
        /\ AwayFromFlight(r)
     \/ rd[r].pc = "flight" /\ (AbandonLead(r) \/ (flCall[r].pc \in {"wait", "bypass"} /\ Leave(r)))
  /\ Become(r, NotReading)
  /\ UNCHANGED <<setting, racePeers, locality, innerHas, caching>>

(* The detached task of get_part_and_cache_inner ends; the inner store     *)
(* evicts; the workers report what they hold.                              *)
CacheLands ==
  /\ caching
  /\ caching' = FALSE
  /\ innerHas' \in {innerHas, TRUE}
  /\ UNCHANGED <<flCall, setting, racePeers, locality, rd>>

InnerEvicts ==
  /\ innerHas
  /\ innerHas' = FALSE
  /\ UNCHANGED <<flCall, setting, racePeers, locality, caching, rd>>

PeerReports(p) ==
  /\ p \in setting.peers
  /\ \/ Without(locality, p) = locality /\ locality' = Append(locality, p)
     \/ Without(locality, p) # locality /\ locality' = Without(locality, p)
  /\ UNCHANGED <<flCall, setting, racePeers, innerHas, caching, rd>>

-----------------------------------------------------------------------------
ReadStep(r) ==
  \/ InnerServes(r) \/ InnerFails(r) \/ InnerMisses(r)
  \/ InnerRedirects(r)
  \/ NoConnection(r) \/ AskPeer(r) \/ NoPeerLeft(r)
  \/ DirectRead(r) \/ LeaderReads(r) \/ BypassReads(r)
  \/ WaiterGets(r) \/ WaiterReadsInner(r) \/ FlightStep(r)
  \/ Settle(r) \/ RaceServer(r) \/ RacePeer(r) \/ Return(r)

Next ==
  \/ \E r \in Caller : ReadStep(r) \/ Cancel(r) \/ Read(r)
  \/ CacheLands \/ InnerEvicts
  \/ \E p \in Peer : PeerReports(p)

Spec == Init /\ [][Next]_vars

(* A task that can move is run, and every RPC ends: it has a timeout.      *)
FairSpec == Spec /\ \A r \in Caller : WF_vars(ReadStep(r))

-----------------------------------------------------------------------------
ReaderPc ==
  {"idle", "inner", "respond", "peers", "flight", "direct", "cached", "settle",
   "retry", "race", "awaitpeer", "awaitserver", "done"}

(* The readers and the stores have their types; what a reader still wants  *)
(* (remaining_length, an unsigned number) never goes below zero.           *)
ProxyTypeOK ==
  /\ racePeers \in BOOLEAN /\ innerHas \in BOOLEAN /\ caching \in BOOLEAN
  /\ locality \in PeerLists
  /\ \A r \in Caller :
       /\ rd[r].pc \in ReaderPc
       /\ rd[r].req \in setting.calls \cup {None}
       /\ rd[r].eps \in PeerLists
       /\ rd[r].code \in ReadCode \cup {None}
       /\ rd[r].rem \in {None} \cup 0 .. BlobSize
       /\ \A i \in DOMAIN rd[r].out : rd[r].out[i] \in 0 .. BlobSize - 1
       /\ rd[r].pc \in {"flight", "direct", "cached", "settle"} => rd[r].eps # <<>>

Exact(r) == rd[r].out = Units(rd[r].req.off, Owed(rd[r].req.off, rd[r].req.len))

ReadOk(r) == rd[r].pc = "done" /\ rd[r].code = "ok"

(* A read to the end of the blob that succeeds has sent every unit once    *)
(* and in order, whatever mix of inner store, leaders, waiters, resumed    *)
(* peers and racers it took: a resumed peer starts where the last stopped, *)
(* and the inner store is not asked again once a peer has sent something.  *)
(* (Not so when a redirect was followed: RedirectReadExact.)               *)
FullReadExact ==
  \A r \in Caller :
    ReadOk(r) /\ rd[r].req.len = None /\ ~rd[r].redirected => Exact(r)

(* The same of a read that follows a redirect.  The comment on             *)
(* try_read_from_endpoints names the hazard, "partial_A_bytes ++           *)
(* full_B_bytes, silent corruption"; the code guards the batched path only.*)
RedirectReadExact ==
  \A r \in Caller : ReadOk(r) /\ rd[r].redirected => Exact(r)

(* The same of a read of a range from the peers of the locality map: "we   *)
(* resume from the next peer at the byte offset where the previous one     *)
(* left off", for the bytes that are left.                                 *)
RangedReadExact ==
  \A r \in Caller : ReadOk(r) /\ rd[r].req.len # None /\ ~rd[r].redirected => Exact(r)

(* Every read ends once leaders stop being cancelled, whoever leads,       *)
(* waits, is promoted or falls back: nobody waits for a flight that no one *)
(* is on.                                                                  *)
EveryReadEnds ==
  <>[][\A r \in Caller : ~AbandonLead(r)]_vars
    => \A r \in Caller : rd[r].pc # "idle" ~> rd[r].pc = "idle"
=============================================================================
