---------------------------- MODULE FastSlowStore ----------------------------
(***************************************************************************)
(* The server's two-tier store (fast_slow_store.rs): a write goes to the   *)
(* fast store in memory, is acknowledged, and reaches the slow store in a  *)
(* background task.  What a blob has between its acknowledgement and its   *)
(* durability is the map of writes in flight, the set of failed writes,    *)
(* which a periodic tick retries (failed_writes_drain.rs), and a pin in    *)
(* the fast store (moka_evicting_map.rs), which expires.  A write that is  *)
(* durable is told to the workers and unpinned (nativelink.rs).  At        *)
(* shutdown the store is flushed (flush_slow_writes of the store manager). *)
(*                                                                         *)
(* A blob is its digest.  Left out: mirrored blobs, chunked writes, the    *)
(* no-op and read-only directions, and the batching of the tick.           *)
(***************************************************************************)
EXTENDS Naturals, FiniteSets, FiniteSetsExt

CONSTANTS Digest,
          Writer,     \* slots for a write and its background task
          Reader,     \* callers of get_part and has_with_results
          Size,       \* Size[d]: the bytes of the blob
          max_bytes,  \* slow_writes_in_flight_max_bytes, 0 for no limit
          MaxWrites,  \* bound: writes
          MaxFails,   \* bound: failures of a store
          None

ASSUME FssOK ==
    /\ IsFiniteSet(Digest) /\ None \notin Digest
    /\ Size \in [Digest -> Nat \ {0}]
    /\ max_bytes \in Nat
    /\ MaxWrites \in Nat /\ MaxFails \in Nat

VARIABLES
    fast,       \* the blobs that a lookup in the fast store finds
    pinned,     \* those of them that are pinned
    expiring,   \* between the two maps of the fast store, at the end of a pin
    unpinning,  \* the same, for a pin that is given back
    slow,       \* the blobs in the slow store
    evicted,    \* what it has evicted, each blob once (a bound)
    evictions,  \* those of them whose callback has not run
    in_flight,  \* the keys of in_flight_slow_writes
    in_flight_bytes,
    failed,     \* failed_slow_writes
    stable,     \* stable_digests
    broadcast,  \* drained from stable_digests, not yet unpinned
    writer,     \* writer[w]: at, digest, and the state of its watchdog
    reader,     \* reader[r]: at, digest, and the history "sure"
    retry,      \* retry[d]: what the running tick has done with d
    cooling,    \* the tick's map of recent attempts, inflight
    flush,      \* the shutdown flush and its snapshots
    writes, fails,  \* bounds
    owed,       \* history: acknowledged, never yet in the slow store
    entrusted   \* history: of these, the ones left to a worker

fastVars == <<fast, pinned, expiring, unpinning>>
slowVars == <<slow, evicted, evictions, owed, entrusted>>
flightVars == <<in_flight, in_flight_bytes>>
stableVars == <<stable, broadcast>>
tickVars == <<retry, cooling>>
bounds == <<writes, fails>>
fssVars == <<fastVars, slowVars, flightVars, failed, stableVars, writer, reader,
             tickVars, flush, bounds>>

Bytes(D) == MapThenSumSet(LAMBDA d : Size[d], D)

IdleWriter == [at |-> "idle", digest |-> None, dog |-> "off"]
IdleReader == [at |-> "idle", digest |-> None, sure |-> FALSE]
NoFlush == [at |-> "off", keys |-> {}, risk |-> {}, todo |-> {}, got |-> {},
            errored |-> {}, owed |-> {}, beyond |-> {}]

FssInit ==
    /\ fast = {} /\ pinned = {} /\ expiring = {} /\ unpinning = {}
    /\ slow = {} /\ evicted = {} /\ evictions = {} /\ owed = {} /\ entrusted = {}
    /\ in_flight = {} /\ in_flight_bytes = 0
    /\ failed = {} /\ stable = {} /\ broadcast = {}
    /\ writer = [w \in Writer |-> IdleWriter]
    /\ reader = [r \in Reader |-> IdleReader]
    /\ retry = [d \in Digest |-> "none"] /\ cooling = {}
    /\ flush = NoFlush
    /\ writes = 0 /\ fails = 0

(***************************************************************************)
(* The slow store                                                          *)
(***************************************************************************)

\* The slow store has d: nothing is owed for it any more.
Land(d) ==
    /\ slow' = slow \union {d}
    /\ owed' = owed \ {d}
    /\ entrusted' = entrusted \ {d}
    /\ UNCHANGED <<evicted, evictions>>

\* What the flush still has to account for when d is durable.
FlushLanded(d) == [flush EXCEPT !.owed = @ \ {d}]

\* A write to the slow store that fails, which may have stored the blob.
SlowFails(d) ==
    /\ fails < MaxFails
    /\ fails' = fails + 1
    /\ \/ Land(d) /\ flush' = FlushLanded(d)
       \/ UNCHANGED <<slowVars, flush>>
    /\ UNCHANGED writes

SlowSucceeds(d) ==
    /\ Land(d)
    /\ flush' = FlushLanded(d)
    /\ UNCHANGED bounds

\* The slow store evicts a blob.  Its callback runs later.
SlowEvict(d) ==
    /\ d \in slow \ evicted
    /\ slow' = slow \ {d}
    /\ evicted' = evicted \union {d}
    /\ evictions' = evictions \union {d}
    /\ reader' = [r \in Reader |-> [reader[r] EXCEPT !.sure = @ /\ reader[r].digest # d]]
    /\ UNCHANGED <<owed, entrusted, fastVars, flightVars, failed, stableVars, writer,
                   tickVars, flush, bounds>>

\* SlowEvictionInvalidatesStableSetListener: a durability that was not yet
\* broadcast is taken back, and the blob is written again.
SlowEvictCallback(d) ==
    /\ d \in evictions
    /\ evictions' = evictions \ {d}
    /\ stable' = stable \ {d}
    /\ failed' = IF d \in stable THEN failed \union {d} ELSE failed
    /\ UNCHANGED <<slow, evicted, owed, entrusted, fastVars, flightVars, broadcast, writer,
                   reader, tickVars, flush, bounds>>

(***************************************************************************)
(* The fast store                                                          *)
(***************************************************************************)

\* pin_keys: a resident blob is pinned, or refused at the cap, which all the
\* blobs of the store share.
Pin(d) ==
    \/ d \in fast /\ pinned' = pinned \union {d}
    \/ d \notin pinned /\ UNCHANGED pinned

FastEvict(d) ==
    /\ d \in fast \ pinned
    /\ fast' = fast \ {d}
    /\ UNCHANGED <<pinned, expiring, unpinning, slowVars, flightVars, failed,
                   stableVars, writer, reader, tickVars, flush, bounds>>

\* expire_stale_pins takes the blob out of the map of pins ...
PinExpires(d) ==
    /\ d \in pinned
    /\ pinned' = pinned \ {d}
    /\ fast' = fast \ {d}
    /\ expiring' = expiring \union {d}
    /\ UNCHANGED <<unpinning, slowVars, flightVars, failed, stableVars, writer,
                   reader, tickVars, flush, bounds>>

\* ... and puts it into the cache.  PinExpireFailedWritesListener then has a
\* write that is still in flight tried again.
PinExpired(d) ==
    /\ d \in expiring
    /\ expiring' = expiring \ {d}
    /\ fast' = fast \union {d}
    /\ failed' = IF d \in in_flight THEN failed \union {d} ELSE failed
    /\ UNCHANGED <<pinned, unpinning, slowVars, flightVars, stableVars, writer,
                   reader, tickVars, flush, bounds>>

\* The loop that broadcasts drains stable_digests, tells the workers ...
DrainStable ==
    /\ broadcast = {} /\ unpinning = {}
    /\ stable # {}
    /\ broadcast' = stable
    /\ stable' = {}
    /\ UNCHANGED <<fastVars, slowVars, flightVars, failed, writer, reader,
                   tickVars, flush, bounds>>

\* ... and gives the pins back: unpin_key takes the blob out of one map ...
UnpinStart(d) ==
    /\ d \in broadcast
    /\ unpinning = {}
    /\ broadcast' = broadcast \ {d}
    /\ pinned' = pinned \ {d}
    /\ fast' = fast \ (pinned \intersect {d})
    /\ unpinning' = pinned \intersect {d}
    /\ UNCHANGED <<expiring, slowVars, flightVars, failed, stable, writer, reader,
                   tickVars, flush, bounds>>

\* ... and puts it into the other.
UnpinEnd ==
    /\ unpinning # {}
    /\ fast' = fast \union unpinning
    /\ unpinning' = {}
    /\ UNCHANGED <<pinned, expiring, slowVars, flightVars, failed, stableVars,
                   writer, reader, tickVars, flush, bounds>>

(***************************************************************************)
(* update and update_oneshot                                               *)
(***************************************************************************)

At(w) == writer[w].at
Blob(w) == writer[w].digest

Go(w, to) == [writer EXCEPT ![w].at = to]

\* A lookup asks the map of pins and then the cache, so that it may miss a blob
\* that is pinned in between: what it finds is one of these sets.
Lookups ==
    {fast \ D : D \in SUBSET {Blob(w) : w \in {v \in Writer :
        Blob(v) \in fast \ pinned /\ (At(v) \in {"pin", "gate", "err"} \/ writer[v].dog = "late")}}}

\* The blob goes to the fast store (a refusal changes nothing).  A pinned entry
\* is taken out of its map and put in again.
FastWrite(w, d) ==
    /\ writer[w] = IdleWriter
    /\ writes < MaxWrites
    /\ writes' = writes + 1
    /\ writer' = [writer EXCEPT ![w] = [IdleWriter EXCEPT
                      !.at = IF d \in pinned THEN "swap" ELSE "pin", !.digest = d]]
    /\ fast' = IF d \in pinned THEN fast \ {d} ELSE fast \union {d}
    /\ pinned' = pinned \ {d}
    /\ UNCHANGED <<expiring, unpinning, slowVars, flightVars, failed, stableVars,
                   reader, tickVars, flush, fails>>

FastSwapped(w) ==
    /\ At(w) = "swap"
    /\ writer' = Go(w, "pin")
    /\ fast' = fast \union {Blob(w)}
    /\ pinned' = pinned \union {Blob(w)}
    /\ UNCHANGED <<expiring, unpinning, slowVars, flightVars, failed, stableVars,
                   reader, tickVars, flush, bounds>>

\* The blob is pinned; once the store shuts down it is written at once.
PinWritten(w) ==
    /\ At(w) = "pin"
    /\ Pin(Blob(w))
    /\ writer' = Go(w, IF flush.at = "off" THEN "gate" ELSE "direct")
    /\ UNCHANGED <<fast, expiring, unpinning, slowVars, flightVars, failed,
                   stableVars, reader, tickVars, flush, bounds>>

\* The caller waits for the slow store and gets its answer.
DirectWrite(w) ==
    /\ At(w) = "direct"
    /\ writer' = [writer EXCEPT ![w] = IdleWriter]
    /\ SlowSucceeds(Blob(w)) \/ SlowFails(Blob(w))
    /\ UNCHANGED <<fastVars, flightVars, failed, stableVars, reader, tickVars>>

\* check_slow_writes_capacity_gate
GateOpen(d) == max_bytes = 0 \/ in_flight_bytes + Size[d] <= max_bytes

\* Over the cap the caller gets an error, and the blob is left to the retry.
Gate(w) ==
    /\ At(w) = "gate"
    /\ \/ /\ GateOpen(Blob(w))
          /\ writer' = Go(w, "insert")
          /\ UNCHANGED <<failed, pinned>>
       \/ /\ ~ GateOpen(Blob(w))
          /\ failed' = failed \union {Blob(w)}
          /\ Pin(Blob(w))
          /\ writer' = [writer EXCEPT ![w] = IdleWriter]
    /\ UNCHANGED <<fast, expiring, unpinning, slowVars, flightVars, stableVars,
                   reader, tickVars, flush, bounds>>

MutantInsertInFlight(d) ==
    /\ in_flight' = in_flight \union {d}
    /\ in_flight_bytes' = in_flight_bytes + Size[d]

\* The entry replaces one of the same digest; the counter moves by the
\* difference.
InsertInFlight(d) ==
    /\ in_flight' = in_flight \union {d}
    /\ in_flight_bytes' = in_flight_bytes + Size[d]
                             - (IF d \in in_flight THEN Size[d] ELSE 0)

\* The write is registered, its task and the task's watchdog are spawned, and
\* the caller gets its acknowledgement.
Acknowledge(w) ==
    /\ At(w) = "insert"
    /\ InsertInFlight(Blob(w))
    /\ writer' = [writer EXCEPT ![w].at = "write", ![w].dog = "armed"]
    /\ owed' = owed \union ({Blob(w)} \ (slow \union evicted))
    /\ entrusted' = entrusted \ {Blob(w)}
    /\ UNCHANGED <<slow, evicted, evictions, fastVars, failed, stableVars, reader, tickVars,
                   flush, bounds>>

\* The background write ends; "completed" stops a watchdog that has not
\* looked at it yet.
BackgroundWrite(w) ==
    /\ At(w) = "write"
    /\ \/ /\ SlowSucceeds(Blob(w))
          /\ writer' = [writer EXCEPT ![w].at = "ok",
                            ![w].dog = IF @ = "late" THEN @ ELSE "off"]
          /\ UNCHANGED reader
       \/ /\ SlowFails(Blob(w))
          /\ writer' = [writer EXCEPT ![w].at = "err",
                            ![w].dog = IF @ = "late" THEN @ ELSE "off"]
          /\ reader' = [r \in Reader |->
                 [reader[r] EXCEPT !.sure = @ /\ reader[r].digest # Blob(w)]]
    /\ UNCHANGED <<fastVars, flightVars, failed, stableVars, tickVars>>

\* Before the entry is removed, the success is queued for the broadcast, or
\* the failure for the retry.
Recover(w) ==
    \/ /\ At(w) = "ok"
       /\ stable' = stable \union {Blob(w)}
       /\ UNCHANGED <<failed, pinned>>
    \/ /\ At(w) = "err"
       /\ failed' = failed \union {Blob(w)}
       /\ Pin(Blob(w))
       /\ UNCHANGED stable

BackgroundRecover(w) ==
    /\ Recover(w)
    /\ writer' = Go(w, "remove")
    /\ UNCHANGED <<fast, expiring, unpinning, slowVars, flightVars, broadcast,
                   reader, tickVars, flush, bounds>>

\* The entry of the digest goes, whoever made it; the counter loses the bytes
\* that were removed.
BackgroundRemove(w) ==
    /\ At(w) = "remove"
    /\ in_flight' = in_flight \ {Blob(w)}
    /\ in_flight_bytes' = in_flight_bytes
                             - (IF Blob(w) \in in_flight THEN Size[Blob(w)] ELSE 0)
    /\ writer' = IF writer[w].dog = "off" THEN [writer EXCEPT ![w] = IdleWriter]
                                          ELSE Go(w, "idle")
    /\ UNCHANGED <<fastVars, slowVars, failed, stableVars, reader, tickVars, flush,
                   bounds>>

\* The watchdog wakes up and finds the write unfinished ...
WatchdogLooks(w) ==
    /\ writer[w].dog = "armed"
    /\ writer' = [writer EXCEPT ![w].dog = "late"]
    /\ UNCHANGED <<fastVars, slowVars, flightVars, failed, stableVars, reader,
                   tickVars, flush, bounds>>

MutantWatchdogQueues(w) == UNCHANGED <<failed, pinned>>

\* ... so the blob is queued for the retry and pinned again.
WatchdogQueues(w) ==
    /\ failed' = failed \union {Blob(w)}
    /\ Pin(Blob(w))

WatchdogFires(w) ==
    /\ writer[w].dog = "late"
    /\ WatchdogQueues(w)
    /\ writer' = IF At(w) = "idle" THEN [writer EXCEPT ![w] = IdleWriter]
                                   ELSE [writer EXCEPT ![w].dog = "off"]
    /\ UNCHANGED <<fast, expiring, unpinning, slowVars, flightVars, stableVars,
                   reader, tickVars, flush, bounds>>

(***************************************************************************)
(* get_part and has_with_results                                           *)
(***************************************************************************)

\* A reader is sure of a blob that is durable when it starts, or in flight with
\* no write of it about to leave the map, until a write of it fails or the slow
\* store evicts it.
Leaving(d) == \E w \in Writer : Blob(w) = d /\ At(w) \in {"ok", "err", "remove"}

StartRead(r, d, first) ==
    /\ reader[r].at \in {"idle", "missing", "absent"}
    /\ reader' = [reader EXCEPT ![r] = [at |-> first, digest |-> d,
                     sure |-> d \in slow \/ (d \in in_flight /\ ~ Leaving(d))]]
    /\ UNCHANGED <<fastVars, slowVars, flightVars, failed, stableVars, writer,
                   tickVars, flush, bounds>>

\* One tier is asked for the blob: answer it, or go on.
Probe(r, from, tier, hit, miss) ==
    /\ reader[r].at = from
    /\ reader' = [reader EXCEPT ![r] =
          IF @.digest \notin tier THEN [@ EXCEPT !.at = miss]
          ELSE IF hit = "found" THEN IdleReader ELSE [@ EXCEPT !.at = hit]]
    /\ UNCHANGED <<fastVars, slowVars, flightVars, failed, stableVars, writer,
                   tickVars, flush, bounds>>

MutantGetPart(r) ==
    \/ \E found \in Lookups : Probe(r, "get", found, "found", "getFlight")
    \/ Probe(r, "getFlight", slow, "fill", "getSlow")
    \/ Probe(r, "getSlow", in_flight, "found", "missing")

\* get_part asks the fast store, the writes in flight, the slow store.
GetPart(r) ==
    \/ \E found \in Lookups : Probe(r, "get", found, "found", "getFlight")
    \/ Probe(r, "getFlight", in_flight, "found", "getSlow")
    \/ Probe(r, "getSlow", slow, "fill", "missing")

\* The blob is copied to the fast store while it is read; the fast store may
\* refuse it.
Populate(r) ==
    /\ reader[r].at = "fill"
    /\ reader' = [reader EXCEPT ![r] = IdleReader]
    /\ fast' \in {fast, fast \union {reader[r].digest}}
    /\ UNCHANGED <<pinned, expiring, unpinning, slowVars, flightVars, failed,
                   stableVars, writer, tickVars, flush, bounds>>

\* has_with_results asks the slow store, then the writes in flight.
HasWithResults(r) ==
    \/ Probe(r, "has", slow, "found", "hasFlight")
    \/ Probe(r, "hasFlight", in_flight, "found", "absent")

(***************************************************************************)
(* drain_tick                                                              *)
(***************************************************************************)

\* The set of failed writes is emptied.  Recent attempts go back at the end of
\* the tick, the others are retried.
TickStart ==
    /\ \A d \in Digest : retry[d] = "none"
    /\ failed # {}
    /\ retry' = [d \in Digest |-> IF d \notin failed THEN "none"
                                  ELSE IF d \in cooling THEN "again" ELSE "queued"]
    /\ failed' = {}
    /\ UNCHANGED <<fastVars, slowVars, flightVars, stableVars, writer, reader,
                   cooling, flush, bounds>>

\* try_self_retry_slow_write: the blob is read from the fast store, where an
\* error counts as a miss ...
RetryRead(d) ==
    /\ retry[d] = "queued"
    /\ \/ /\ \E found \in Lookups :
                retry' = [retry EXCEPT ![d] = IF d \in found THEN "read" ELSE "miss"]
          /\ UNCHANGED fails
       \/ /\ d \in fast /\ fails < MaxFails
          /\ retry' = [retry EXCEPT ![d] = "miss"]
          /\ fails' = fails + 1
    /\ UNCHANGED <<fastVars, slowVars, flightVars, failed, stableVars, writer,
                   reader, cooling, flush, writes>>

\* ... and written to the slow store, within a timeout ...
RetryWrite(d) ==
    /\ retry[d] = "read"
    /\ \/ /\ SlowSucceeds(d)
          /\ retry' = [retry EXCEPT ![d] = "written"]
          /\ UNCHANGED cooling
       \/ /\ SlowFails(d)
          /\ retry' = [retry EXCEPT ![d] = "again"]
          /\ cooling' = cooling \union {d}
    /\ UNCHANGED <<fastVars, flightVars, failed, stableVars, writer, reader>>

\* ... and is queued for the broadcast.
RetryDone(d) ==
    /\ retry[d] = "written"
    /\ retry' = [retry EXCEPT ![d] = "none"]
    /\ failed' = failed \ {d}
    /\ stable' = stable \union {d}
    /\ cooling' = cooling \union {d}
    /\ UNCHANGED <<fastVars, slowVars, flightVars, broadcast, writer, reader, flush,
                   bounds>>

Retried(what) == {d \in Digest : retry[d] = what}

\* All retries are over: a blob that is not in the fast store is left to a
\* worker that has it, if there is one, and the others go back to the set.
TickEnd(given) ==
    /\ \A d \in Digest : retry[d] \in {"none", "again", "miss"}
    /\ \E d \in Digest : retry[d] # "none"
    /\ given \subseteq Retried("miss")
    /\ failed' = failed \union Retried("again") \union (Retried("miss") \ given)
    /\ cooling' = cooling \union Retried("miss")
    /\ entrusted' = entrusted \union (given \intersect owed)
    /\ retry' = [d \in Digest |-> "none"]
    /\ flush' = IF flush.at \in {"inFlight", "failed"}
                THEN [flush EXCEPT !.beyond = @ \union given] ELSE flush
    /\ UNCHANGED <<slow, evicted, evictions, owed, fastVars, flightVars, stableVars, writer,
                   reader, bounds>>

\* The cooldown of an attempt is over.
Cooled(d) ==
    /\ d \in cooling
    /\ cooling' = cooling \ {d}
    /\ UNCHANGED <<fastVars, slowVars, flightVars, failed, stableVars, writer,
                   reader, retry, flush, bounds>>

\* What the running tick holds and the set of failed writes does not.
Held == {d \in Digest : retry[d] # "none"}

(***************************************************************************)
(* The shutdown: flush_slow_writes, then flush_fast_to_slow_at_shutdown    *)
(***************************************************************************)

\* Of two tasks of one digest the first to end removes the entry: the other is
\* still writing, and in none of the sets.
Disowned ==
    {d \in Digest \ in_flight : \E w \in Writer : Blob(w) = d /\ At(w) \in {"write", "err"}}

FlushStep(from, to) == flush.at = from /\ flush' = to

FlushBegin == FlushStep("off", [flush EXCEPT !.at = "wait"])

\* Phase 1 ends when no write is in flight, or after its timeout.  Phase 2
\* lists the blobs that it finds in the fast store.
FlushList ==
    \E found \in Lookups :
        FlushStep("wait", [flush EXCEPT !.at = "inFlight", !.keys = found,
                               !.owed = owed \ entrusted])

\* at_risk: first the writes in flight ...
FlushInFlight ==
    FlushStep("inFlight", [flush EXCEPT !.at = "failed", !.risk = in_flight,
                               !.beyond = @ \union Disowned])

\* ... then the failed ones.
FlushFailed ==
    FlushStep("failed", [flush EXCEPT !.at = "drain", !.beyond = @ \union Held,
                             !.todo = flush.keys \intersect (flush.risk \union failed),
                             !.risk = {}])

MutantFlushSnapshot ==
    \/ FlushStep("inFlight", [flush EXCEPT !.at = "failed", !.risk = failed,
                                 !.beyond = @ \union Disowned])
    \/ FlushStep("failed", [flush EXCEPT !.at = "drain", !.beyond = @ \union Held,
                             !.todo = flush.keys \intersect (flush.risk \union in_flight),
                             !.risk = {}])

FlushSnapshot == FlushInFlight \/ FlushFailed

\* A blob at risk is read from the fast store ...
FlushRead(d) ==
    /\ d \in flush.todo
    /\ \E found \in Lookups :
           FlushStep("drain", [flush EXCEPT !.todo = @ \ {d},
                                   !.got = @ \union ({d} \intersect found),
                                   !.errored = @ \union ({d} \ found)])

\* ... and written to the slow store; a failure is counted.
FlushWrite(d) ==
    /\ flush.at = "drain"
    /\ d \in flush.got
    /\ \/ /\ Land(d)
          /\ flush' = [FlushLanded(d) EXCEPT !.got = @ \ {d}]
          /\ UNCHANGED fails
       \/ /\ fails < MaxFails
          /\ fails' = fails + 1
          /\ flush' = [flush EXCEPT !.got = @ \ {d}, !.errored = @ \union {d}]
          /\ Land(d) \/ UNCHANGED slowVars
    /\ UNCHANGED <<fastVars, flightVars, failed, stableVars, writer, reader,
                   tickVars, writes>>

FlushEnd ==
    /\ flush.todo = {} /\ flush.got = {}
    /\ FlushStep("drain", [flush EXCEPT !.at = "done"])

Flush ==
    \/ /\ \/ FlushBegin \/ FlushList \/ FlushSnapshot \/ FlushEnd
          \/ \E d \in Digest : FlushRead(d)
       /\ UNCHANGED <<fastVars, slowVars, flightVars, failed, stableVars, writer,
                      reader, tickVars, bounds>>
    \/ \E d \in Digest : FlushWrite(d)

(***************************************************************************)
(* The store                                                               *)
(***************************************************************************)

WriterStep(w) ==
    \/ \E d \in Digest : FastWrite(w, d)
    \/ FastSwapped(w) \/ PinWritten(w) \/ DirectWrite(w) \/ Gate(w) \/ Acknowledge(w)
    \/ BackgroundWrite(w) \/ BackgroundRecover(w) \/ BackgroundRemove(w)
    \/ WatchdogLooks(w) \/ WatchdogFires(w)

ReaderStep(r) ==
    \/ \E d \in Digest : StartRead(r, d, "get") \/ StartRead(r, d, "has")
    \/ GetPart(r) \/ Populate(r) \/ HasWithResults(r)

TierStep ==
    \/ \E d \in Digest : \/ SlowEvict(d) \/ SlowEvictCallback(d) \/ FastEvict(d)
                         \/ PinExpires(d) \/ PinExpired(d) \/ UnpinStart(d)
    \/ DrainStable \/ UnpinEnd

Tick ==
    \/ TickStart
    \/ \E given \in SUBSET Digest : TickEnd(given)

Retry(d) == RetryRead(d) \/ RetryWrite(d) \/ RetryDone(d)

FssNext ==
    \/ \E w \in Writer : WriterStep(w)
    \/ \E r \in Reader : ReaderStep(r)
    \/ TierStep
    \/ Tick
    \/ \E d \in Digest : Retry(d) \/ Cooled(d)
    \/ Flush

FssSpec == FssInit /\ [][FssNext]_fssVars

(***************************************************************************)
(* Properties                                                              *)
(***************************************************************************)

\* The pins are on resident blobs, a blob is in one map of the fast store at a
\* time, and the flush works on what it listed.
FssTypeOK ==
    /\ fast \subseteq Digest /\ pinned \subseteq fast
    /\ expiring \subseteq Digest /\ unpinning \subseteq Digest
    /\ slow \subseteq Digest /\ evicted \subseteq Digest /\ evictions \subseteq evicted
    /\ in_flight \subseteq Digest /\ in_flight_bytes \in Nat
    /\ failed \subseteq Digest /\ stable \subseteq Digest /\ broadcast \subseteq Digest
    /\ cooling \subseteq Digest
    /\ retry \in [Digest -> {"none", "queued", "read", "written", "miss", "again"}]
    /\ flush.todo \union flush.got \subseteq flush.keys
    /\ entrusted \subseteq owed /\ owed \intersect slow = {}

\* The counter that the capacity gate reads is the bytes of the map, whatever
\* writes of the same digest overlap (in_flight_slow_writes_bytes).
InFlightBytesExact == in_flight_bytes = Bytes(in_flight)

\* A blob that was acknowledged and has never been in the slow store is never
\* forgotten, even if its background write hangs: it is in the set of failed
\* writes, held by the running tick, left to a worker, or the watchdog or the
\* error of a write will put it into the set (the forward guarantee stated
\* where update registers the write).
AckedTracked ==
    owed \subseteq failed \union Held \union entrusted
       \union {Blob(w) : w \in {v \in Writer : At(v) = "err" \/ writer[v].dog # "off"}}

\* When the shutdown flush is over, every blob that was acknowledged and not
\* durable when it began, and whose bytes it found in the fast store, is
\* durable or counted as an error, except what was in none of the sets it
\* reads: held or given away by the tick, or disowned
\* (flush_fast_to_slow_at_shutdown).
FlushThorough ==
    flush.at = "done" =>
        (flush.owed \intersect flush.keys) \subseteq flush.errored \union flush.beyond

\* get_part never misses a blob that was in flight or durable when it began,
\* unless a write of it failed or the slow store evicted it meanwhile: the
\* tiers are asked in the order in which a blob moves.
ReadFinds == \A r \in Reader : reader[r].at = "missing" => ~ reader[r].sure

\* The same for has_with_results.
HasFinds == \A r \in Reader : reader[r].at = "absent" => ~ reader[r].sure

\* A durability that is queued for the broadcast is real, or its withdrawal is
\* on the way (the listener of slow evictions).
StableIsDurable == stable \subseteq slow \union evictions

\* FlushThorough without its exception: what is acknowledged and not durable is
\* all in the sets that the flush reads.
FlushComplete ==
    flush.at = "done" => (flush.owed \intersect flush.keys) \subseteq flush.errored

\* FlushThorough for a blob whose bytes only the map of writes in flight holds.
FlushDrainsResidue ==
    flush.at = "done" => flush.owed \subseteq flush.errored \union flush.beyond
=============================================================================
