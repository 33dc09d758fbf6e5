--------------------------- MODULE BlobsAvailable ---------------------------
(***************************************************************************)
(* How the server learns which blobs a worker holds, for one worker        *)
(* process and its CAS endpoint: the worker's cache reports its insertions,*)
(* reads and evictions to a change tracker, out of order; the connection's *)
(* loop turns the tracker into a full snapshot or into deltas, which it    *)
(* keeps and sends again until the server acknowledges them; the server    *)
(* applies what arrives to its locality map and ties the endpoint's        *)
(* entries to the connection that owns the endpoint.                       *)
(*                                                                         *)
(* worker: nativelink-worker/src/local_worker.rs,                          *)
(*         nativelink-util/src/moka_evicting_map.rs                        *)
(* server: nativelink-service/src/worker_api_server.rs,                    *)
(*         nativelink-util/src/blob_locality_map.rs                        *)
(*                                                                         *)
(* A broadcast is one chunk.  A stamp (boot epoch, counter) is its place in *)
(* the lexicographic order of the stamps handed out so far: a new process  *)
(* goes on counting where the last one stopped.  The stamp 0 is            *)
(* Stamp::default(), which loses to every other.                           *)
(***************************************************************************)
EXTENDS Naturals, Sequences, FiniteSets, SequencesExt

CONSTANTS Digest,      \* the blobs
          MaxCounter,  \* bound: stamps the caches hand out
          MaxEpoch,    \* bound: processes that use the endpoint in turn
          Conn,        \* connections, 1 .. n, in the order they are made
          Setting,     \* what goes on in a behaviour at once
          Broadcast,   \* identities of the broadcasts under way
          ResendMax,   \* BLOBS_AVAILABLE_RESEND_MAX_CHUNKS
          MaxInbox,    \* bound: messages under way on one connection
          Gone,        \* no resident value, no entry
          NoChange     \* no change tracked

ASSUME BlobsOK ==
    /\ MaxCounter \in Nat \ {0}
    /\ MaxEpoch \in Nat \ {0}
    /\ Conn = 1 .. Cardinality(Conn)
    /\ ResendMax \in Nat \ {0}
    /\ MaxInbox > ResendMax
    /\ Setting \subseteq [conns : Conn, actions : BOOLEAN, readers : BOOLEAN]

VARIABLES
    setting,   \* connections made, whether actions run and readers read
    epoch,     \* the worker process, boot_epoch_id()
    counter,   \* the cache's clock: the last stamp it handed out
    held,      \* digest -> stamp frozen into the resident value, or Gone
    evicted,   \* evictions whose callback has not run yet
    tracker,   \* BlobChangeTracker: digest -> pending change, or NoChange
    outputs,   \* outputs of finished actions still to be announced
    resend,    \* BlobsAvailableResendBuffer, in broadcast order
    force,     \* blobs_available_force_full_snapshot
    tick,      \* where the connection's reporting loop is
    conn,      \* the worker's connection, or 0
    life,      \* each connection's task on the server
    inbox,     \* messages each connection's task has still to handle
    acks,      \* BlobsAvailableAcks on their way to the worker
    owner,     \* EndpointState: the owning connection and its boot epoch
    listed,    \* the endpoint's entry for each digest: its stamp, or Gone
    missed     \* digests a reader was told this worker does not hold

cache == <<setting, epoch, counter, held, evicted>>
reporting == <<tracker, outputs, resend, force, tick>>
server == <<life, owner, listed>>
vars == <<cache, reporting, server, conn, inbox, acks, missed>>

----------------------------------------------------------------------------
Stamp == 0 .. MaxCounter
Change == [state : {"present", "absent"}, stamp : Stamp]
Idle == [pc |-> "idle"]
NoOwner == [conn |-> 0, epoch |-> 0]
NoChanges == [d \in Digest |-> NoChange]
Nothing == [d \in Digest |-> Gone]

Delta(b, changes) == [full |-> FALSE, id |-> b, body |-> changes]
Full(ds) == [full |-> TRUE, body |-> ds]
Room(n) == conn # 0 /\ Len(inbox[conn]) + n <= MaxInbox

\* Identities in use; the code's counter never repeats one.
Ids(msgs) == {m.id : m \in {x \in Range(msgs) : ~x.full}}
Fresh == Broadcast \ (Ids(resend) \cup acks \cup UNION {Ids(inbox[c]) : c \in Conn}
                        \cup IF tick.pc = "buffer" THEN {tick.msg.id} ELSE {})

BaInit ==
    /\ setting \in Setting
    /\ epoch = 1 /\ counter = 0 /\ held = Nothing /\ evicted = {}
    /\ tracker = NoChanges /\ outputs = {} /\ resend = <<>> /\ force = FALSE
    /\ tick = Idle /\ conn = 0
    /\ life = [c \in Conn |-> "unused"]
    /\ inbox = [c \in Conn |-> <<>>]
    /\ acks = {} /\ owner = NoOwner /\ listed = Nothing /\ missed = {}

----------------------------------------------------------------------------
(* The worker's cache (moka_evicting_map.rs).  The eviction callback runs  *)
(* some time after the value left the map, in no order.                    *)

\* BlobChanges::apply: the newer change stays; at a tie the eviction wins.
Apply(change, old) ==
    IF old = NoChange \/ change.stamp > old.stamp
         \/ (change.stamp = old.stamp /\ change.state = "absent")
    THEN change ELSE old

Track(d, s, n) ==
    tracker' = [tracker EXCEPT ![d] = Apply([state |-> s, stamp |-> n], @)]

\* insert_inner: the value takes the next stamp and on_insert reports it.  The
\* listener skips the value it replaces.  The blob may be an action's output.
Insert(d) ==
    /\ counter < MaxCounter
    /\ counter' = counter + 1
    /\ held' = [held EXCEPT ![d] = counter + 1]
    /\ Track(d, "present", counter + 1)
    /\ \/ UNCHANGED outputs
       \/ setting.actions /\ outputs' = outputs \cup {d}
    /\ UNCHANGED <<setting, epoch, evicted, resend, force, tick, server, conn, inbox, acks, missed>>

\* The eviction listener freezes the stamp of the value it removes.
Evict(d) ==
    /\ held[d] # Gone
    /\ held' = [held EXCEPT ![d] = Gone]
    /\ evicted' = evicted \cup {<<d, held[d]>>}
    /\ UNCHANGED <<setting, epoch, counter, reporting, server, conn, inbox, acks, missed>>

\* process_eviction_event, when the drainer gets to it.
EvictionCallback(d, n) ==
    /\ <<d, n>> \in evicted
    /\ evicted' = evicted \ {<<d, n>>}
    /\ Track(d, "absent", n)
    /\ UNCHANGED <<setting, epoch, counter, held, outputs, resend, force, tick,
                   server, conn, inbox, acks, missed>>

\* get: a hit reports the resident value with its own stamp (fire_on_get).
Get(d) ==
    /\ held[d] # Gone
    /\ Track(d, "present", held[d])
    /\ UNCHANGED <<cache, outputs, resend, force, tick, server, conn, inbox, acks, missed>>

----------------------------------------------------------------------------
(* The connection's reporting loop, send_periodic_blobs_available          *)
(* (local_worker.rs).                                                      *)

Post(msgs) == inbox' = [inbox EXCEPT ![conn] = @ \o msgs]

\* A tick that a full buffer promoted takes a snapshot like the first one.
TickPromoted ==
    /\ conn # 0 /\ tick = Idle
    /\ force
    /\ force' = FALSE
    /\ tick' = [pc |-> "scan"]
    /\ UNCHANGED <<cache, tracker, outputs, resend, server, conn, inbox, acks, missed>>

\* A snapshot first scans the store,
TickScans ==
    /\ tick.pc = "scan"
    /\ tick' = [pc |-> "snapshot", body |-> {d \in Digest : held[d] # Gone}]
    /\ UNCHANGED <<cache, tracker, outputs, resend, force, server, conn, inbox, acks, missed>>

\* then throws the tracker's changes away.  A snapshot is never kept.  One large
\* enough to be chunked clears the buffer; a small one is sent as a single
\* message and leaves it alone.
TickSendsSnapshot ==
    /\ tick.pc = "snapshot" /\ Room(1)
    /\ tracker' = NoChanges
    /\ \E should_chunk \in BOOLEAN :
          resend' = IF should_chunk THEN <<>> ELSE resend
    /\ Post(<<Full(tick.body)>>)
    /\ tick' = Idle
    /\ UNCHANGED <<cache, outputs, force, server, conn, acks, missed>>

\* Any other tick sends the unacked chunks again, and after them the changes
\* the tracker holds; without changes there is nothing to send.
TickSendsDelta ==
    /\ conn # 0 /\ tick = Idle
    /\ ~force
    /\ \/ /\ tracker = NoChanges /\ Room(Len(resend))
          /\ Post(resend)
          /\ UNCHANGED tick
       \/ /\ tracker # NoChanges /\ Room(Len(resend) + 1)
          /\ Fresh # {}
          /\ LET msg == Delta(CHOOSE b \in Fresh : TRUE, tracker)
             IN  /\ Post(Append(resend, msg))
                 /\ tick' = [pc |-> "buffer", msg |-> msg]
    /\ tracker' = NoChanges
    /\ UNCHANGED <<cache, outputs, resend, force, server, conn, acks, missed>>

MutantBuffer(msg) ==
    /\ resend' = Append(resend, msg)
    /\ force' = (force \/ Len(resend) >= ResendMax)

\* buffer_delta_chunk and BlobsAvailableResendBuffer::add: a full buffer is
\* emptied, this chunk included, and the next tick is a snapshot.
Buffer(msg) ==
    LET over_cap == Len(resend) >= ResendMax
    IN  /\ resend' = IF over_cap THEN <<>> ELSE Append(resend, msg)
        /\ force' = (force \/ over_cap)

\* The chunk is kept only after it was sent: its ack may come first.
TickBuffers ==
    /\ tick.pc = "buffer"
    /\ Buffer(tick.msg)
    /\ tick' = Idle
    /\ UNCHANGED <<cache, tracker, outputs, server, conn, inbox, acks, missed>>

\* send_post_action_blobs_available_delta: outputs are reported without a
\* stamp, whatever became of the blob since.
PostAction(d) ==
    /\ d \in outputs /\ Room(1)
    /\ Fresh # {}
    /\ LET msg == Delta(CHOOSE b \in Fresh : TRUE,
                        [NoChanges EXCEPT ![d] = [state |-> "present", stamp |-> 0]])
       IN  Post(<<msg>>) /\ Buffer(msg)
    /\ outputs' = outputs \ {d}
    /\ UNCHANGED <<cache, tracker, tick, server, conn, acks, missed>>

\* handle_blobs_available_ack.
WorkerGetsAck(b) ==
    /\ b \in acks
    /\ acks' = acks \ {b}
    /\ resend' = SelectSeq(resend, LAMBDA m : m.id # b)
    /\ UNCHANGED <<cache, tracker, outputs, force, tick, server, conn, inbox, missed>>

----------------------------------------------------------------------------
(* Connections.                                                            *)

\* inner_connect_worker, then the snapshot the loop starts with.  The entries
\* of another process's owner are wiped; those of the same process stay until
\* the snapshot replaces them.
Connect(c) ==
    /\ conn = 0
    /\ life[c] = "unused" /\ \A b \in Conn : b < c => life[b] # "unused"
    /\ conn' = c
    /\ life' = [life EXCEPT ![c] = "live"]
    /\ listed' = IF owner # NoOwner /\ owner.epoch # epoch THEN Nothing ELSE listed
    /\ owner' = [conn |-> c, epoch |-> epoch]
    /\ tick' = [pc |-> "scan"]
    /\ UNCHANGED <<cache, tracker, outputs, resend, force, inbox, acks, missed>>

\* The stream breaks: what had not reached the server is lost, the loop and
\* the announcements of finished actions fail, the buffer stays.  (Bound: the
\* last connection does not break.)
Drops ==
    /\ conn # 0 /\ conn < setting.conns
    /\ conn' = 0
    /\ life' = [life EXCEPT ![conn] = "closing"]
    /\ \E n \in 0 .. Len(inbox[conn]) :
          inbox' = [inbox EXCEPT ![conn] = SubSeq(@, 1, n)]
    /\ acks' = {}
    /\ tick' = Idle
    /\ outputs' = {}

Disconnect ==
    /\ Drops
    /\ UNCHANGED <<cache, tracker, resend, force, owner, listed, missed>>

\* A new process finds the blobs on disk and stamps them anew; the changes it
\* tracks while it loads them are dropped by the first snapshot.
Restart ==
    /\ epoch < MaxEpoch /\ counter < MaxCounter
    /\ Drops
    /\ epoch' = epoch + 1
    /\ counter' = counter + 1
    /\ held' = [d \in Digest |-> IF held[d] = Gone THEN Gone ELSE counter + 1]
    /\ evicted' = {}
    /\ tracker' = NoChanges
    /\ resend' = <<>>
    /\ force' = FALSE
    /\ UNCHANGED <<setting, owner, listed, missed>>

----------------------------------------------------------------------------
(* The server: a connection's task (worker_api_server.rs) and the locality *)
(* map (blob_locality_map.rs).                                             *)

\* evict_gated: an eviction loses to a stored stamp that is newer.
Evicted(change, stored) ==
    IF stored # Gone /\ change.stamp >= stored THEN Gone ELSE stored

MutantRegistered(change, stored) ==
    IF stored # Gone /\ change.stamp > stored THEN change.stamp ELSE stored

\* register_gated: an absent entry is always added, a present one only
\* refreshed.
Registered(change, stored) ==
    IF stored = Gone \/ change.stamp > stored THEN change.stamp ELSE stored

Applied(change, stored) ==
    IF change = NoChange THEN stored
    ELSE IF change.state = "absent" THEN Evicted(change, stored)
                                    ELSE Registered(change, stored)

\* handle_blobs_available, whoever owns the endpoint by now.  A snapshot
\* replaces the endpoint's entries and stores no stamps; a delta is
\* acknowledged, to a connection that is still there.
Handle(c) ==
    /\ inbox[c] # <<>>
    /\ LET m == Head(inbox[c])
       IN  IF m.full
           THEN /\ listed' = [d \in Digest |-> IF d \in m.body THEN 0 ELSE Gone]
                /\ UNCHANGED acks
           ELSE /\ listed' = [d \in Digest |-> Applied(m.body[d], listed[d])]
                /\ acks' = IF c = conn THEN acks \cup {m.id} ELSE acks
    /\ inbox' = [inbox EXCEPT ![c] = Tail(@)]
    /\ UNCHANGED <<cache, reporting, life, owner, conn, missed>>

MutantForgets(c) == TRUE

\* The owner at the time a connection's task ends, or a later connection.
Forgets(c) == owner.conn = c

\* The end of the task: only the endpoint's owner takes the entries with it.
TaskEnds(c) ==
    /\ life[c] = "closing" /\ inbox[c] = <<>>
    /\ life' = [life EXCEPT ![c] = "ended"]
    /\ IF Forgets(c)
       THEN listed' = Nothing /\ owner' = NoOwner
       ELSE UNCHANGED <<listed, owner>>
    /\ UNCHANGED <<cache, reporting, conn, inbox, acks, missed>>

\* A reader that follows an entry is told the worker does not hold the blob,
ReaderMisses(d) ==
    /\ setting.readers
    /\ listed[d] # Gone /\ held[d] = Gone
    /\ missed' = missed \cup {d}
    /\ UNCHANGED <<cache, reporting, server, conn, inbox, acks>>

\* and removes the entry it finds by then (evict_blobs, without a stamp).
ReaderEvicts(d) ==
    /\ d \in missed
    /\ missed' = missed \ {d}
    /\ listed' = [listed EXCEPT ![d] = Gone]
    /\ UNCHANGED <<cache, reporting, life, owner, conn, inbox, acks>>

----------------------------------------------------------------------------
Tick == TickPromoted \/ TickScans \/ TickSendsSnapshot \/ TickSendsDelta \/ TickBuffers

BaNext ==
    \/ Tick
    \/ \E d \in Digest : \/ Insert(d) \/ Evict(d) \/ Get(d)
                         \/ PostAction(d) \/ ReaderMisses(d) \/ ReaderEvicts(d)
    \/ \E e \in evicted : EvictionCallback(e[1], e[2])
    \/ \E b \in acks : WorkerGetsAck(b)
    \/ \E c \in Conn : Connect(c) \/ Handle(c) \/ TaskEnds(c)
    \/ Disconnect \/ Restart

BaSpec == BaInit /\ [][BaNext]_vars

\* The loop wakes at the latest after max_interval and the server's task
\* reads its stream; callbacks, acks and readers are not held up for ever.
\* Nothing makes the cache change, a reader read or a connection break.
BaFairness ==
    /\ WF_vars(Tick)
    /\ WF_vars(\E e \in evicted : EvictionCallback(e[1], e[2]))
    /\ WF_vars(\E b \in acks : WorkerGetsAck(b))
    /\ \A c \in Conn : WF_vars(Handle(c)) /\ WF_vars(TaskEnds(c))
    /\ \A d \in Digest : WF_vars(ReaderEvicts(d))

BaFairSpec == BaSpec /\ BaFairness

----------------------------------------------------------------------------
\* The worker's and the server's state have their types, and the worker keeps
\* at most ResendMax chunks for replay (BlobsAvailableResendBuffer::add).
BaTypeOK ==
    /\ epoch \in 1 .. MaxEpoch /\ counter \in Stamp
    /\ held \in [Digest -> Stamp \cup {Gone}]
    /\ tracker \in [Digest -> Change \cup {NoChange}]
    /\ evicted \subseteq Digest \X (1 .. counter)
    /\ outputs \subseteq Digest /\ missed \subseteq Digest
    /\ Len(resend) <= ResendMax /\ force \in BOOLEAN
    /\ tick.pc \in {"idle", "scan", "snapshot", "buffer"}
    /\ conn \in Conn \cup {0}
    /\ life \in [Conn -> {"unused", "live", "closing", "ended"}]
    /\ \A c \in Conn : Len(inbox[c]) <= MaxInbox
    /\ acks \subseteq Broadcast
    /\ owner \in [conn : Conn \cup {0}, epoch : 0 .. MaxEpoch]
    /\ listed \in [Digest -> Stamp \cup {Gone}]

\* The worker's connection owns its endpoint, however late the tasks of the
\* connections before it end: their cleanup never takes the endpoint, and
\* with it the entries of the worker that is there, away.
LiveConnectionOwns == conn # 0 => owner = [conn |-> conn, epoch |-> epoch]

Settled ==
    /\ conn # 0 /\ tick = Idle /\ ~force
    /\ evicted = {} /\ tracker = NoChanges /\ outputs = {} /\ missed = {}
    /\ resend = <<>> /\ acks = {}
    /\ \A c \in Conn : inbox[c] = <<>> /\ life[c] # "closing"

\* register_gated's comment: "a resident blob can never wedge false-missing".
\* Once every report has been delivered and acknowledged, a blob the worker
\* holds has an entry.  (Not so: see HeldBlobHeals for what is left of it.)
ResidentListed == Settled => \A d \in Digest : held[d] # Gone => listed[d] # Gone

\* Whatever evictions, lost connections, replays and readers did to the
\* entry, a blob that stays on a connected worker and goes on being read is
\* in the end listed for good: a read reports the resident value.
HeldBlobHeals ==
    \A d \in Digest :
        (<>[](held[d] # Gone /\ conn # 0) /\ []<><<Get(d)>>_vars)
            => <>[](listed[d] # Gone)
=============================================================================
