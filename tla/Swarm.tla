-------------------------------- MODULE Swarm --------------------------------
(***************************************************************************)
(* The peers of peer.c and process_packets.c exchanging chunks over a      *)
(* network that delays, drops and duplicates packets.                      *)
(*                                                                         *)
(* A peer is one thread: a select loop that handles one packet or one user *)
(* command at a time, and the SIGALRM handler.  Here every handler, the    *)
(* signal handler among them, runs as one step.  What the handlers do with *)
(* the pools, the chunk table and the network is in ConnectionPool,        *)
(* Timeout, Chunks and Network.                                            *)
(***************************************************************************)
EXTENDS Timeout, Chunks, Network

CONSTANTS
    chunks_IHAVE,    \* chunks_IHAVE[p]: the hashes of p's has_chunk_file
    max_conn,        \* max_conn[p]: config.max_conn of p
    ChunkFiles,      \* ChunkFiles[p]: the chunk files p's user may ask for
    DUPLICATE_LIMIT, \* duplicate ACKs that trigger a retransmission (3)
    (* The environment. *)
    Reordered,       \* whether packets of one sender may overtake each other
    LossyTypes,      \* the packet types that may be lost on the way
    Patient,         \* whether answers always arrive before the next SIGALRM
    Overlap,         \* whether a user may GET while a download is under way
    Mortal,          \* the peers that may be killed and started again
    (* The bounds. *)
    MaxLoss,         \* packets lost
    MaxDuplicate,    \* packets duplicated
    MaxDeath,        \* peers killed
    MaxGet           \* commands of one user

ASSUME Peers_Assumption ==
    /\ IsFiniteSet(Peer)
    /\ chunks_IHAVE \in [Peer -> SUBSET Hash]
    /\ max_conn \in [Peer -> Nat \ {0}]
    /\ ChunkFiles \in [Peer -> SUBSET ChunkFile]
ASSUME Limits_Assumption ==
    DUPLICATE_LIMIT \in Nat \ {0}
ASSUME Environment_Assumption ==
    /\ Reordered \in BOOLEAN /\ Patient \in BOOLEAN /\ Overlap \in BOOLEAN
    /\ Mortal \subseteq Peer
    /\ MaxLoss \in Nat /\ MaxDuplicate \in Nat /\ MaxDeath \in Nat
    /\ MaxGet \in Nat

VARIABLES
    (* chunks_to_get of each peer *)
    table,            \* whether its arrays are not yet, now, or no more in use
    chunks,
    statuses,
    chunks_data,
    is_download_done,
    (* connections and timer of each peer *)
    download_pool,
    upload_pool,
    alarm,            \* whether a SIGALRM is due
    run,              \* whether the process runs, crashed or was killed
    (* environment *)
    net,
    lost, duplicated, died, gets  \* how much of the bounds is used up

tableVars == <<table, chunks, statuses, chunks_data, is_download_done>>
connVars == <<download_pool, upload_pool, alarm>>
envVars == <<lost, duplicated, died, gets>>
vars == <<tableVars, connVars, run, net, envVars>>

-----------------------------------------------------------------------------
Running == {p \in Peer : run[p] = "running"}

\* main(): empty pools, no table, no timer.  is_download_done starts at 1.
Init ==
    /\ table = [p \in Peer |-> "none"]
    /\ chunks = [p \in Peer |-> <<>>]
    /\ statuses = [p \in Peer |-> <<>>]
    /\ chunks_data = [p \in Peer |-> <<>>]
    /\ is_download_done = [p \in Peer |-> TRUE]
    /\ download_pool = [p \in Peer |-> EmptyPool(max_conn[p])]
    /\ upload_pool = [p \in Peer |-> EmptyPool(max_conn[p])]
    /\ alarm = [p \in Peer |-> FALSE]
    /\ run = [p \in Peer |-> "running"]
    /\ net = [p \in Peer |-> [q \in Peer |-> <<>>]]
    /\ lost = 0 /\ duplicated = 0 /\ died = 0
    /\ gets = [p \in Peer |-> 0]

\* The statuses a handler of p may read.  The arrays stay behind dangling
\* pointers after they were freed: then anything may be found in them.
Readings(p) ==
    IF table[p] = "freed" THEN [DOMAIN chunks[p] -> Status]
    ELSE {statuses[p]}

-----------------------------------------------------------------------------
(* Receiving and sending. *)

\* process_PACKET: p takes the i-th packet from q, one of this type.
Arrives(p, q, i, type) ==
    /\ run[p] = "running"
    /\ i \in DOMAIN net[q][p]
    /\ Reordered \/ i = 1
    /\ net[q][p][i].type = type

\* The packet is gone, and out was sent.
Answer(p, q, i, out) ==
    net' = Post(Without(net, q, p, i), p, out, Running)

\* process_download: one WHOHAS, sent to everyone else.
Request(p, file, st) == ToOthers(p, <<WHOHAS(Wanted(file, st))>>)

\* The process dies of what it did with this packet, after sending out.
Crash(p, q, i, out) ==
    /\ run' = [run EXCEPT ![p] = "crashed"]
    /\ net' = Unplugged(Post(Without(net, q, p, i), p, out, Running), p)

\* Mutant: a peer without downloads leaves its timer alone.
SetAlarmOfDownloader(p) ==
    alarm' = [alarm EXCEPT ![p] = @ \/ table[p] # "none"]

SetAlarm(p) == alarm' = [alarm EXCEPT ![p] = TRUE]

-----------------------------------------------------------------------------
(* process_WHOHAS *)

ProcessWHOHAS(p, q, i) ==
    /\ Arrives(p, q, i, "WHOHAS")
    /\ LET offer == OfferFrom(chunks_IHAVE[p], net[q][p][i].chunks)
       IN  Answer(p, q, i, IF DOMAIN offer = {} THEN Silence
                           ELSE To(q, <<IHAVE(offer)>>))
    /\ UNCHANGED <<tableVars, connVars, run, envVars>>

(* process_IHAVE *)

HasNoRoomFor(p, q) ==
    Connected(download_pool[p], q) \/ download_pool[p].size >= max_conn[p]

IgnoreIHAVE(p, q, i) ==
    /\ Arrives(p, q, i, "IHAVE")
    /\ HasNoRoomFor(p, q)
    /\ Answer(p, q, i, Silence)
    /\ UNCHANGED <<tableVars, connVars, run, envVars>>

StartDownload(p, q, i) ==
    /\ Arrives(p, q, i, "IHAVE")
    /\ ~HasNoRoomFor(p, q)
    /\ \E st \in Readings(p) :
        LET offer == net[q][p][i].chunks
            sha1 == Chosen(chunks[p], st, offer)
        IN  /\ Startable(chunks[p], st, offer) # {}
            /\ statuses' = IF table[p] = "freed" THEN statuses
                           ELSE [statuses EXCEPT ![p] =
                               WithStatus(chunks[p], st, sha1, "DOWNLOADING")]
            /\ download_pool' = [download_pool EXCEPT ![p] =
                   AddTo(@, NewDownload(q, sha1))]
            /\ Answer(p, q, i, To(q, <<GET(sha1)>>))
    /\ SetAlarm(p)
    /\ UNCHANGED <<table, chunks, chunks_data, is_download_done, upload_pool,
                   run, envVars>>

\* update_provider finds nothing to start and returns NULL, which
\* init_download_connection copies 20 bytes from.
CrashOnIHAVE(p, q, i) ==
    /\ Arrives(p, q, i, "IHAVE")
    /\ ~HasNoRoomFor(p, q)
    /\ \E st \in Readings(p) :
        Startable(chunks[p], st, net[q][p][i].chunks) = {}
    /\ Crash(p, q, i, Silence)
    /\ UNCHANGED <<tableVars, connVars, envVars>>

(* process_GET *)

\* An upload connection q already has is closed before the pool is examined.
RefuseGET(p, q, i) ==
    /\ Arrives(p, q, i, "GET")
    /\ LET pool == RemoveFrom(upload_pool[p], q)
       IN  /\ pool.size >= max_conn[p]
           /\ upload_pool' = [upload_pool EXCEPT ![p] = pool]
    /\ Answer(p, q, i, Silence)
    /\ UNCHANGED <<tableVars, download_pool, alarm, run, envVars>>

\* The DATA packets send_DATAs transmits.
Window(c) ==
    [k \in 1 .. c.available - c.next + 1 |-> DATA(c.next + k - 1, c.sha1)]

AcceptGET(p, q, i) ==
    /\ Arrives(p, q, i, "GET")
    /\ LET pool == RemoveFrom(upload_pool[p], q)
           c == NewUpload(q, net[q][p][i].sha1)
       IN  /\ pool.size < max_conn[p]
           /\ upload_pool' = [upload_pool EXCEPT ![p] = AddTo(pool, Sent(c))]
           /\ Answer(p, q, i, To(q, Window(c)))
    /\ SetAlarm(p)
    /\ UNCHANGED <<tableVars, download_pool, run, envVars>>

(* process_DATA *)

IgnoreDATA(p, q, i) ==
    /\ Arrives(p, q, i, "DATA")
    /\ ~Connected(download_pool[p], q)
    /\ Answer(p, q, i, Silence)
    /\ UNCHANGED <<tableVars, connVars, run, envVars>>

\* Mutant: the packet that is missing is acknowledged.
AckExpected(c) == ACK(c.expected_seq)

\* The last packet received in order, acknowledged again.
AckAgain(c) == ACK(c.expected_seq - 1)

\* Not the packet expected next.
RejectDATA(p, q, i) ==
    /\ Arrives(p, q, i, "DATA")
    /\ Connected(download_pool[p], q)
    /\ LET c == Find(download_pool[p], q)
       IN  /\ net[q][p][i].seq_num # c.expected_seq
           /\ download_pool' = [download_pool EXCEPT ![p] =
                  Update(@, q, [c EXCEPT !.overtime_count = 0])]
           /\ Answer(p, q, i, To(q, <<AckAgain(c)>>))
    /\ SetAlarm(p)
    /\ UNCHANGED <<tableVars, upload_pool, run, envVars>>

\* A connection once the packet it expects was copied to its data.  Nothing
\* in a DATA packet says which chunk it is from.
Received(c, data) ==
    [c EXCEPT !.expected_seq = @ + 1,
              !.intact = @ /\ data.sha1 = c.sha1,
              !.overtime_count = 0]

AcceptDATA(p, q, i) ==
    /\ Arrives(p, q, i, "DATA")
    /\ Connected(download_pool[p], q)
    /\ LET c == Find(download_pool[p], q)
       IN  /\ net[q][p][i].seq_num = c.expected_seq
           /\ c.expected_seq < CHUNK_SIZE
           /\ download_pool' = [download_pool EXCEPT ![p] =
                  Update(@, q, Received(c, net[q][p][i]))]
           /\ Answer(p, q, i, To(q, <<ACK(c.expected_seq)>>))
    /\ SetAlarm(p)
    /\ UNCHANGED <<tableVars, upload_pool, run, envVars>>

LastDATA(p, q, i) ==
    /\ Arrives(p, q, i, "DATA")
    /\ Connected(download_pool[p], q)
    /\ net[q][p][i].seq_num = CHUNK_SIZE
    /\ Find(download_pool[p], q).expected_seq = CHUNK_SIZE

\* The statuses save_data leaves, where it found st.
Saved(p, q, i, st) ==
    LET c == Received(Find(download_pool[p], q), net[q][p][i])
    IN  WithStatus(chunks[p], st, c.sha1, SavedStatus(c.intact))

\* ACK, save_data and remove_from_download_pool; out is sent after that.
CompletesChunk(p, q, i, st, out) ==
    LET c == Received(Find(download_pool[p], q), net[q][p][i])
    IN  /\ IF table[p] = "freed" THEN UNCHANGED <<statuses, chunks_data>>
           ELSE /\ statuses' = [statuses EXCEPT ![p] = Saved(p, q, i, st)]
                /\ chunks_data' = [chunks_data EXCEPT ![p] =
                       WithStatus(chunks[p], @, c.sha1,
                                  IF c.intact THEN "intact" ELSE "mixed")]
        /\ download_pool' = [download_pool EXCEPT ![p] = RemoveFrom(@, q)]
        /\ Answer(p, q, i, Then(To(q, <<ACK(CHUNK_SIZE)>>), out))
        /\ SetAlarm(p)

\* Some chunk is not DONE: what is NOT_DOWNLOADED is requested.
FinishChunk(p, q, i) ==
    /\ LastDATA(p, q, i)
    /\ \E st \in Readings(p) :
        /\ ~AllDone(Saved(p, q, i, st))
        /\ CompletesChunk(p, q, i, st, Request(p, chunks[p], Saved(p, q, i, st)))
    /\ UNCHANGED <<table, chunks, is_download_done, upload_pool, run, envVars>>

\* Every chunk is DONE: the output file is written and the table is freed.
FinishFile(p, q, i) ==
    /\ LastDATA(p, q, i)
    /\ table[p] = "live"
    /\ AllDone(Saved(p, q, i, statuses[p]))
    /\ CompletesChunk(p, q, i, statuses[p], Silence)
    /\ table' = [table EXCEPT ![p] = "freed"]
    /\ is_download_done' = [is_download_done EXCEPT ![p] = TRUE]
    /\ UNCHANGED <<chunks, upload_pool, run, envVars>>

\* save_data without an entry for the chunk runs past the end of the arrays,
\* and with freed arrays it writes, or frees, what is not its own any more.
CrashOnDATA(p, q, i) ==
    /\ LastDATA(p, q, i)
    /\ \/ ~Listed(chunks[p], Find(download_pool[p], q).sha1)
       \/ table[p] = "freed"
    /\ Crash(p, q, i, To(q, <<ACK(CHUNK_SIZE)>>))
    /\ UNCHANGED <<tableVars, connVars, envVars>>

(* process_ACK *)

IgnoreACK(p, q, i) ==
    /\ Arrives(p, q, i, "ACK")
    /\ ~Connected(upload_pool[p], q)
    /\ Answer(p, q, i, Silence)
    /\ UNCHANGED <<tableVars, connVars, run, envVars>>

\* The ACK of the last packet closes the connection.
FinishUpload(p, q, i) ==
    /\ Arrives(p, q, i, "ACK")
    /\ Connected(upload_pool[p], q)
    /\ net[q][p][i].ack_num = CHUNK_SIZE
    /\ upload_pool' = [upload_pool EXCEPT ![p] = RemoveFrom(@, q)]
    /\ Answer(p, q, i, Silence)
    /\ SetAlarm(p)
    /\ UNCHANGED <<tableVars, download_pool, run, envVars>>

\* The other ACKs of a connection c = Find(upload_pool[p], q).
AckArrives(p, q, i) ==
    /\ Arrives(p, q, i, "ACK")
    /\ Connected(upload_pool[p], q)
    /\ net[q][p][i].ack_num # CHUNK_SIZE

\* c takes the place of q's upload connection and transmits its window.
Transmit(p, q, i, c) ==
    /\ upload_pool' = [upload_pool EXCEPT ![p] = Update(@, q, Sent(c))]
    /\ Answer(p, q, i, To(q, Window(c)))
    /\ SetAlarm(p)

CumulativeACK(p, q, i) ==
    /\ AckArrives(p, q, i)
    /\ LET c == Find(upload_pool[p], q)
           ack_num == net[q][p][i].ack_num
       IN  /\ ack_num > c.last_acked
           /\ Transmit(p, q, i,
                  [c EXCEPT !.last_acked = ack_num, !.duplicate_num = 0,
                            !.overtime_count = 0,
                            !.available = Available(ack_num)])
    /\ UNCHANGED <<tableVars, download_pool, run, envVars>>

DuplicateACK(p, q, i) ==
    /\ AckArrives(p, q, i)
    /\ LET c == Find(upload_pool[p], q)
       IN  /\ net[q][p][i].ack_num = c.last_acked
           /\ c.duplicate_num + 1 < DUPLICATE_LIMIT
           /\ upload_pool' = [upload_pool EXCEPT ![p] =
                  Update(@, q, [c EXCEPT !.duplicate_num = c.duplicate_num + 1,
                                         !.overtime_count = 0])]
    /\ Answer(p, q, i, Silence)
    /\ UNCHANGED <<tableVars, download_pool, alarm, run, envVars>>

FastRetransmit(p, q, i) ==
    /\ AckArrives(p, q, i)
    /\ LET c == Find(upload_pool[p], q)
       IN  /\ net[q][p][i].ack_num = c.last_acked
           /\ c.duplicate_num + 1 >= DUPLICATE_LIMIT
           /\ Transmit(p, q, i, Rewound([c EXCEPT !.overtime_count = 0]))
    /\ UNCHANGED <<tableVars, download_pool, run, envVars>>

StaleACK(p, q, i) ==
    /\ AckArrives(p, q, i)
    /\ net[q][p][i].ack_num < Find(upload_pool[p], q).last_acked
    /\ Answer(p, q, i, Silence)
    /\ UNCHANGED <<tableVars, connVars, run, envVars>>

-----------------------------------------------------------------------------
(* handle_timeout.  clock() is processor time, so which connections have   *)
(* used up their 100 microseconds when the signal comes is open: up and    *)
(* down are the slots of the two pools that have.                          *)

\* The late upload connection of t, if any, sends its window again.
Retransmission(p, t, up) ==
    IF SlotsOf(upload_pool[p], t) \cap (up \ GivenUp(upload_pool[p], up)) = {}
    THEN <<>>
    ELSE Window(Rewound(Find(upload_pool[p], t)))

\* Mutant: their chunks keep the status DOWNLOADING.
NotReopened(p, st, slots) == st

\* Mutant: a give-up opens the chunks of the other connections as well.
AllReopened(p, st, slots) ==
    [j \in DOMAIN st |->
        IF slots # {} /\ st[j] = "DOWNLOADING" THEN "NOT_DOWNLOADED" ELSE st[j]]

\* The chunks of the download connections given up are open again.
Reopened(p, st, slots) ==
    [j \in DOMAIN st |->
        IF \E k \in slots :
            LET sha1 == download_pool[p].connections[k].sha1
            IN  Listed(chunks[p], sha1) /\ IndexOf(chunks[p], sha1) = j
        THEN "NOT_DOWNLOADED" ELSE st[j]]

\* What a late download connection asks its peer for.
Reminder(c) ==
    IF c.expected_seq = 1 THEN GET(c.sha1) ELSE AckAgain(c)

Kth(S, n) == CHOOSE k \in S : Cardinality({j \in S : j <= k}) = n

\* What the loop over the download pool sends to t: a reminder for the
\* connection with t, a request for every connection given up, by slot.
DownloadSignals(p, t, down, st) ==
    LET pool == download_pool[p]
        out == GivenUp(pool, down)
        speaking == out \cup (down \cap SlotsOf(pool, t))
    IN  [n \in 1 .. Cardinality(speaking) |->
            LET k == Kth(speaking, n)
            IN  IF k \in out
                THEN WHOHAS(Wanted(chunks[p],
                         Reopened(p, st, {j \in out : j <= k})))
                ELSE Reminder(Find(pool, t))]

HandleTimeout(p, up, down) ==
    /\ run[p] = "running" /\ alarm[p]
    /\ Patient => \A q \in Peer : net[p][q] = <<>> /\ net[q][p] = <<>>
    /\ upload_pool' = [upload_pool EXCEPT ![p] =
           Checked(@, up, ResentUploads(@, up))]
    /\ download_pool' = [download_pool EXCEPT ![p] =
           Checked(@, down, WaitingDownloads(@, down))]
    /\ \E st \in Readings(p) :
        LET out == GivenUp(download_pool[p], down)
            after == Reopened(p, st, out)
            left == Occupied(upload_pool'[p]) \cup Occupied(download_pool'[p])
            retry == left = {} /\ ~is_download_done[p]
            sent == [t \in Peer |->
                        Retransmission(p, t, up)
                        \o IF t = p THEN <<>>
                           ELSE DownloadSignals(p, t, down, st)]
        IN  /\ statuses' = IF table[p] = "freed" THEN statuses
                           ELSE [statuses EXCEPT ![p] = after]
            /\ alarm' = [alarm EXCEPT ![p] = Rearmed(left, out, retry)]
            /\ net' = Post(net, p,
                           IF retry THEN Then(sent, Request(p, chunks[p], after))
                           ELSE sent,
                           Running)
    /\ UNCHANGED <<table, chunks, chunks_data, is_download_done, run, envVars>>

-----------------------------------------------------------------------------
\* handle_user_input, process_get: a new table, whatever the old one was.
UserGet(p, file) ==
    /\ run[p] = "running"
    /\ file \in ChunkFiles[p]
    /\ gets[p] < MaxGet
    /\ Overlap \/ download_pool[p].size = 0
    /\ LET fresh == [j \in DOMAIN file |-> "NOT_DOWNLOADED"]
       IN  /\ table' = [table EXCEPT ![p] = "live"]
           /\ chunks' = [chunks EXCEPT ![p] = file]
           /\ statuses' = [statuses EXCEPT ![p] = fresh]
           /\ chunks_data' = [chunks_data EXCEPT ![p] =
                  [j \in DOMAIN file |-> "none"]]
           /\ net' = Post(net, p, Request(p, file, fresh), Running)
    /\ SetAlarm(p)
    /\ gets' = [gets EXCEPT ![p] = @ + 1]
    /\ UNCHANGED <<is_download_done, download_pool, upload_pool, run, lost,
                   duplicated, died>>

-----------------------------------------------------------------------------
(* The environment. *)

Lose(p, q, i) ==
    /\ lost < MaxLoss
    /\ i \in DOMAIN net[q][p]
    /\ net[q][p][i].type \in LossyTypes
    /\ net' = Without(net, q, p, i)
    /\ lost' = lost + 1
    /\ UNCHANGED <<tableVars, connVars, run, duplicated, died, gets>>

Duplicate(p, q, i) ==
    /\ duplicated < MaxDuplicate
    /\ i \in DOMAIN net[q][p]
    /\ net' = [net EXCEPT ![q][p] = EnQ(@, <<@[i]>>)]
    /\ duplicated' = duplicated + 1
    /\ UNCHANGED <<tableVars, connVars, run, lost, died, gets>>

Die(p) ==
    /\ p \in Mortal
    /\ run[p] = "running"
    /\ died < MaxDeath
    /\ run' = [run EXCEPT ![p] = "killed"]
    /\ net' = Unplugged(net, p)
    /\ died' = died + 1
    /\ UNCHANGED <<tableVars, connVars, lost, duplicated, gets>>

\* main() again: nothing of the state was persisted.
Restart(p) ==
    /\ run[p] = "killed"
    /\ run' = [run EXCEPT ![p] = "running"]
    /\ table' = [table EXCEPT ![p] = "none"]
    /\ chunks' = [chunks EXCEPT ![p] = <<>>]
    /\ statuses' = [statuses EXCEPT ![p] = <<>>]
    /\ chunks_data' = [chunks_data EXCEPT ![p] = <<>>]
    /\ is_download_done' = [is_download_done EXCEPT ![p] = TRUE]
    /\ download_pool' = [download_pool EXCEPT ![p] = EmptyPool(max_conn[p])]
    /\ upload_pool' = [upload_pool EXCEPT ![p] = EmptyPool(max_conn[p])]
    /\ alarm' = [alarm EXCEPT ![p] = FALSE]
    /\ UNCHANGED <<net, envVars>>

-----------------------------------------------------------------------------
ProcessPACKET(p, q, i) ==
    \/ ProcessWHOHAS(p, q, i)
    \/ IgnoreIHAVE(p, q, i) \/ StartDownload(p, q, i) \/ CrashOnIHAVE(p, q, i)
    \/ RefuseGET(p, q, i) \/ AcceptGET(p, q, i)
    \/ IgnoreDATA(p, q, i) \/ RejectDATA(p, q, i) \/ AcceptDATA(p, q, i)
    \/ FinishChunk(p, q, i) \/ FinishFile(p, q, i) \/ CrashOnDATA(p, q, i)
    \/ IgnoreACK(p, q, i) \/ FinishUpload(p, q, i) \/ CumulativeACK(p, q, i)
    \/ DuplicateACK(p, q, i) \/ FastRetransmit(p, q, i) \/ StaleACK(p, q, i)

Receive(p, q) == \E i \in DOMAIN net[q][p] : ProcessPACKET(p, q, i)

SIGALRM(p) ==
    \E up \in SUBSET Occupied(upload_pool[p]),
       down \in SUBSET Occupied(download_pool[p]) : HandleTimeout(p, up, down)

Command(p) == \E file \in ChunkFiles[p] : UserGet(p, file)

Fault ==
    \/ \E p, q \in Peer : \E i \in DOMAIN net[q][p] :
           Lose(p, q, i) \/ Duplicate(p, q, i)
    \/ \E p \in Peer : Die(p) \/ Restart(p)

Next ==
    \/ \E p, q \in Peer : Receive(p, q)
    \/ \E p \in Peer : SIGALRM(p) \/ Command(p)
    \/ Fault

Spec == Init /\ [][Next]_vars

-----------------------------------------------------------------------------
(* Types. *)

\* A connection exists only while expected_seq is at most CHUNK_SIZE and
\* last_acked below it: the last packet and its ACK close it.
DownloadConnection ==
    [peer : Peer, sha1 : Hash, expected_seq : 1 .. CHUNK_SIZE,
     intact : BOOLEAN, overtime_count : 0 .. OVERTIME_LIMIT]

UploadConnection ==
    [peer : Peer, sha1 : Hash, last_acked : 0 .. CHUNK_SIZE - 1,
     next : 1 .. CHUNK_SIZE + 1, available : 1 .. CHUNK_SIZE,
     duplicate_num : 0 .. DUPLICATE_LIMIT - 1,
     overtime_count : 0 .. OVERTIME_LIMIT]

ASSUME NULL_Assumption == NULL \notin DownloadConnection \cup UploadConnection

Packet ==
    [type : {"WHOHAS", "IHAVE"}, chunks : Payload]
    \cup [type : {"GET"}, sha1 : Hash]
    \cup [type : {"DATA"}, seq_num : 1 .. CHUNK_SIZE, sha1 : Hash]
    \cup [type : {"ACK"}, ack_num : 0 .. CHUNK_SIZE]

\* A table has one status and one content per chunk.
TableOK ==
    /\ table \in [Peer -> {"none", "live", "freed"}]
    /\ chunks \in [Peer -> Seq(Hash)]
    /\ DOMAIN statuses = Peer /\ DOMAIN chunks_data = Peer
    /\ \A p \in Peer :
        /\ Len(chunks[p]) <= MAX_CHUNKS_NUM
        /\ statuses[p] \in [DOMAIN chunks[p] -> Status]
        /\ chunks_data[p] \in [DOMAIN chunks[p] -> Content]
    /\ is_download_done \in [Peer -> BOOLEAN]

\* A peer has max_conn slots for downloads and as many for uploads.
ConnOK ==
    /\ DOMAIN download_pool = Peer /\ DOMAIN upload_pool = Peer
    /\ \A p \in Peer :
        /\ download_pool[p] \in PoolOf(max_conn[p], DownloadConnection)
        /\ upload_pool[p] \in PoolOf(max_conn[p], UploadConnection)
    /\ alarm \in [Peer -> BOOLEAN]

EnvOK ==
    /\ lost \in Nat /\ duplicated \in Nat /\ died \in Nat
    /\ gets \in [Peer -> Nat]

\* Every variable has its type: sequence numbers and windows stay within the
\* chunk, counts within their limits, and packets are what a peer can send.
TypeOK ==
    /\ TableOK /\ ConnOK /\ EnvOK
    /\ run \in [Peer -> {"running", "crashed", "killed"}]
    /\ net \in [Peer -> [Peer -> Seq(Packet)]]

-----------------------------------------------------------------------------
(* Safety. *)

\* Every pool of every peer is consistent: admission reads a counter that
\* agrees with the slots, and a connection is found by its peer alone.
PoolsConsistent ==
    \A p \in Peer : Consistent(download_pool[p]) /\ Consistent(upload_pool[p])

\* The slots that download the chunk at index j of the table.
Downloading(p, j) ==
    {k \in Occupied(download_pool[p]) :
        LET sha1 == download_pool[p].connections[k].sha1
        IN  Listed(chunks[p], sha1) /\ IndexOf(chunks[p], sha1) = j}

\* While a table is in use, a chunk is marked DOWNLOADING exactly if one
\* connection downloads it, and no two do: a chunk marked without a connection
\* would never be requested again, one with two would be saved twice.
DownloadingIffConnected ==
    \A p \in Peer : table[p] = "live" =>
        \A j \in DOMAIN chunks[p] :
            /\ statuses[p][j] = "DOWNLOADING" <=> Downloading(p, j) # {}
            /\ \A k, l \in Downloading(p, j) : k = l

\* A peer with a connection has a SIGALRM coming.  The select loop has no
\* timeout, so a connection without one would wait for its peer for ever.
TimerCoversConnections ==
    \A p \in Running :
        Occupied(download_pool[p]) \cup Occupied(upload_pool[p]) # {}
        => alarm[p]

\* Whatever the network did, a chunk that counts as downloaded, in the table
\* or in the output file, is the chunk that was asked for: DATA packets do not
\* name their chunk, and packets of an earlier connection with the same peer
\* do end up in a later one.
DoneIsIntact ==
    \A p \in Peer : \A j \in DOMAIN chunks[p] :
        statuses[p][j] = "DONE" => chunks_data[p][j] = "intact"

\* A chunk that was downloaded is not downloaded again for the same command:
\* no late IHAVE, give-up or failed SHA-1 takes DONE back.
DoneIsFinal ==
    [][\A p \in Peer :
        table[p] = "live" /\ gets'[p] = gets[p] /\ run'[p] = run[p] =>
            \A j \in DOMAIN chunks[p] :
                statuses[p][j] = "DONE" => statuses'[p][j] = "DONE"]_vars

WindowSent(c) ==
    /\ c.next = c.available + 1
    /\ c.available = Available(c.last_acked)

\* No upload connection is left with a window it may send but did not, or
\* with more in flight than the window allows: every step that moves
\* last_acked or next also transmits up to available.
WindowIsSent ==
    \A p \in Peer : \A k \in Occupied(upload_pool[p]) :
        WindowSent(upload_pool[p].connections[k])

\* A handler ends: with a packet sent, or with the packet ignored.  (A peer
\* does crash on the second offer of a chunk, so this holds of no useful
\* configuration with two uploaders.)
NobodyCrashes == \A p \in Peer : run[p] # "crashed"

\* What p's user sees: the file asked for, the chunks of it that are DONE, and
\* what process_DATA wrote of it when it freed the table.
Saves(p) ==
    {j \in DOMAIN chunks[p] :
        statuses[p][j] = "DONE" /\ chunks_data[p][j] = "intact"}

Written(p) ==
    IF table[p] = "freed"
    THEN [j \in DOMAIN chunks[p] |->
             IF chunks_data[p][j] = "intact" THEN chunks[p][j] ELSE NULL]
    ELSE <<>>

Promise == INSTANCE Download WITH
        asked <- chunks,
        got <- [p \in Peer |-> Saves(p)],
        output <- [p \in Peer |-> Written(p)]

\* A user gets what Download promises: connections, retries, give-ups and what
\* two uploaders do at a time change nothing of it.  A chunk is saved once, at
\* its place, and the file is written in the very step that saves the last.
ImplementsDownload == Promise!Spec

-----------------------------------------------------------------------------
(* What holds as long as the network keeps the order of packets and no     *)
(* connection is given up: then go-back-N needs neither the SHA-1 of the   *)
(* chunk nor the name of the chunk in a DATA packet.                       *)

\* Whatever a download connection has read is part of its chunk, although
\* packets of the chunk before it, from the same peer, may arrive during it.
NothingMixed ==
    \A p \in Peer : \A k \in Occupied(download_pool[p]) :
        download_pool[p].connections[k].intact

\* What an uploader counts as acknowledged was received: by the connection
\* that downloads the chunk, or into the chunk that is saved.
AckedIsReceived ==
    \A p, q \in Running : Connected(upload_pool[p], q) =>
        LET c == Find(upload_pool[p], q)
            j == IndexOf(chunks[q], c.sha1)
        IN  IF Connected(download_pool[q], p)
               /\ Find(download_pool[q], p).sha1 = c.sha1
            THEN c.last_acked < Find(download_pool[q], p).expected_seq
            ELSE chunks_data[q][j] = "intact"

-----------------------------------------------------------------------------
(* Liveness. *)

\* The select loop handles what has arrived.  A SIGALRM that is due comes
\* although packets are handled before it does (the timer runs meanwhile; what
\* sets it anew makes progress, and so ends), and as every one that comes costs
\* processor time, a connection in a slot is found late sooner or later,
\* unless a packet restarts its clock first.
Fairness ==
    /\ \A p, q \in Peer : WF_vars(Receive(p, q))
    /\ \A p \in Peer : \A k \in 0 .. max_conn[p] - 1 :
        /\ SF_vars(\E up \in SUBSET Occupied(upload_pool[p]),
                      down \in SUBSET Occupied(download_pool[p]) :
                        k \in up /\ HandleTimeout(p, up, down))
        /\ SF_vars(\E up \in SUBSET Occupied(upload_pool[p]),
                      down \in SUBSET Occupied(download_pool[p]) :
                        k \in down /\ HandleTimeout(p, up, down))

FairSpec == Spec /\ Fairness

\* Every download that a user starts ends with the whole file written, or
\* with the process of that user killed.
EveryGetCompletes ==
    \A p \in Peer : table[p] = "live" ~> table[p] = "freed" \/ run[p] = "killed"

\* An uploader gets its slot back: when the chunk is acknowledged, or when
\* the downloader has been silent for too long.
UploadsEnd ==
    \A p, q \in Peer :
        Connected(upload_pool[p], q)
        ~> ~Connected(upload_pool[p], q) \/ p \notin Running

=============================================================================
