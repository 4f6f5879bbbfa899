----------------------------- MODULE SignalRace ------------------------------
(***************************************************************************)
(* One peer, its packet handlers statement by statement, and SIGALRM,      *)
(* which interrupts them.                                                  *)
(*                                                                         *)
(* The handler of the signal runs to its end, but it may start between any *)
(* two instructions of the packet handlers unless alarm(0) was called.     *)
(* The peer is compiled without optimisation, so that size++, size-- and   *)
(* next++ each load a register, and store it in a later instruction.  What *)
(* the other peers do is open: any packet may arrive at any time.          *)
(***************************************************************************)
EXTENDS Timeout

CONSTANTS
    Peer, Hash,      \* the other peers, and the chunks this peer asked for
    max_conn,        \* config.max_conn
    DUPLICATE_LIMIT, \* duplicate ACKs that trigger a retransmission (3)
    MaxSignals       \* signals during one packet handler: the timer has a
                     \* period of a second

ASSUME SignalRace_Assumption ==
    /\ max_conn \in Nat \ {0} /\ DUPLICATE_LIMIT \in Nat \ {0}
    /\ MaxSignals \in Nat

VARIABLES
    statuses,        \* statuses[h]: status of the chunk with hash h
    download_pool, upload_pool,
    alarm,           \* whether a SIGALRM is due
    run,             \* whether the process runs or crashed
    pc,              \* the next statement, or "select" between packets
    pkt,             \* the packet that is handled, NULL between packets
    reg,             \* what was loaded and is not stored yet
    signals          \* how many signals interrupted this handler

vars == <<statuses, download_pool, upload_pool, alarm, run, pc, pkt, reg, signals>>

\* The inputs.  Which chunk a GET asks for plays no part here.
Packet ==
    [type : {"IHAVE"}, peer : Peer, chunks : SUBSET Hash]
    \cup [type : {"GET"}, peer : Peer]
    \cup [type : {"DATA"}, peer : Peer, seq_num : 1 .. CHUNK_SIZE]
    \cup [type : {"ACK"}, peer : Peer, ack_num : 0 .. CHUNK_SIZE]

\* Connections of the two pools; next may leave the window here, and which
\* chunk is uploaded plays no part.
DownloadConnection ==
    [peer : Peer, sha1 : Hash, expected_seq : Nat, intact : BOOLEAN,
     overtime_count : Nat]

UploadConnection ==
    [peer : Peer, sha1 : {NULL}, last_acked : 0 .. CHUNK_SIZE - 1, next : Int,
     available : 1 .. CHUNK_SIZE, duplicate_num : Int, overtime_count : Nat]

ASSUME NULL_Assumption == NULL \notin DownloadConnection \cup UploadConnection

\* After a GET command, or after a timeout without connections.
Init ==
    /\ statuses = [h \in Hash |-> "NOT_DOWNLOADED"]
    /\ download_pool = EmptyPool(max_conn) /\ upload_pool = EmptyPool(max_conn)
    /\ alarm \in BOOLEAN
    /\ run = "running"
    /\ pc = "select" /\ pkt = NULL /\ reg = 0 /\ signals = 0

-----------------------------------------------------------------------------
(* Statements. *)

At(label) == run = "running" /\ pc = label

Goto(label) ==
    /\ pc' = label
    /\ pkt' = IF label = "select" THEN NULL ELSE pkt
    /\ reg' = 0
    /\ signals' = IF label = "select" THEN 0 ELSE signals
    /\ UNCHANGED run

Load(value, label) ==
    /\ pc' = label /\ reg' = value
    /\ UNCHANGED <<statuses, download_pool, upload_pool, alarm, run, pkt, signals>>

Crash ==
    /\ run' = "crashed"
    /\ UNCHANGED <<statuses, download_pool, upload_pool, alarm, pc, pkt, reg, signals>>

\* The pool a handler works on, and the connection it has found in it.
Downloads == pkt.type \in {"IHAVE", "DATA"}

Pool == IF Downloads THEN download_pool ELSE upload_pool

Connection == Find(Pool, pkt.peer)

SetPool(pool) ==
    IF Downloads
    THEN download_pool' = pool /\ UNCHANGED upload_pool
    ELSE upload_pool' = pool /\ UNCHANGED download_pool

SetConnection(c) == SetPool(Update(Pool, pkt.peer, c))

-----------------------------------------------------------------------------
(* Every handler begins with a find_*_connection.  Offers that come after   *)
(* the last chunk was saved are left to Swarm.                              *)

FirstStatement(p) ==
    CASE p.type = "IHAVE" ->
            IF Connected(download_pool, p.peer) THEN "select" ELSE "admit"
      [] p.type = "GET" ->
            IF Connected(upload_pool, p.peer) THEN "remove" ELSE "admit"
      [] p.type = "DATA" ->
            IF Connected(download_pool, p.peer) THEN "copy" ELSE "select"
      [] p.type = "ACK" ->
            IF Connected(upload_pool, p.peer) THEN "acknowledge" ELSE "select"

Receive(p) ==
    /\ At("select")
    /\ p.type = "IHAVE" => \E h \in Hash : statuses[h] # "DONE"
    /\ FirstStatement(p) # "select"
    /\ pc' = FirstStatement(p) /\ pkt' = p
    /\ UNCHANGED <<statuses, download_pool, upload_pool, alarm, run, reg, signals>>

(* remove_from_*_pool *)

Free ==
    /\ At("remove")
    /\ Goto(IF Connected(Pool, pkt.peer) THEN "freed"
            ELSE IF pkt.type = "GET" THEN "admit" ELSE "completed")
    /\ UNCHANGED <<statuses, download_pool, upload_pool, alarm>>

ClearSlot ==
    /\ At("freed")
    /\ SetConnection(NULL)
    /\ Goto("uncount")
    /\ UNCHANGED <<statuses, alarm>>

LoadToUncount == At("uncount") /\ Load(Pool.size, "uncounted")

Uncount ==
    /\ At("uncounted")
    /\ SetPool([Pool EXCEPT !.size = reg - 1])
    /\ Goto(IF pkt.type = "GET" THEN "admit" ELSE "completed")
    /\ UNCHANGED <<statuses, alarm>>

(* Admission, and add_to_*_pool. *)

\* Mutant: one connection too many is admitted.
IsFullLate(pool) == pool.size > max_conn

IsFull(pool) == pool.size >= max_conn

Admit ==
    /\ At("admit")
    /\ Goto(IF IsFull(Pool) THEN "select"
            ELSE IF pkt.type = "GET" THEN "add" ELSE "provide")
    /\ UNCHANGED <<statuses, download_pool, upload_pool, alarm>>

\* update_provider: the hash is kept in the packet here.
Provide ==
    /\ At("provide")
    /\ \E h \in pkt.chunks :
        /\ statuses[h] = "NOT_DOWNLOADED"
        /\ statuses' = [statuses EXCEPT ![h] = "DOWNLOADING"]
        /\ pc' = "add" /\ pkt' = [pkt EXCEPT !.chunks = {h}]
    /\ UNCHANGED <<download_pool, upload_pool, alarm, run, reg, signals>>

ProvideNothing ==
    /\ At("provide")
    /\ \A h \in pkt.chunks : statuses[h] # "NOT_DOWNLOADED"
    /\ Crash

NewConnection ==
    IF pkt.type = "GET" THEN NewUpload(pkt.peer, NULL)
    ELSE NewDownload(pkt.peer, CHOOSE h \in pkt.chunks : TRUE)

FillSlot ==
    /\ At("add")
    /\ SetPool([AddTo(Pool, NewConnection) EXCEPT !.size = Pool.size])
    /\ Goto("count")
    /\ UNCHANGED <<statuses, alarm>>

LoadToCount == At("count") /\ Load(Pool.size, "counted")

Count ==
    /\ At("counted")
    /\ SetPool([Pool EXCEPT !.size = reg + 1])
    /\ Goto(IF pkt.type = "GET" THEN "send" ELSE "asked")
    /\ UNCHANGED <<statuses, alarm>>

\* The end of process_IHAVE; the GET is sent.
Ask ==
    /\ At("asked")
    /\ alarm' = TRUE
    /\ Goto("select")
    /\ UNCHANGED <<statuses, download_pool, upload_pool>>

(* send_DATAs in process_GET, with the timer running. *)

SendDATA ==
    /\ At("send")
    /\ Connected(upload_pool, pkt.peer)
    /\ Connection.next <= Connection.available
    /\ Goto("next")
    /\ UNCHANGED <<statuses, download_pool, upload_pool, alarm>>

LoadNext ==
    /\ At("next")
    /\ Connected(upload_pool, pkt.peer)
    /\ Load(Connection.next, "passed")

StoreNext ==
    /\ At("passed")
    /\ Connected(upload_pool, pkt.peer)
    /\ SetConnection([Connection EXCEPT !.next = reg + 1])
    /\ Goto("send")
    /\ UNCHANGED <<statuses, alarm>>

\* Mutant: process_GET leaves the timer to process_ACK.
AllSentUntimed ==
    /\ At("send")
    /\ Connected(upload_pool, pkt.peer)
    /\ Connection.next > Connection.available
    /\ Goto("select")
    /\ UNCHANGED <<statuses, download_pool, upload_pool, alarm>>

AllSent ==
    /\ At("send")
    /\ Connected(upload_pool, pkt.peer)
    /\ Connection.next > Connection.available
    /\ alarm' = TRUE
    /\ Goto("select")
    /\ UNCHANGED <<statuses, download_pool, upload_pool>>

(* process_DATA *)

CopyData ==
    /\ At("copy")
    /\ Connected(download_pool, pkt.peer)
    /\ SetConnection([Connection EXCEPT
           !.expected_seq = IF @ = pkt.seq_num THEN @ + 1 ELSE @])
    /\ Goto("stamp")
    /\ UNCHANGED <<statuses, alarm>>

\* Mutant: the timeouts of a connection that receives are not forgotten.
NotStamped(c) == c

Stamped(c) == [c EXCEPT !.overtime_count = 0]

Stamp ==
    /\ At("stamp")
    /\ Connected(download_pool, pkt.peer)
    /\ SetConnection(Stamped(Connection))
    /\ alarm' = TRUE
    /\ Goto(IF Connection.expected_seq > CHUNK_SIZE THEN "save" ELSE "select")
    /\ UNCHANGED statuses

\* The chunk is right, or was mixed with another one.
SaveData ==
    /\ At("save")
    /\ Connected(download_pool, pkt.peer)
    /\ \E s \in {"DONE", "NOT_DOWNLOADED"} :
        statuses' = [statuses EXCEPT ![Connection.sha1] = s]
    /\ Goto("remove")
    /\ UNCHANGED <<download_pool, upload_pool, alarm>>

\* The file is written, or process_download asks for what is missing.
Completed ==
    /\ At("completed")
    /\ alarm' = (alarm \/ \E h \in Hash : statuses[h] # "DONE")
    /\ Goto("select")
    /\ UNCHANGED <<statuses, download_pool, upload_pool>>

(* process_ACK: its statements are one step from alarm(0) to alarm(1). *)

\* The ACK of the last packet.
CloseUpload ==
    /\ At("acknowledge")
    /\ pkt.ack_num = CHUNK_SIZE
    /\ upload_pool' = RemoveFrom(upload_pool, pkt.peer)
    /\ alarm' = TRUE
    /\ Goto("select")
    /\ UNCHANGED <<statuses, download_pool>>

Acknowledge ==
    /\ At("acknowledge")
    /\ Connected(upload_pool, pkt.peer)
    /\ pkt.ack_num # CHUNK_SIZE
    /\ \/ /\ pkt.ack_num > Connection.last_acked
          /\ SetConnection(Sent([Connection EXCEPT
                 !.last_acked = pkt.ack_num, !.duplicate_num = 0,
                 !.overtime_count = 0, !.available = Available(pkt.ack_num)]))
          /\ alarm' = TRUE
       \/ /\ pkt.ack_num < Connection.last_acked
          /\ UNCHANGED <<upload_pool, download_pool, alarm>>
    /\ Goto("select")
    /\ UNCHANGED statuses

LoadDuplicates ==
    /\ At("acknowledge")
    /\ Connected(upload_pool, pkt.peer)
    /\ pkt.ack_num # CHUNK_SIZE
    /\ pkt.ack_num = Connection.last_acked
    /\ Load(Connection.duplicate_num, "duplicate")

StoreDuplicates ==
    /\ At("duplicate")
    /\ Connected(upload_pool, pkt.peer)
    /\ SetConnection([Connection EXCEPT !.duplicate_num = reg + 1,
                                        !.overtime_count = 0])
    /\ Goto("retransmit")
    /\ UNCHANGED <<statuses, alarm>>

Retransmit ==
    /\ At("retransmit")
    /\ Connected(upload_pool, pkt.peer)
    /\ IF Connection.duplicate_num >= DUPLICATE_LIMIT
       THEN SetConnection(Sent(Rewound(Connection))) /\ alarm' = TRUE
       ELSE UNCHANGED <<download_pool, upload_pool, alarm>>
    /\ Goto("select")
    /\ UNCHANGED statuses

\* The connection a handler has found was freed under it.  The process dies of
\* what it does with it, or the rest of the handler has no effect that
\* outlives it but a timer that is set.
UseAfterFree ==
    /\ \/ At("send") \/ At("next") \/ At("passed") \/ At("copy") \/ At("stamp")
       \/ At("save") \/ At("duplicate") \/ At("retransmit")
       \/ At("acknowledge") /\ pkt.ack_num # CHUNK_SIZE
    /\ ~Connected(Pool, pkt.peer)
    /\ \/ Crash
       \/ /\ alarm' \in {alarm, TRUE}
          /\ Goto("select")
          /\ UNCHANGED <<statuses, download_pool, upload_pool>>

-----------------------------------------------------------------------------
(* The signal. *)

Interruptible == run = "running" /\ alarm /\ (pc = "select" \/ signals < MaxSignals)

\* The slot of a connection that is freed and still in it.
FreedUpload ==
    IF pc = "freed" /\ ~Downloads THEN SlotsOf(upload_pool, pkt.peer) ELSE {}

FreedDownload ==
    IF pc = "freed" /\ Downloads THEN SlotsOf(download_pool, pkt.peer) ELSE {}

\* Mutant: a chunk whose connection is given up stays DOWNLOADING.
NotReopened(slots) == statuses

Reopened(slots) ==
    [h \in Hash |->
        IF \E k \in slots : download_pool.connections[k].sha1 = h
        THEN "NOT_DOWNLOADED" ELSE statuses[h]]

HandleTimeout(up, down) ==
    /\ upload_pool' = Checked(upload_pool, up, ResentUploads(upload_pool, up))
    /\ download_pool' =
           Checked(download_pool, down, WaitingDownloads(download_pool, down))
    /\ LET out == GivenUp(download_pool, down)
       IN  /\ statuses' = Reopened(out)
           /\ alarm' = Rearmed(Occupied(upload_pool') \cup Occupied(download_pool'),
                               out, FALSE)
    /\ signals' = IF pc = "select" THEN 0 ELSE signals + 1
    /\ UNCHANGED <<run, pc, pkt, reg>>

SIGALRM ==
    /\ Interruptible
    /\ \E up \in SUBSET (Occupied(upload_pool) \ FreedUpload),
          down \in SUBSET (Occupied(download_pool) \ FreedDownload) :
           HandleTimeout(up, down)

\* It frees a connection that was freed.
FreedTwice ==
    /\ Interruptible
    /\ pc = "freed"
    /\ Crash

-----------------------------------------------------------------------------
Next ==
    \/ \E p \in Packet : Receive(p)
    \/ Free \/ ClearSlot \/ LoadToUncount \/ Uncount
    \/ Admit \/ Provide \/ ProvideNothing \/ FillSlot \/ LoadToCount \/ Count \/ Ask
    \/ SendDATA \/ LoadNext \/ StoreNext \/ AllSent
    \/ CopyData \/ Stamp \/ SaveData \/ Completed
    \/ CloseUpload \/ Acknowledge \/ LoadDuplicates \/ StoreDuplicates \/ Retransmit
    \/ UseAfterFree
    \/ SIGALRM \/ FreedTwice

Spec == Init /\ [][Next]_vars

-----------------------------------------------------------------------------
\* However signals fall between the halves of size++ and size--, a connection
\* that was admitted finds a slot: the counter may be too high, never too low.
AdmittedFindsSlot == At("add") => FreeSlots(Pool) # {}

\* Whenever a handler has returned, a peer with a connection has a SIGALRM
\* coming, although the signal may have come, found nothing to wait for and not
\* set the timer again, in the middle of the handler that made the connection.
TimerCoversConnections ==
    At("select") /\ Occupied(download_pool) \cup Occupied(upload_pool) # {} => alarm

\* A signal in the middle of process_GET, which sends its window with the timer
\* running, costs at most one packet: what next has passed was sent, but for
\* one that next++ may skip after handle_timeout has sent the window again.
AtMostOneSkipped ==
    At("select") =>
        \A k \in Occupied(upload_pool) :
            LET c == upload_pool.connections[k]
            IN  c.next - c.available \in {1, 2}

\* Between packets, a chunk is DOWNLOADING exactly while a connection is there
\* for it, and only one, wherever a signal gave up a connection.
DownloadingIffConnected ==
    At("select") =>
        \A h \in Hash :
            LET slots == {k \in Occupied(download_pool) :
                             download_pool.connections[k].sha1 = h}
            IN  /\ statuses[h] = "DOWNLOADING" <=> slots # {}
                /\ \A k, l \in slots : k = l

\* A signal between save_data and remove_from_download_pool does not give up the
\* connection of a chunk that was just saved.
DoneIsFinal ==
    [][\A h \in Hash : statuses[h] = "DONE" => statuses'[h] = "DONE"]_vars

\* process_GET turns a peer away only if all connections are in use.
RefusedOnlyWhenFull ==
    [][pc = "admit" /\ pc' = "select" /\ pkt.type = "GET"
       => FreeSlots(upload_pool) = {}]_vars
=============================================================================
