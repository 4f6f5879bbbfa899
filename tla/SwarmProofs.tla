----------------------------- MODULE SwarmProofs ----------------------------
(***************************************************************************)
(* Theorems about Swarm, for any number of peers and slots, any chunk and  *)
(* window size, and whatever the network and the user do.                  *)
(*                                                                         *)
(* First what the operators on the network, packets, tables and            *)
(* connections return.  Then, with one lemma per action and invariant,     *)
(* type correctness and the invariants that are about the pools and the    *)
(* timer alone: PoolsConsistent, TimerCoversConnections and WindowIsSent.  *)
(* Then the chunk table, where a step is first reduced to what it does to  *)
(* the table and the downloads of one peer: DownloadingIffConnected,       *)
(* DoneIsIntact and DoneIsFinal.  At the end, Swarm implements Download,   *)
(* as long as users wait for the end of one download before they ask for   *)
(* the next.                                                               *)
(***************************************************************************)
EXTENDS Swarm, PoolTheorems, SequenceTheorems

-----------------------------------------------------------------------------
(* The network: packets of a type stay packets of that type, whatever is   *)
(* sent, dropped or taken off the network.                                 *)

\* Networks, and what a handler sends, with packets of this type.
NetOf(Packets) == [Peer -> [Peer -> Seq(Packets)]]
OutOf(Packets) == [Peer -> Seq(Packets)]

\* A one packet sequence is a sequence of packets.
LEMMA OnePacket ==
    ASSUME NEW Packets, NEW m \in Packets
    PROVE  <<m>> \in Seq(Packets)
  OBVIOUS

\* What a handler sends consists of packets.
LEMMA OutTypes ==
    ASSUME NEW Packets, NEW packets \in Seq(Packets), NEW q \in Peer,
           NEW out1 \in OutOf(Packets), NEW out2 \in OutOf(Packets)
    PROVE  /\ Silence \in OutOf(Packets)
           /\ To(q, packets) \in OutOf(Packets)
           /\ ToOthers(q, packets) \in OutOf(Packets)
           /\ Then(out1, out2) \in OutOf(Packets)
<1>1. <<>> \in Seq(Packets)
  OBVIOUS
<1>2. \A t \in Peer : out1[t] \o out2[t] \in Seq(Packets)
  BY ConcatProperties DEF OutOf
<1> QED
  BY <1>1, <1>2 DEF OutOf, Silence, To, ToOthers, Then

\* A queue drops packets and never makes one up.
LEMMA EnQType ==
    ASSUME NEW Packets, NEW queue \in Seq(Packets), NEW packets \in Seq(Packets)
    PROVE  EnQ(queue, packets) \in Seq(Packets)
<1> DEFINE all == queue \o packets
<1>1. all \in Seq(Packets)
  BY ConcatProperties
<1>2. CASE Len(all) <= QUEUE_MAX
  BY <1>1, <1>2 DEF EnQ
<1>3. CASE ~(Len(all) <= QUEUE_MAX)
  <2>1. \A i \in 1 .. QUEUE_MAX : all[i] \in Packets
    BY <1>1, <1>3, QUEUE_MAX_Assumption
  <2>2. 1 \in Int /\ QUEUE_MAX \in Int
    BY QUEUE_MAX_Assumption
  <2>3. SubSeq(all, 1, QUEUE_MAX) \in Seq(Packets)
    BY <2>1, <2>2, SubSeqProperties, Zenon
  <2> QED
    BY <1>3, <2>3 DEF EnQ
<1> QED
  BY <1>2, <1>3

\* Sending adds packets to queues.
LEMMA PostType ==
    ASSUME NEW Packets, NEW N \in NetOf(Packets), NEW p \in Peer,
           NEW out \in OutOf(Packets), NEW reachable
    PROVE  Post(N, p, out, reachable) \in NetOf(Packets)
<1>1. \A t \in Peer : EnQ(N[p][t], out[t]) \in Seq(Packets)
  BY EnQType DEF NetOf, OutOf
<1>2. [t \in Peer |-> IF t \in reachable THEN EnQ(N[p][t], out[t])
                      ELSE N[p][t]] \in [Peer -> Seq(Packets)]
  BY <1>1 DEF NetOf
<1> QED
  BY <1>2 DEF NetOf, Post

\* Taking a packet off the network leaves the others.
LEMMA WithoutType ==
    ASSUME NEW Packets, NEW N \in NetOf(Packets), NEW p \in Peer,
           NEW q \in Peer, NEW i \in DOMAIN N[q][p]
    PROVE  /\ N[q][p][i] \in Packets
           /\ Without(N, q, p, i) \in NetOf(Packets)
<1> DEFINE s == N[q][p]
<1>1. s \in Seq(Packets) /\ i \in 1 .. Len(s) /\ Len(s) \in Nat
  BY DEF NetOf
<1>2. SubSeq(s, 1, i - 1) \in Seq(Packets)
  BY <1>1, SubSeqProperties
<1>3. SubSeq(s, i + 1, Len(s)) \in Seq(Packets)
  BY <1>1, SubSeqProperties
<1>4. RemoveAt(s, i) \in Seq(Packets)
  BY <1>2, <1>3, ConcatProperties DEF RemoveAt
<1> QED
  BY <1>1, <1>4 DEF NetOf, Without

\* Nothing is left on the way to a peer that ended.
LEMMA UnpluggedType ==
    ASSUME NEW Packets, NEW N \in NetOf(Packets), NEW p \in Peer
    PROVE  Unplugged(N, p) \in NetOf(Packets)
  BY DEF NetOf, Unplugged

-----------------------------------------------------------------------------
(* Packets. *)

\* A function on 1 .. n is a sequence, an empty one if n is not positive.
LEMMA FunctionAsSequence ==
    ASSUME NEW S, NEW n \in Int, NEW f \in [1 .. n -> S]
    PROVE  f \in Seq(S)
<1>1. CASE n >= 0
  <2>1. n \in Nat
    BY <1>1
  <2> QED
    BY <2>1, SeqDef
<1>2. CASE n < 0
  <2>1. 1 .. n = 1 .. 0
    BY <1>2
  <2>2. f \in [1 .. 0 -> S] /\ 0 \in Nat
    BY <2>1
  <2> QED
    BY <2>2, SeqDef, Zenon
<1> QED
  BY <1>1, <1>2

\* A packet has the fields of its type.
LEMMA PacketFields ==
    ASSUME NEW m \in Packet
    PROVE  /\ m.type \in {"WHOHAS", "IHAVE"} => m.chunks \in Payload
           /\ m.type = "GET" => m.sha1 \in Hash
           /\ m.type = "DATA" => m.seq_num \in 1 .. CHUNK_SIZE /\ m.sha1 \in Hash
           /\ m.type = "ACK" => m.ack_num \in 0 .. CHUNK_SIZE
  BY DEF Packet

\* What the constructors return are packets.
LEMMA PacketTypes ==
    /\ \A x \in Payload : WHOHAS(x) \in Packet /\ IHAVE(x) \in Packet
    /\ \A h \in Hash : GET(h) \in Packet
    /\ \A n \in 1 .. CHUNK_SIZE, h \in Hash : DATA(n, h) \in Packet
    /\ \A n \in 0 .. CHUNK_SIZE : ACK(n) \in Packet
  BY DEF Packet, WHOHAS, IHAVE, GET, DATA, ACK

\* The network after p has answered the packet it took.
LEMMA AnswerType ==
    ASSUME TypeOK, NEW p \in Peer, NEW q \in Peer, NEW i \in DOMAIN net[q][p],
           NEW out \in OutOf(Packet), Answer(p, q, i, out)
    PROVE  net' \in [Peer -> [Peer -> Seq(Packet)]]
<1>1. net \in NetOf(Packet)
  BY DEF TypeOK, NetOf
<1>2. Without(net, q, p, i) \in NetOf(Packet)
  BY <1>1, WithoutType
<1>3. Post(Without(net, q, p, i), p, out, Running) \in NetOf(Packet)
  BY <1>2, PostType
<1> QED
  BY <1>3 DEF Answer, NetOf

\* The packet a handler takes is a packet.
LEMMA ArrivingPacket ==
    ASSUME TypeOK, NEW p \in Peer, NEW q \in Peer, NEW i, NEW type,
           Arrives(p, q, i, type)
    PROVE  /\ i \in DOMAIN net[q][p]
           /\ net[q][p][i] \in Packet
           /\ net[q][p][i].type = type
<1>1. net \in NetOf(Packet) /\ i \in DOMAIN net[q][p] /\ net[q][p][i].type = type
  BY DEF TypeOK, NetOf, Arrives
<1> QED
  BY <1>1, WithoutType

\* Packets of one kind, sent to one peer.
LEMMA OnePacketTo ==
    ASSUME NEW q \in Peer, NEW m \in Packet
    PROVE  To(q, <<m>>) \in OutOf(Packet) /\ ToOthers(q, <<m>>) \in OutOf(Packet)
<1>1. <<m>> \in Seq(Packet)
  BY OnePacket
<1> QED
  BY <1>1 DEF To, ToOthers, OutOf

\* Sending nothing.
LEMMA SilenceType == Silence \in OutOf(Packet)
  BY DEF Silence, OutOf

-----------------------------------------------------------------------------
(* Tables. *)

\* The index a hash stands for is one of its indices.
LEMMA IndexOfHash ==
    ASSUME NEW f \in Seq(Hash), NEW h, Listed(f, h)
    PROVE  /\ IndexOf(f, h) \in DOMAIN f
           /\ f[IndexOf(f, h)] = h
<1>1. IndicesOf(f, h) \in SUBSET Nat /\ IndicesOf(f, h) # {}
  BY DEF IndicesOf, Listed
<1>2. IndexOf(f, h) \in IndicesOf(f, h)
  BY <1>1, MinOfNaturals DEF IndexOf
<1> QED
  BY <1>2 DEF IndicesOf

\* Writing the entry of a hash keeps an array of the table an array.
LEMMA WithStatusType ==
    ASSUME NEW f \in Seq(Hash), NEW V, NEW st \in [DOMAIN f -> V], NEW h,
           NEW x \in V
    PROVE  WithStatus(f, st, h, x) \in [DOMAIN f -> V]
  BY IndexOfHash DEF WithStatus

\* A part of a request or of an offer is one too.
LEMMA RestrictedType ==
    ASSUME NEW x \in Payload, NEW S \in SUBSET DOMAIN x
    PROVE  Restricted(x, S) \in Payload
  BY DEF Payload, Restricted

\* A table of a file that fits one packet can be requested in one packet.
LEMMA WantedType ==
    ASSUME NEW f \in Seq(Hash), Len(f) <= MAX_CHUNKS_NUM, NEW st
    PROVE  Wanted(f, st) \in Payload
<1>1. DOMAIN f \in SUBSET (1 .. MAX_CHUNKS_NUM) /\ f \in [DOMAIN f -> Hash]
  BY MAX_CHUNKS_NUM_Assumption
<1>2. f \in Payload
  BY <1>1 DEF Payload
<1> QED
  BY <1>2, RestrictedType DEF Wanted

\* The chunk update_provider chooses is in the table, and nobody downloads it.
LEMMA ChosenChunk ==
    ASSUME NEW f \in Seq(Hash), NEW st, NEW x \in Payload,
           Startable(f, st, x) # {}
    PROVE  /\ Chosen(f, st, x) \in Hash
           /\ Listed(f, Chosen(f, st, x))
           /\ st[IndexOf(f, Chosen(f, st, x))] = "NOT_DOWNLOADED"
<1>1. PICK S \in SUBSET (1 .. MAX_CHUNKS_NUM) : x \in [S -> Hash]
  BY DEF Payload
<1>2. S \subseteq Nat /\ DOMAIN x = S
  BY <1>1, MAX_CHUNKS_NUM_Assumption
<1>3. \A k \in Startable(f, st, x) :
        /\ k \in S
        /\ Listed(f, x[k])
        /\ st[IndexOf(f, x[k])] = "NOT_DOWNLOADED"
  BY <1>2 DEF Startable
<1>4. Startable(f, st, x) \in SUBSET Nat
  BY <1>2, <1>3
<1>5. Min(Startable(f, st, x)) \in Startable(f, st, x)
  BY <1>4, MinOfNaturals
<1> QED
  BY <1>1, <1>3, <1>5 DEF Chosen

\* What a handler reads of the statuses are statuses.
LEMMA ReadingsType ==
    ASSUME TableOK, NEW p \in Peer, NEW st \in Readings(p)
    PROVE  st \in [DOMAIN chunks[p] -> Status]
  BY DEF TableOK, Readings

-----------------------------------------------------------------------------
(* Connections. *)

\* The empty slot is not a connection, and pools have at least one slot.
LEMMA PoolConstants ==
    /\ NULL \notin DownloadConnection
    /\ NULL \notin UploadConnection
    /\ \A p \in Peer : max_conn[p] \in Nat
  BY NULL_Assumption, Peers_Assumption

\* The window ends within the chunk.
LEMMA AvailableType ==
    ASSUME NEW n \in 0 .. CHUNK_SIZE - 1
    PROVE  Available(n) \in n + 1 .. CHUNK_SIZE
  BY CHUNK_SIZE_Assumption, WINDOW_Assumption DEF Available

\* New connections are connections.
LEMMA NewConnections ==
    ASSUME NEW q \in Peer, NEW h \in Hash
    PROVE  /\ NewDownload(q, h) \in DownloadConnection
           /\ NewUpload(q, h) \in UploadConnection
  BY CHUNK_SIZE_Assumption, WINDOW_Assumption, Limits_Assumption,
     OVERTIME_LIMIT_Assumption
     DEF NewDownload, NewUpload, DownloadConnection, UploadConnection

\* send_DATAs leaves a connection that has sent its window.
LEMMA SentType ==
    ASSUME NEW c \in UploadConnection
    PROVE  Sent(c) \in UploadConnection
<1>1. /\ c.next \in 1 .. CHUNK_SIZE + 1
      /\ c.available \in 1 .. CHUNK_SIZE
  BY DEF UploadConnection
<1>2. (IF c.next <= c.available THEN c.available + 1 ELSE c.next)
      \in 1 .. CHUNK_SIZE + 1
  BY <1>1, CHUNK_SIZE_Assumption
<1> QED
  BY <1>2 DEF Sent, UploadConnection

\* So does going back to the first packet that is not acknowledged.
LEMMA RewoundType ==
    ASSUME NEW c \in UploadConnection
    PROVE  Rewound(c) \in UploadConnection
<1>1. c.last_acked \in 0 .. CHUNK_SIZE - 1
  BY DEF UploadConnection
<1>2. /\ Available(c.last_acked) \in 1 .. CHUNK_SIZE
      /\ c.last_acked + 1 \in 1 .. CHUNK_SIZE + 1
      /\ 0 \in 0 .. DUPLICATE_LIMIT - 1
  BY <1>1, AvailableType, CHUNK_SIZE_Assumption, Limits_Assumption
<1> QED
  BY <1>2 DEF Rewound, UploadConnection

\* send_DATAs transmits DATA packets of the chunk.
LEMMA WindowType ==
    ASSUME NEW c \in UploadConnection
    PROVE  Window(c) \in Seq(Packet)
<1> DEFINE n == c.available - c.next + 1
<1>1. /\ c.next \in 1 .. CHUNK_SIZE + 1
      /\ c.available \in 1 .. CHUNK_SIZE
      /\ c.sha1 \in Hash
  BY DEF UploadConnection
<1>2. \A k \in 1 .. n : c.next + k - 1 \in 1 .. CHUNK_SIZE
  BY <1>1, CHUNK_SIZE_Assumption
<1>3. \A k \in 1 .. n : DATA(c.next + k - 1, c.sha1) \in Packet
  BY <1>1, <1>2, PacketTypes
<1>4. Window(c) \in [1 .. n -> Packet]
  BY <1>3 DEF Window
<1>5. n \in Int
  BY <1>1, CHUNK_SIZE_Assumption
<1> QED
  BY <1>4, <1>5, FunctionAsSequence

\* A download connection that has read one more packet.
LEMMA ReceivedType ==
    ASSUME NEW c \in DownloadConnection, c.expected_seq < CHUNK_SIZE, NEW data
    PROVE  Received(c, data) \in DownloadConnection
<1>1. c.expected_seq \in 1 .. CHUNK_SIZE /\ c.intact \in BOOLEAN
  BY DEF DownloadConnection
<1>2. /\ c.expected_seq + 1 \in 1 .. CHUNK_SIZE
      /\ 0 \in 0 .. OVERTIME_LIMIT
      /\ (c.intact /\ data.sha1 = c.sha1) \in BOOLEAN
  BY <1>1, CHUNK_SIZE_Assumption, OVERTIME_LIMIT_Assumption
<1> QED
  BY <1>2 DEF Received, DownloadConnection

\* A late download connection asks its peer for something that can be sent.
LEMMA ReminderType ==
    ASSUME NEW c \in DownloadConnection
    PROVE  Reminder(c) \in Packet
<1>1. c.expected_seq - 1 \in 0 .. CHUNK_SIZE /\ c.sha1 \in Hash
  BY CHUNK_SIZE_Assumption DEF DownloadConnection
<1> QED
  BY <1>1, PacketTypes DEF Reminder, AckAgain

-----------------------------------------------------------------------------
(* Parts of a step. *)

\* A step that leaves the table, or the connections, alone keeps their types.
LEMMA UnchangedTypes ==
    /\ TableOK /\ UNCHANGED tableVars => TableOK'
    /\ ConnOK /\ UNCHANGED connVars => ConnOK'
    /\ EnvOK /\ UNCHANGED envVars => EnvOK'
  BY DEF TableOK, ConnOK, EnvOK, tableVars, connVars, envVars

\* A timer is set.
LEMMA SetAlarmType ==
    ASSUME ConnOK, NEW p \in Peer, SetAlarm(p)
    PROVE  alarm' \in [Peer -> BOOLEAN]
  BY DEF ConnOK, SetAlarm

\* One upload pool changes.
LEMMA UploadPoolType ==
    ASSUME ConnOK, NEW p \in Peer,
           NEW pool \in PoolOf(max_conn[p], UploadConnection),
           upload_pool' = [upload_pool EXCEPT ![p] = pool],
           UNCHANGED download_pool, alarm' \in [Peer -> BOOLEAN]
    PROVE  ConnOK'
<1>1. DOMAIN upload_pool' = Peer
  BY DEF ConnOK
<1>2. \A t \in Peer : upload_pool'[t] \in PoolOf(max_conn[t], UploadConnection)
  BY DEF ConnOK
<1> QED
  BY <1>1, <1>2 DEF ConnOK

\* One download pool changes.
LEMMA DownloadPoolType ==
    ASSUME ConnOK, NEW p \in Peer,
           NEW pool \in PoolOf(max_conn[p], DownloadConnection),
           download_pool' = [download_pool EXCEPT ![p] = pool],
           UNCHANGED upload_pool, alarm' \in [Peer -> BOOLEAN]
    PROVE  ConnOK'
<1>1. DOMAIN download_pool' = Peer
  BY DEF ConnOK
<1>2. \A t \in Peer : download_pool'[t] \in PoolOf(max_conn[t], DownloadConnection)
  BY DEF ConnOK
<1> QED
  BY <1>1, <1>2 DEF ConnOK

\* A process that crashes leaves everything but the network as it was.
LEMMA CrashType ==
    ASSUME TypeOK, NEW p \in Peer, NEW q \in Peer, NEW i \in DOMAIN net[q][p],
           NEW out \in OutOf(Packet), Crash(p, q, i, out),
           UNCHANGED <<tableVars, connVars, envVars>>
    PROVE  TypeOK'
<1>1. net \in NetOf(Packet)
  BY DEF TypeOK, NetOf
<1>2. Without(net, q, p, i) \in NetOf(Packet)
  BY <1>1, WithoutType
<1>3. Post(Without(net, q, p, i), p, out, Running) \in NetOf(Packet)
  BY <1>2, PostType
<1>4. net' \in NetOf(Packet)
  BY <1>3, UnpluggedType DEF Crash
<1>5. run' \in [Peer -> {"running", "crashed", "killed"}]
  BY DEF TypeOK, Crash
<1> QED
  BY <1>4, <1>5, UnchangedTypes DEF TypeOK, NetOf

-----------------------------------------------------------------------------
(* One lemma per action. *)

\* process_WHOHAS sends IHAVE.
LEMMA ProcessWHOHASType ==
    ASSUME TypeOK, NEW p \in Peer, NEW q \in Peer, NEW i, ProcessWHOHAS(p, q, i)
    PROVE  TypeOK'
<1> DEFINE offer == OfferFrom(chunks_IHAVE[p], net[q][p][i].chunks)
           out == IF DOMAIN offer = {} THEN Silence ELSE To(q, <<IHAVE(offer)>>)
<1>1. Arrives(p, q, i, "WHOHAS") /\ Answer(p, q, i, out)
  BY DEF ProcessWHOHAS
<1>2. i \in DOMAIN net[q][p] /\ net[q][p][i].chunks \in Payload
  BY <1>1, ArrivingPacket, PacketFields
<1>3. offer \in Payload
  BY <1>2, RestrictedType DEF OfferFrom
<1>4. out \in OutOf(Packet)
  BY <1>3, PacketTypes, OnePacketTo, SilenceType
<1>5. net' \in [Peer -> [Peer -> Seq(Packet)]]
  BY <1>1, <1>2, <1>4, AnswerType
<1> QED
  BY <1>5, UnchangedTypes DEF TypeOK, ProcessWHOHAS

\* The handlers that ignore a packet.
LEMMA IgnoreType ==
    ASSUME TypeOK, NEW p \in Peer, NEW q \in Peer, NEW i,
           \/ IgnoreIHAVE(p, q, i)
           \/ IgnoreDATA(p, q, i)
           \/ IgnoreACK(p, q, i)
           \/ StaleACK(p, q, i)
    PROVE  TypeOK'
<1>1. /\ i \in DOMAIN net[q][p]
      /\ Answer(p, q, i, Silence)
      /\ UNCHANGED <<tableVars, connVars, run, envVars>>
  BY DEF IgnoreIHAVE, IgnoreDATA, IgnoreACK, StaleACK, AckArrives, Arrives
<1>2. net' \in [Peer -> [Peer -> Seq(Packet)]]
  BY <1>1, SilenceType, AnswerType
<1> QED
  BY <1>1, <1>2, UnchangedTypes DEF TypeOK

\* process_IHAVE adds a connection and sends GET.
LEMMA StartDownloadType ==
    ASSUME TypeOK, NEW p \in Peer, NEW q \in Peer, NEW i, StartDownload(p, q, i)
    PROVE  TypeOK'
<1> DEFINE offer == net[q][p][i].chunks
<1>1. /\ Arrives(p, q, i, "IHAVE")
      /\ SetAlarm(p)
      /\ UNCHANGED <<table, chunks, chunks_data, is_download_done, upload_pool,
                     run, envVars>>
  BY DEF StartDownload
<1>2. PICK st \in Readings(p) :
        LET sha1 == Chosen(chunks[p], st, offer)
        IN  /\ Startable(chunks[p], st, offer) # {}
            /\ statuses' = IF table[p] = "freed" THEN statuses
                           ELSE [statuses EXCEPT ![p] =
                               WithStatus(chunks[p], st, sha1, "DOWNLOADING")]
            /\ download_pool' = [download_pool EXCEPT ![p] =
                   AddTo(@, NewDownload(q, sha1))]
            /\ Answer(p, q, i, To(q, <<GET(sha1)>>))
  BY DEF StartDownload
<1> DEFINE sha1 == Chosen(chunks[p], st, offer)
<1>3. i \in DOMAIN net[q][p] /\ offer \in Payload
  BY <1>1, ArrivingPacket, PacketFields
<1>4. TableOK /\ ConnOK /\ EnvOK /\ chunks[p] \in Seq(Hash)
  BY DEF TypeOK, TableOK
<1>5. sha1 \in Hash
  BY <1>2, <1>3, <1>4, ChosenChunk
<1>6. TableOK'
  <2>1. st \in [DOMAIN chunks[p] -> Status]
    BY <1>4, ReadingsType
  <2>2. WithStatus(chunks[p], st, sha1, "DOWNLOADING")
        \in [DOMAIN chunks[p] -> Status]
    BY <1>4, <2>1, WithStatusType DEF Status
  <2>3. DOMAIN statuses' = Peer
    BY <1>2, <1>4 DEF TableOK
  <2>4. \A t \in Peer : statuses'[t] \in [DOMAIN chunks[t] -> Status]
    BY <1>2, <1>4, <2>2 DEF TableOK
  <2> QED
    BY <1>1, <1>4, <2>3, <2>4 DEF TableOK
<1>7. ConnOK'
  <2>1. AddTo(download_pool[p], NewDownload(q, sha1))
        \in PoolOf(max_conn[p], DownloadConnection)
    BY <1>4, <1>5, PoolConstants, NewConnections, AddToType DEF ConnOK
  <2> QED
    BY <1>1, <1>2, <1>4, <2>1, SetAlarmType, DownloadPoolType
<1>8. net' \in [Peer -> [Peer -> Seq(Packet)]]
  BY <1>2, <1>3, <1>5, PacketTypes, OnePacketTo, AnswerType
<1> QED
  BY <1>1, <1>4, <1>6, <1>7, <1>8, UnchangedTypes DEF TypeOK

\* The two handlers that crash.
LEMMA CrashesType ==
    ASSUME TypeOK, NEW p \in Peer, NEW q \in Peer, NEW i,
           CrashOnIHAVE(p, q, i) \/ CrashOnDATA(p, q, i)
    PROVE  TypeOK'
<1>1. CASE CrashOnIHAVE(p, q, i)
  <2>1. /\ i \in DOMAIN net[q][p]
        /\ Crash(p, q, i, Silence)
        /\ UNCHANGED <<tableVars, connVars, envVars>>
    BY <1>1 DEF CrashOnIHAVE, Arrives
  <2> QED
    BY <2>1, SilenceType, CrashType
<1>2. CASE CrashOnDATA(p, q, i)
  <2>1. /\ i \in DOMAIN net[q][p]
        /\ Crash(p, q, i, To(q, <<ACK(CHUNK_SIZE)>>))
        /\ UNCHANGED <<tableVars, connVars, envVars>>
    BY <1>2 DEF CrashOnDATA, LastDATA, Arrives
  <2>2. To(q, <<ACK(CHUNK_SIZE)>>) \in OutOf(Packet)
    BY CHUNK_SIZE_Assumption, PacketTypes, OnePacketTo
  <2> QED
    BY <2>1, <2>2, CrashType
<1> QED
  BY <1>1, <1>2

\* process_GET replaces or adds an upload connection and sends a window.
LEMMA GETType ==
    ASSUME TypeOK, NEW p \in Peer, NEW q \in Peer, NEW i,
           RefuseGET(p, q, i) \/ AcceptGET(p, q, i)
    PROVE  TypeOK'
<1> DEFINE pool == RemoveFrom(upload_pool[p], q)
           c == NewUpload(q, net[q][p][i].sha1)
<1>1. /\ Arrives(p, q, i, "GET")
      /\ UNCHANGED <<tableVars, download_pool, run, envVars>>
  BY DEF RefuseGET, AcceptGET
<1>2. i \in DOMAIN net[q][p] /\ net[q][p][i].sha1 \in Hash
  BY <1>1, ArrivingPacket, PacketFields
<1>3. TableOK /\ ConnOK /\ EnvOK
  BY DEF TypeOK
<1>4. pool \in PoolOf(max_conn[p], UploadConnection)
  BY <1>3, PoolConstants, RemoveFromType DEF ConnOK
<1>5. CASE RefuseGET(p, q, i)
  <2>1. /\ upload_pool' = [upload_pool EXCEPT ![p] = pool]
        /\ Answer(p, q, i, Silence)
        /\ UNCHANGED alarm
    BY <1>5 DEF RefuseGET
  <2>2. ConnOK'
    BY <1>1, <1>3, <1>4, <2>1, UploadPoolType DEF ConnOK
  <2>3. net' \in [Peer -> [Peer -> Seq(Packet)]]
    BY <1>2, <2>1, SilenceType, AnswerType
  <2> QED
    BY <1>1, <1>3, <2>2, <2>3, UnchangedTypes DEF TypeOK
<1>6. CASE AcceptGET(p, q, i)
  <2>1. /\ upload_pool' = [upload_pool EXCEPT ![p] = AddTo(pool, Sent(c))]
        /\ Answer(p, q, i, To(q, Window(c)))
        /\ SetAlarm(p)
    BY <1>6 DEF AcceptGET
  <2>2. c \in UploadConnection /\ Sent(c) \in UploadConnection
    BY <1>2, NewConnections, SentType
  <2>3. AddTo(pool, Sent(c)) \in PoolOf(max_conn[p], UploadConnection)
    BY <1>4, <2>2, PoolConstants, AddToType
  <2>4. ConnOK'
    BY <1>1, <1>3, <2>1, <2>3, SetAlarmType, UploadPoolType
  <2>5. net' \in [Peer -> [Peer -> Seq(Packet)]]
    <3>1. To(q, Window(c)) \in OutOf(Packet)
      BY <2>2, WindowType DEF To, OutOf
    <3> QED
      BY <1>2, <2>1, <3>1, AnswerType
  <2> QED
    BY <1>1, <1>3, <2>4, <2>5, UnchangedTypes DEF TypeOK
<1> QED
  BY <1>5, <1>6
\* A DATA packet in the middle of a chunk, expected or not.
LEMMA DATAType ==
    ASSUME TypeOK, NEW p \in Peer, NEW q \in Peer, NEW i,
           RejectDATA(p, q, i) \/ AcceptDATA(p, q, i)
    PROVE  TypeOK'
<1> DEFINE c == Find(download_pool[p], q)
           data == net[q][p][i]
<1>1. /\ Arrives(p, q, i, "DATA")
      /\ Connected(download_pool[p], q)
      /\ SetAlarm(p)
      /\ UNCHANGED <<tableVars, upload_pool, run, envVars>>
  BY DEF RejectDATA, AcceptDATA
<1>2. i \in DOMAIN net[q][p]
  BY <1>1 DEF Arrives
<1>3. TableOK /\ ConnOK /\ EnvOK
  BY DEF TypeOK
<1>4. /\ download_pool[p] \in PoolOf(max_conn[p], DownloadConnection)
      /\ c \in DownloadConnection
  BY <1>1, <1>3, PoolConstants, FindInPool DEF ConnOK
<1>5. c.expected_seq \in 1 .. CHUNK_SIZE
  BY <1>4 DEF DownloadConnection
<1>6. ASSUME NEW new \in DownloadConnection, NEW m \in Packet,
             download_pool' = [download_pool EXCEPT ![p] =
                 Update(download_pool[p], q, new)],
             Answer(p, q, i, To(q, <<m>>))
      PROVE  TypeOK'
  <2>1. Update(download_pool[p], q, new)
        \in PoolOf(max_conn[p], DownloadConnection)
    BY <1>1, <1>4, PoolConstants, UpdateSlots
  <2>2. ConnOK'
    BY <1>1, <1>3, <1>6, <2>1, SetAlarmType, DownloadPoolType
  <2>3. net' \in [Peer -> [Peer -> Seq(Packet)]]
    BY <1>2, <1>6, OnePacketTo, AnswerType
  <2> QED
    BY <1>1, <1>3, <2>2, <2>3, UnchangedTypes DEF TypeOK
<1>7. CASE RejectDATA(p, q, i)
  <2>1. /\ download_pool' = [download_pool EXCEPT ![p] =
              Update(download_pool[p], q, [c EXCEPT !.overtime_count = 0])]
        /\ Answer(p, q, i, To(q, <<AckAgain(c)>>))
    BY <1>7 DEF RejectDATA
  <2>2. [c EXCEPT !.overtime_count = 0] \in DownloadConnection
    BY <1>4, OVERTIME_LIMIT_Assumption DEF DownloadConnection
  <2>3. AckAgain(c) \in Packet
    <3>1. c.expected_seq - 1 \in 0 .. CHUNK_SIZE
      BY <1>5, CHUNK_SIZE_Assumption
    <3> QED
      BY <3>1, PacketTypes DEF AckAgain
  <2> QED
    BY <1>6, <2>1, <2>2, <2>3
<1>8. CASE AcceptDATA(p, q, i)
  <2>1. /\ download_pool' = [download_pool EXCEPT ![p] =
              Update(download_pool[p], q, Received(c, data))]
        /\ Answer(p, q, i, To(q, <<ACK(c.expected_seq)>>))
        /\ c.expected_seq < CHUNK_SIZE
    BY <1>8 DEF AcceptDATA
  <2>2. Received(c, data) \in DownloadConnection
    BY <1>4, <2>1, ReceivedType
  <2>3. ACK(c.expected_seq) \in Packet
    BY <1>5, PacketTypes
  <2> QED
    BY <1>6, <2>1, <2>2, <2>3
<1> QED
  BY <1>7, <1>8

\* The last DATA packet of a chunk.
LEMMA LastDATAType ==
    ASSUME TypeOK, NEW p \in Peer, NEW q \in Peer, NEW i,
           FinishChunk(p, q, i) \/ FinishFile(p, q, i)
    PROVE  TypeOK'
<1> DEFINE c == Received(Find(download_pool[p], q), net[q][p][i])
<1>1. /\ LastDATA(p, q, i)
      /\ UNCHANGED <<chunks, upload_pool, run, envVars>>
      /\ table' \in [Peer -> {"none", "live", "freed"}]
      /\ is_download_done' \in [Peer -> BOOLEAN]
  BY DEF FinishChunk, FinishFile, TypeOK, TableOK
<1>2. i \in DOMAIN net[q][p]
  BY <1>1 DEF LastDATA, Arrives
<1>3. TableOK /\ ConnOK /\ EnvOK /\ chunks[p] \in Seq(Hash)
  BY DEF TypeOK, TableOK
<1>4. PICK st \in Readings(p), out \in OutOf(Packet) :
        CompletesChunk(p, q, i, st, out)
  <2>1. CASE FinishChunk(p, q, i)
    <3>1. PICK st \in Readings(p) :
            CompletesChunk(p, q, i, st, Request(p, chunks[p], Saved(p, q, i, st)))
      BY <2>1 DEF FinishChunk
    <3>2. Wanted(chunks[p], Saved(p, q, i, st)) \in Payload
      BY <1>3, WantedType DEF TableOK
    <3>3. Request(p, chunks[p], Saved(p, q, i, st)) \in OutOf(Packet)
      BY <3>2, PacketTypes, OnePacketTo DEF Request
    <3> QED
      BY <3>1, <3>3
  <2>2. CASE FinishFile(p, q, i)
    BY <2>2, SilenceType DEF FinishFile, Readings
  <2> QED
    BY <2>1, <2>2
<1>5. st \in [DOMAIN chunks[p] -> Status]
  BY <1>3, ReadingsType
<1>6. TableOK'
  <2> DEFINE content == WithStatus(chunks[p], chunks_data[p], c.sha1,
                                   IF c.intact THEN "intact" ELSE "mixed")
  <2>1. Saved(p, q, i, st) \in [DOMAIN chunks[p] -> Status]
    <3>1. SavedStatus(c.intact) \in Status
      BY DEF SavedStatus, Status
    <3> QED
      BY <1>3, <1>5, <3>1, WithStatusType DEF Saved
  <2>2. content \in [DOMAIN chunks[p] -> Content]
    <3>1. (IF c.intact THEN "intact" ELSE "mixed") \in Content
      BY DEF Content
    <3> QED
      BY <1>3, <3>1, WithStatusType DEF TableOK
  <2>3. \/ UNCHANGED <<statuses, chunks_data>>
        \/ /\ statuses' = [statuses EXCEPT ![p] = Saved(p, q, i, st)]
           /\ chunks_data' = [chunks_data EXCEPT ![p] = content]
    BY <1>4 DEF CompletesChunk
  <2>4. DOMAIN statuses' = Peer /\ DOMAIN chunks_data' = Peer
    BY <1>3, <2>3 DEF TableOK
  <2>5. \A t \in Peer : /\ statuses'[t] \in [DOMAIN chunks[t] -> Status]
                        /\ chunks_data'[t] \in [DOMAIN chunks[t] -> Content]
    BY <1>3, <2>1, <2>2, <2>3 DEF TableOK
  <2> QED
    BY <1>1, <1>3, <2>4, <2>5 DEF TableOK
<1>7. ConnOK'
  <2>1. /\ download_pool' = [download_pool EXCEPT ![p] =
              RemoveFrom(download_pool[p], q)]
        /\ SetAlarm(p)
    BY <1>4 DEF CompletesChunk
  <2>2. RemoveFrom(download_pool[p], q)
        \in PoolOf(max_conn[p], DownloadConnection)
    BY <1>3, PoolConstants, RemoveFromType DEF ConnOK
  <2> QED
    BY <1>1, <1>3, <2>1, <2>2, SetAlarmType, DownloadPoolType
<1>8. net' \in [Peer -> [Peer -> Seq(Packet)]]
  <2>1. To(q, <<ACK(CHUNK_SIZE)>>) \in OutOf(Packet)
    BY CHUNK_SIZE_Assumption, PacketTypes, OnePacketTo
  <2>2. Then(To(q, <<ACK(CHUNK_SIZE)>>), out) \in OutOf(Packet)
    BY <2>1, ConcatProperties DEF Then, OutOf
  <2>3. Answer(p, q, i, Then(To(q, <<ACK(CHUNK_SIZE)>>), out))
    BY <1>4 DEF CompletesChunk
  <2> QED
    BY <1>2, <2>2, <2>3, AnswerType
<1> QED
  BY <1>1, <1>3, <1>6, <1>7, <1>8, UnchangedTypes DEF TypeOK

\* The ACK of a whole chunk.
LEMMA FinishUploadType ==
    ASSUME TypeOK, NEW p \in Peer, NEW q \in Peer, NEW i, FinishUpload(p, q, i)
    PROVE  TypeOK'
<1>1. /\ i \in DOMAIN net[q][p]
      /\ upload_pool' = [upload_pool EXCEPT ![p] = RemoveFrom(upload_pool[p], q)]
      /\ Answer(p, q, i, Silence)
      /\ SetAlarm(p)
      /\ UNCHANGED <<tableVars, download_pool, run, envVars>>
  BY DEF FinishUpload, Arrives
<1>2. TableOK /\ ConnOK /\ EnvOK
  BY DEF TypeOK
<1>3. RemoveFrom(upload_pool[p], q) \in PoolOf(max_conn[p], UploadConnection)
  BY <1>2, PoolConstants, RemoveFromType DEF ConnOK
<1>4. ConnOK'
  BY <1>1, <1>2, <1>3, SetAlarmType, UploadPoolType
<1>5. net' \in [Peer -> [Peer -> Seq(Packet)]]
  BY <1>1, SilenceType, AnswerType
<1> QED
  BY <1>1, <1>2, <1>4, <1>5, UnchangedTypes DEF TypeOK

\* The ACKs that move the window, and those that repeat the last one.
LEMMA ACKType ==
    ASSUME TypeOK, NEW p \in Peer, NEW q \in Peer, NEW i,
           \/ CumulativeACK(p, q, i)
           \/ FastRetransmit(p, q, i)
           \/ DuplicateACK(p, q, i)
    PROVE  TypeOK'
<1> DEFINE c == Find(upload_pool[p], q)
           ack_num == net[q][p][i].ack_num
<1>1. /\ Arrives(p, q, i, "ACK")
      /\ Connected(upload_pool[p], q)
      /\ ack_num # CHUNK_SIZE
      /\ UNCHANGED <<tableVars, download_pool, run, envVars>>
  BY DEF CumulativeACK, FastRetransmit, DuplicateACK, AckArrives
<1>2. i \in DOMAIN net[q][p] /\ ack_num \in 0 .. CHUNK_SIZE
  BY <1>1, ArrivingPacket, PacketFields
<1>3. TableOK /\ ConnOK /\ EnvOK
  BY DEF TypeOK
<1>4. /\ upload_pool[p] \in PoolOf(max_conn[p], UploadConnection)
      /\ c \in UploadConnection
  BY <1>1, <1>3, PoolConstants, FindInPool DEF ConnOK
<1>5. ASSUME NEW new \in UploadConnection, NEW out \in OutOf(Packet),
             upload_pool' = [upload_pool EXCEPT ![p] =
                 Update(upload_pool[p], q, new)],
             Answer(p, q, i, out),
             alarm' \in [Peer -> BOOLEAN]
      PROVE  TypeOK'
  <2>1. Update(upload_pool[p], q, new) \in PoolOf(max_conn[p], UploadConnection)
    BY <1>1, <1>4, PoolConstants, UpdateSlots
  <2>2. ConnOK'
    BY <1>1, <1>3, <1>5, <2>1, UploadPoolType
  <2>3. net' \in [Peer -> [Peer -> Seq(Packet)]]
    BY <1>2, <1>5, AnswerType
  <2> QED
    BY <1>1, <1>3, <2>2, <2>3, UnchangedTypes DEF TypeOK
<1>6. ASSUME NEW new \in UploadConnection, Transmit(p, q, i, new)
      PROVE  TypeOK'
  <2>1. Sent(new) \in UploadConnection /\ To(q, Window(new)) \in OutOf(Packet)
    BY <1>6, SentType, WindowType DEF To, OutOf
  <2>2. alarm' \in [Peer -> BOOLEAN]
    BY <1>3, <1>6, SetAlarmType DEF Transmit
  <2> QED
    BY <1>5, <1>6, <2>1, <2>2 DEF Transmit
<1>7. CASE CumulativeACK(p, q, i)
  <2>1. Transmit(p, q, i, [c EXCEPT !.last_acked = ack_num, !.duplicate_num = 0,
                                    !.overtime_count = 0,
                                    !.available = Available(ack_num)])
    BY <1>7 DEF CumulativeACK
  <2>2. /\ ack_num \in 0 .. CHUNK_SIZE - 1
        /\ 0 \in 0 .. DUPLICATE_LIMIT - 1
        /\ 0 \in 0 .. OVERTIME_LIMIT
    BY <1>1, <1>2, CHUNK_SIZE_Assumption, Limits_Assumption,
       OVERTIME_LIMIT_Assumption
  <2>3. Available(ack_num) \in 1 .. CHUNK_SIZE
    BY <2>2, AvailableType
  <2>4. [c EXCEPT !.last_acked = ack_num, !.duplicate_num = 0,
                  !.overtime_count = 0, !.available = Available(ack_num)]
        \in UploadConnection
    BY <1>4, <2>2, <2>3 DEF UploadConnection
  <2> QED
    BY <1>6, <2>1, <2>4
<1>8. CASE FastRetransmit(p, q, i)
  <2>1. Transmit(p, q, i, Rewound([c EXCEPT !.overtime_count = 0]))
    BY <1>8 DEF FastRetransmit
  <2>2. [c EXCEPT !.overtime_count = 0] \in UploadConnection
    BY <1>4, OVERTIME_LIMIT_Assumption DEF UploadConnection
  <2> QED
    BY <1>6, <2>1, <2>2, RewoundType
<1>9. CASE DuplicateACK(p, q, i)
  <2> DEFINE new == [c EXCEPT !.duplicate_num = c.duplicate_num + 1,
                              !.overtime_count = 0]
  <2>1. /\ c.duplicate_num + 1 < DUPLICATE_LIMIT
        /\ upload_pool' = [upload_pool EXCEPT ![p] =
              Update(upload_pool[p], q, new)]
        /\ Answer(p, q, i, Silence)
        /\ UNCHANGED alarm
    BY <1>9 DEF DuplicateACK
  <2>2. /\ c.duplicate_num + 1 \in 0 .. DUPLICATE_LIMIT - 1
        /\ 0 \in 0 .. OVERTIME_LIMIT
    BY <1>4, <2>1, Limits_Assumption, OVERTIME_LIMIT_Assumption
       DEF UploadConnection
  <2>3. new \in UploadConnection
    BY <1>4, <2>2 DEF UploadConnection
  <2>4. alarm' \in [Peer -> BOOLEAN]
    BY <1>3, <2>1 DEF ConnOK
  <2> QED
    BY <1>5, <2>1, <2>3, <2>4, SilenceType
<1> QED
  BY <1>7, <1>8, <1>9
-----------------------------------------------------------------------------
(* handle_timeout. *)

\* The n-th slot of a set of slots exists: ranks are different for different
\* slots, and there are as many of them as slots.
LEMMA KthExists ==
    ASSUME NEW S \in SUBSET Nat, IsFiniteSet(S), NEW n \in 1 .. Cardinality(S)
    PROVE  Kth(S, n) \in S
<1> DEFINE Upto(k) == {j \in S : j <= k}
           rank == [k \in S |-> Cardinality(Upto(k))]
           N == 1 .. Cardinality(S)
<1>1. \A k \in S : /\ IsFiniteSet(Upto(k))
                   /\ Cardinality(Upto(k)) \in Nat
                   /\ Cardinality(Upto(k)) <= Cardinality(S)
  BY FS_Subset, FS_CardinalityType
<1>2. \A k \in S : Cardinality(Upto(k)) # 0
  BY <1>1, FS_EmptySet
<1>3. Cardinality(S) \in Nat
  BY FS_CardinalityType
<1>4. rank \in [S -> N]
  BY <1>1, <1>2, <1>3
<1>5. ASSUME NEW j \in S, NEW k \in S, rank[j] = rank[k], j < k
      PROVE  FALSE
  <2>1. Upto(j) \in SUBSET Upto(k)
    <3>1. \A x \in S : x <= j => x <= k
      BY <1>5
    <3> QED
      BY <3>1
  <2>2. k \in Upto(k) /\ k \notin Upto(j)
    BY <1>5
  <2>3. Cardinality(Upto(j)) = Cardinality(Upto(k)) => Upto(j) = Upto(k)
    BY <1>1, <2>1, FS_Subset
  <2> QED
    BY <1>5, <2>2, <2>3
<1>6. \A j, k \in S : rank[j] = rank[k] => j = k
  <2> SUFFICES ASSUME NEW j \in S, NEW k \in S, rank[j] = rank[k], j # k
               PROVE  FALSE
    OBVIOUS
  <2>1. j < k \/ k < j
    OBVIOUS
  <2> QED
    BY <1>5, <2>1
<1>7. rank \in Injection(S, N)
  BY <1>4, <1>6 DEF Injection, IsInjective
<1>8. IsFiniteSet(N) /\ Cardinality(N) = Cardinality(S)
  BY <1>3, FS_Interval
<1>9. rank \in Surjection(S, N)
  BY <1>7, <1>8, FS_Injection
<1>10. \E k \in S : rank[k] = n
  BY <1>9 DEF Surjection
<1>11. \E k \in S : Cardinality(Upto(k)) = n
  BY <1>10
<1> QED
  BY <1>11 DEF Kth

\* A late connection that is not given up has room for one more timeout.
LEMMA OvertimeType ==
    ASSUME NEW pool, NEW late, NEW k \in late \ GivenUp(pool, late)
    PROVE  /\ pool.connections[k] \in UploadConnection =>
                Overtime(pool.connections[k]) \in UploadConnection
           /\ pool.connections[k] \in DownloadConnection =>
                Overtime(pool.connections[k]) \in DownloadConnection
<1> DEFINE c == pool.connections[k]
<1>1. ~(c.overtime_count + 1 > OVERTIME_LIMIT)
  BY DEF GivenUp
<1>2. c.overtime_count \in 0 .. OVERTIME_LIMIT =>
        c.overtime_count + 1 \in 0 .. OVERTIME_LIMIT
  BY <1>1, OVERTIME_LIMIT_Assumption
<1>3. c \in UploadConnection => Overtime(c) \in UploadConnection
  BY <1>2 DEF Overtime, UploadConnection
<1>4. c \in DownloadConnection => Overtime(c) \in DownloadConnection
  BY <1>2 DEF Overtime, DownloadConnection
<1> QED
  BY <1>3, <1>4

\* The pools after a timeout.
LEMMA CheckedPoolsType ==
    ASSUME ConnOK, NEW p \in Peer,
           NEW up \in SUBSET Occupied(upload_pool[p]),
           NEW down \in SUBSET Occupied(download_pool[p])
    PROVE  /\ Checked(upload_pool[p], up, ResentUploads(upload_pool[p], up))
                \in PoolOf(max_conn[p], UploadConnection)
           /\ Checked(download_pool[p], down,
                      WaitingDownloads(download_pool[p], down))
                \in PoolOf(max_conn[p], DownloadConnection)
<1> DEFINE U == upload_pool[p]
           D == download_pool[p]
<1>1. /\ U \in PoolOf(max_conn[p], UploadConnection)
      /\ D \in PoolOf(max_conn[p], DownloadConnection)
  BY DEF ConnOK
<1>2. /\ \A k \in Occupied(U) : U.connections[k] \in UploadConnection
      /\ \A k \in Occupied(D) : D.connections[k] \in DownloadConnection
  BY <1>1, PoolConstants, PoolSlots
<1>3. \A k \in up \ GivenUp(U, up) : ResentUploads(U, up)[k] \in UploadConnection
  BY <1>2, OvertimeType, RewoundType, SentType DEF ResentUploads
<1>4. \A k \in down \ GivenUp(D, down) :
        WaitingDownloads(D, down)[k] \in DownloadConnection
  BY <1>2, OvertimeType DEF WaitingDownloads
<1>5. Checked(U, up, ResentUploads(U, up)) \in PoolOf(max_conn[p], UploadConnection)
  BY <1>1, <1>3, PoolConstants, CheckedType
<1>6. Checked(D, down, WaitingDownloads(D, down))
      \in PoolOf(max_conn[p], DownloadConnection)
  BY <1>1, <1>4, PoolConstants, CheckedType
<1> QED
  BY <1>5, <1>6
\* What is sent again to t.
LEMMA RetransmissionType ==
    ASSUME ConnOK, NEW p \in Peer, NEW t \in Peer, NEW up
    PROVE  Retransmission(p, t, up) \in Seq(Packet)
<1>1. CASE SlotsOf(upload_pool[p], t) = {}
  BY <1>1 DEF Retransmission
<1>2. CASE SlotsOf(upload_pool[p], t) # {}
  <2>1. Find(upload_pool[p], t) \in UploadConnection
    BY <1>2, PoolConstants, FindInPool DEF ConnOK, Connected
  <2>2. Window(Rewound(Find(upload_pool[p], t))) \in Seq(Packet)
    BY <2>1, RewoundType, WindowType
  <2> QED
    BY <2>2 DEF Retransmission
<1> QED
  BY <1>1, <1>2

\* Giving up keeps the statuses statuses.
LEMMA ReopenedType ==
    ASSUME NEW p, NEW D, NEW st \in [D -> Status], NEW slots
    PROVE  Reopened(p, st, slots) \in [D -> Status]
  BY DEF Reopened, Status

\* What the loop over the download pool sends to t.
LEMMA DownloadSignalsType ==
    ASSUME TableOK, ConnOK, NEW p \in Peer, NEW t \in Peer, NEW st,
           NEW down \in SUBSET Occupied(download_pool[p])
    PROVE  DownloadSignals(p, t, down, st) \in Seq(Packet)
<1> DEFINE pool == download_pool[p]
           out == GivenUp(pool, down)
           speaking == out \cup (down \cap SlotsOf(pool, t))
           signal(n) ==
               IF Kth(speaking, n) \in out
               THEN WHOHAS(Wanted(chunks[p],
                        Reopened(p, st, {j \in out : j <= Kth(speaking, n)})))
               ELSE Reminder(Find(pool, t))
<1>1. pool \in PoolOf(max_conn[p], DownloadConnection)
  BY DEF ConnOK
<1>2. speaking \in SUBSET Occupied(pool)
  BY DEF GivenUp, SlotsOf
<1>3. /\ Occupied(pool) \subseteq 0 .. max_conn[p] - 1
      /\ max_conn[p] \in Nat
      /\ IsFiniteSet(Occupied(pool))
  BY <1>1, PoolConstants, PoolSlots
<1>4. /\ speaking \in SUBSET Nat
      /\ IsFiniteSet(speaking)
      /\ Cardinality(speaking) \in Nat
  <2>1. IsFiniteSet(speaking)
    BY <1>2, <1>3, FS_Subset
  <2> QED
    BY <1>2, <1>3, <2>1, FS_CardinalityType
<1>5. ASSUME NEW n \in 1 .. Cardinality(speaking)
      PROVE  signal(n) \in Packet
  <2>1. Kth(speaking, n) \in speaking
    BY <1>4, KthExists
  <2>2. CASE Kth(speaking, n) \in out
    <3>1. \A x : Wanted(chunks[p], x) \in Payload
      BY WantedType DEF TableOK
    <3> QED
      BY <2>2, <3>1, PacketTypes
  <2>3. CASE Kth(speaking, n) \notin out
    <3>1. Connected(pool, t)
      BY <2>1, <2>3 DEF Connected
    <3>2. Find(pool, t) \in DownloadConnection
      BY <1>1, <3>1, PoolConstants, FindInPool
    <3> QED
      BY <2>3, <3>2, ReminderType
  <2> QED
    BY <2>2, <2>3
<1>6. [n \in 1 .. Cardinality(speaking) |-> signal(n)]
      \in [1 .. Cardinality(speaking) -> Packet]
  BY <1>5
<1>7. DownloadSignals(p, t, down, st)
      = [n \in 1 .. Cardinality(speaking) |-> signal(n)]
  BY DEF DownloadSignals
<1> HIDE DEF signal, speaking
<1> QED
  BY <1>4, <1>6, <1>7, FunctionAsSequence

\* handle_timeout writes pools, statuses and the timer.
LEMMA HandleTimeoutType ==
    ASSUME TypeOK, NEW p \in Peer,
           NEW up \in SUBSET Occupied(upload_pool[p]),
           NEW down \in SUBSET Occupied(download_pool[p]),
           HandleTimeout(p, up, down)
    PROVE  TypeOK'
<1> DEFINE out == GivenUp(download_pool[p], down)
           left == Occupied(upload_pool'[p]) \cup Occupied(download_pool'[p])
           retry == left = {} /\ ~is_download_done[p]
<1>1. TableOK /\ ConnOK /\ EnvOK
  BY DEF TypeOK
<1>2. PICK st \in Readings(p) :
        LET after == Reopened(p, st, out)
            sent == [t \in Peer |->
                        Retransmission(p, t, up)
                        \o IF t = p THEN <<>>
                           ELSE DownloadSignals(p, t, down, st)]
        IN  /\ statuses' = IF table[p] = "freed" THEN statuses
                           ELSE [statuses EXCEPT ![p] = after]
            /\ alarm' = [alarm EXCEPT ![p] = Rearmed(left, out, retry)]
            /\ net' = Post(net, p,
                           IF retry THEN Then(sent, Request(p, chunks[p], after))
                           ELSE sent,
                           Running)
  BY DEF HandleTimeout
<1> DEFINE after == Reopened(p, st, out)
           sent == [t \in Peer |->
                       Retransmission(p, t, up)
                       \o IF t = p THEN <<>> ELSE DownloadSignals(p, t, down, st)]
<1>3. UNCHANGED <<table, chunks, chunks_data, is_download_done, run, envVars>>
  BY DEF HandleTimeout
<1>4. TableOK'
  <2>1. after \in [DOMAIN chunks[p] -> Status]
    BY <1>1, ReadingsType, ReopenedType
  <2>2. DOMAIN statuses' = Peer
    BY <1>1, <1>2 DEF TableOK
  <2>3. \A t \in Peer : statuses'[t] \in [DOMAIN chunks[t] -> Status]
    BY <1>1, <1>2, <2>1 DEF TableOK
  <2> QED
    BY <1>1, <1>3, <2>2, <2>3 DEF TableOK
<1>5. ConnOK'
  <2> DEFINE U == Checked(upload_pool[p], up, ResentUploads(upload_pool[p], up))
             D == Checked(download_pool[p], down,
                          WaitingDownloads(download_pool[p], down))
  <2>1. /\ U \in PoolOf(max_conn[p], UploadConnection)
        /\ D \in PoolOf(max_conn[p], DownloadConnection)
    BY <1>1, CheckedPoolsType
  <2>2. /\ upload_pool' = [upload_pool EXCEPT ![p] = U]
        /\ download_pool' = [download_pool EXCEPT ![p] = D]
    BY DEF HandleTimeout
  <2>3. alarm' \in [Peer -> BOOLEAN]
    BY <1>1, <1>2 DEF ConnOK, Rearmed
  <2> HIDE DEF U, D
  <2>4. DOMAIN upload_pool' = Peer /\ DOMAIN download_pool' = Peer
    BY <1>1, <2>2 DEF ConnOK
  <2>5. \A t \in Peer :
          /\ upload_pool'[t] \in PoolOf(max_conn[t], UploadConnection)
          /\ download_pool'[t] \in PoolOf(max_conn[t], DownloadConnection)
    BY <1>1, <2>1, <2>2 DEF ConnOK
  <2> QED
    BY <2>3, <2>4, <2>5 DEF ConnOK
<1>6. net' \in [Peer -> [Peer -> Seq(Packet)]]
  <2>1. sent \in OutOf(Packet)
    <3>1. \A t \in Peer :
            /\ Retransmission(p, t, up) \in Seq(Packet)
            /\ DownloadSignals(p, t, down, st) \in Seq(Packet)
            /\ <<>> \in Seq(Packet)
      BY <1>1, RetransmissionType, DownloadSignalsType
    <3> QED
      BY <3>1, ConcatProperties DEF OutOf
  <2>2. Request(p, chunks[p], after) \in OutOf(Packet)
    <3>1. Wanted(chunks[p], after) \in Payload
      BY <1>1, WantedType DEF TableOK
    <3> QED
      BY <3>1, PacketTypes, OnePacketTo DEF Request
  <2>3. Then(sent, Request(p, chunks[p], after)) \in OutOf(Packet)
    BY <2>1, <2>2, ConcatProperties DEF Then, OutOf
  <2>4. net \in NetOf(Packet)
    BY DEF TypeOK, NetOf
  <2>5. net' \in NetOf(Packet)
    BY <1>2, <2>1, <2>3, <2>4, PostType
  <2> QED
    BY <2>5 DEF NetOf
<1> QED
  BY <1>1, <1>3, <1>4, <1>5, <1>6, UnchangedTypes DEF TypeOK
-----------------------------------------------------------------------------
(* Commands and faults. *)

\* process_get makes a table of the file and asks for all of it.
LEMMA UserGetType ==
    ASSUME TypeOK, NEW p \in Peer, NEW file, UserGet(p, file)
    PROVE  TypeOK'
<1> DEFINE fresh == [j \in DOMAIN file |-> "NOT_DOWNLOADED"]
<1>1. /\ file \in ChunkFiles[p]
      /\ table' = [table EXCEPT ![p] = "live"]
      /\ chunks' = [chunks EXCEPT ![p] = file]
      /\ statuses' = [statuses EXCEPT ![p] = fresh]
      /\ chunks_data' = [chunks_data EXCEPT ![p] = [j \in DOMAIN file |-> "none"]]
      /\ net' = Post(net, p, Request(p, file, fresh), Running)
      /\ SetAlarm(p)
      /\ gets' = [gets EXCEPT ![p] = @ + 1]
      /\ UNCHANGED <<is_download_done, download_pool, upload_pool, run, lost,
                     duplicated, died>>
  BY DEF UserGet
<1>2. TableOK /\ ConnOK /\ EnvOK
  BY DEF TypeOK
<1>3. file \in Seq(Hash) /\ Len(file) <= MAX_CHUNKS_NUM
  BY <1>1, Peers_Assumption, MAX_CHUNKS_NUM_Assumption DEF ChunkFile
<1>4. TableOK'
  <2>1. /\ fresh \in [DOMAIN file -> Status]
        /\ [j \in DOMAIN file |-> "none"] \in [DOMAIN file -> Content]
    BY DEF Status, Content
  <2>2. \A t \in Peer :
          /\ Len(chunks'[t]) <= MAX_CHUNKS_NUM
          /\ statuses'[t] \in [DOMAIN chunks'[t] -> Status]
          /\ chunks_data'[t] \in [DOMAIN chunks'[t] -> Content]
    BY <1>1, <1>2, <1>3, <2>1 DEF TableOK
  <2>3. /\ table' \in [Peer -> {"none", "live", "freed"}]
        /\ chunks' \in [Peer -> Seq(Hash)]
        /\ DOMAIN statuses' = Peer /\ DOMAIN chunks_data' = Peer
        /\ is_download_done' \in [Peer -> BOOLEAN]
    BY <1>1, <1>2, <1>3 DEF TableOK
  <2> QED
    BY <2>2, <2>3 DEF TableOK
<1>5. ConnOK'
  <2>1. alarm' \in [Peer -> BOOLEAN]
    BY <1>1, <1>2, SetAlarmType
  <2> QED
    BY <1>1, <1>2, <2>1 DEF ConnOK
<1>6. net' \in [Peer -> [Peer -> Seq(Packet)]]
  <2>1. Request(p, file, fresh) \in OutOf(Packet)
    BY <1>3, WantedType, PacketTypes, OnePacketTo DEF Request
  <2>2. net \in NetOf(Packet)
    BY DEF TypeOK, NetOf
  <2> QED
    BY <1>1, <2>1, <2>2, PostType DEF NetOf
<1>7. EnvOK'
  BY <1>1, <1>2 DEF EnvOK
<1> QED
  BY <1>1, <1>4, <1>5, <1>6, <1>7 DEF TypeOK

\* Packets that are lost or duplicated.
LEMMA LinkFaultType ==
    ASSUME TypeOK, NEW p \in Peer, NEW q \in Peer, NEW i,
           Lose(p, q, i) \/ Duplicate(p, q, i)
    PROVE  TypeOK'
<1>1. i \in DOMAIN net[q][p] /\ net \in NetOf(Packet)
  BY DEF Lose, Duplicate, TypeOK, NetOf
<1>2. CASE Lose(p, q, i)
  <2>1. net' \in NetOf(Packet)
    BY <1>1, <1>2, WithoutType DEF Lose
  <2>2. EnvOK' /\ UNCHANGED <<tableVars, connVars, run>>
    BY <1>2 DEF Lose, TypeOK, EnvOK
  <2> QED
    BY <2>1, <2>2, UnchangedTypes DEF TypeOK, NetOf
<1>3. CASE Duplicate(p, q, i)
  <2>1. net[q][p] \in Seq(Packet) /\ <<net[q][p][i]>> \in Seq(Packet)
    BY <1>1, WithoutType, OnePacket DEF NetOf
  <2>2. EnQ(net[q][p], <<net[q][p][i]>>) \in Seq(Packet)
    BY <2>1, EnQType
  <2>3. net' \in NetOf(Packet)
    BY <1>1, <1>3, <2>2 DEF Duplicate, NetOf
  <2>4. EnvOK' /\ UNCHANGED <<tableVars, connVars, run>>
    BY <1>3 DEF Duplicate, TypeOK, EnvOK
  <2> QED
    BY <2>3, <2>4, UnchangedTypes DEF TypeOK, NetOf
<1> QED
  BY <1>2, <1>3

\* Processes that are killed or started again.
LEMMA ProcessFaultType ==
    ASSUME TypeOK, NEW p \in Peer, Die(p) \/ Restart(p)
    PROVE  TypeOK'
<1>1. TableOK /\ ConnOK /\ EnvOK /\ net \in NetOf(Packet)
  BY DEF TypeOK, NetOf
<1>2. CASE Die(p)
  <2>1. net' \in NetOf(Packet)
    BY <1>1, <1>2, UnpluggedType DEF Die
  <2>2. EnvOK' /\ run' \in [Peer -> {"running", "crashed", "killed"}]
    BY <1>2 DEF Die, TypeOK, EnvOK
  <2>3. UNCHANGED <<tableVars, connVars>>
    BY <1>2 DEF Die
  <2> QED
    BY <1>1, <2>1, <2>2, <2>3, UnchangedTypes DEF TypeOK, NetOf
<1>3. CASE Restart(p)
  <2>1. /\ run' = [run EXCEPT ![p] = "running"]
        /\ table' = [table EXCEPT ![p] = "none"]
        /\ chunks' = [chunks EXCEPT ![p] = <<>>]
        /\ statuses' = [statuses EXCEPT ![p] = <<>>]
        /\ chunks_data' = [chunks_data EXCEPT ![p] = <<>>]
        /\ is_download_done' = [is_download_done EXCEPT ![p] = TRUE]
        /\ download_pool' = [download_pool EXCEPT ![p] = EmptyPool(max_conn[p])]
        /\ upload_pool' = [upload_pool EXCEPT ![p] = EmptyPool(max_conn[p])]
        /\ alarm' = [alarm EXCEPT ![p] = FALSE]
        /\ UNCHANGED <<net, envVars>>
    BY <1>3 DEF Restart
  <2>2. TableOK'
    <3>1. \A V : <<>> \in [DOMAIN <<>> -> V]
      OBVIOUS
    <3>2. <<>> \in Seq(Hash) /\ Len(<<>>) <= MAX_CHUNKS_NUM
      BY MAX_CHUNKS_NUM_Assumption
    <3>3. \A t \in Peer :
            /\ Len(chunks'[t]) <= MAX_CHUNKS_NUM
            /\ statuses'[t] \in [DOMAIN chunks'[t] -> Status]
            /\ chunks_data'[t] \in [DOMAIN chunks'[t] -> Content]
      BY <1>1, <2>1, <3>1, <3>2 DEF TableOK
    <3> QED
      BY <1>1, <2>1, <3>2, <3>3 DEF TableOK
  <2>3. ConnOK'
    <3>1. /\ EmptyPool(max_conn[p]) \in PoolOf(max_conn[p], DownloadConnection)
          /\ EmptyPool(max_conn[p]) \in PoolOf(max_conn[p], UploadConnection)
      BY PoolConstants, EmptyPoolType
    <3>2. \A t \in Peer :
            /\ download_pool'[t] \in PoolOf(max_conn[t], DownloadConnection)
            /\ upload_pool'[t] \in PoolOf(max_conn[t], UploadConnection)
      BY <1>1, <2>1, <3>1 DEF ConnOK
    <3> QED
      BY <1>1, <2>1, <3>2 DEF ConnOK
  <2>4. run' \in [Peer -> {"running", "crashed", "killed"}]
    BY <2>1 DEF TypeOK
  <2> QED
    BY <1>1, <2>1, <2>2, <2>3, <2>4, UnchangedTypes DEF TypeOK, NetOf
<1> QED
  BY <1>2, <1>3

-----------------------------------------------------------------------------
(* Every state of every behaviour. *)

\* Peers start with empty pools, without a table and without packets.
LEMMA InitType == Init => TypeOK
<1> SUFFICES ASSUME Init PROVE TypeOK
  OBVIOUS
<1>1. TableOK
  <2>1. \A V : <<>> \in [DOMAIN <<>> -> V]
    OBVIOUS
  <2>2. <<>> \in Seq(Hash) /\ Len(<<>>) <= MAX_CHUNKS_NUM
    BY MAX_CHUNKS_NUM_Assumption
  <2> QED
    BY <2>1, <2>2 DEF Init, TableOK
<1>2. ConnOK
  <2>1. \A p \in Peer :
          /\ EmptyPool(max_conn[p]) \in PoolOf(max_conn[p], DownloadConnection)
          /\ EmptyPool(max_conn[p]) \in PoolOf(max_conn[p], UploadConnection)
    BY PoolConstants, EmptyPoolType
  <2> QED
    BY <2>1 DEF Init, ConnOK
<1>3. EnvOK
  BY DEF Init, EnvOK
<1>4. net \in [Peer -> [Peer -> Seq(Packet)]]
  <2>1. <<>> \in Seq(Packet)
    OBVIOUS
  <2> QED
    BY <2>1 DEF Init
<1>5. run \in [Peer -> {"running", "crashed", "killed"}]
  BY DEF Init
<1> QED
  BY <1>1, <1>2, <1>3, <1>4, <1>5 DEF TypeOK

\* Every handler of process_PACKET keeps the types.
LEMMA ReceiveType ==
    ASSUME TypeOK, NEW p \in Peer, NEW q \in Peer, Receive(p, q)
    PROVE  TypeOK'
<1>1. PICK i \in DOMAIN net[q][p] : ProcessPACKET(p, q, i)
  BY DEF Receive
<1> QED
  BY <1>1, ProcessWHOHASType, IgnoreType, StartDownloadType, CrashesType, GETType,
     DATAType, LastDATAType, FinishUploadType, ACKType
     DEF ProcessPACKET

\* Every step keeps the types.
LEMMA NextType == TypeOK /\ [Next]_vars => TypeOK'
<1> SUFFICES ASSUME TypeOK, [Next]_vars PROVE TypeOK'
  OBVIOUS
<1>1. ASSUME NEW p \in Peer, NEW q \in Peer, Receive(p, q)
      PROVE  TypeOK'
  BY <1>1, ReceiveType
<1>2. ASSUME NEW p \in Peer, SIGALRM(p)
      PROVE  TypeOK'
  BY <1>2, HandleTimeoutType DEF SIGALRM
<1>3. ASSUME NEW p \in Peer, Command(p)
      PROVE  TypeOK'
  BY <1>3, UserGetType DEF Command
<1>4. CASE Fault
  BY <1>4, LinkFaultType, ProcessFaultType DEF Fault
<1>5. CASE UNCHANGED vars
  BY <1>5, UnchangedTypes DEF vars, TypeOK
<1> QED
  BY <1>1, <1>2, <1>3, <1>4, <1>5 DEF Next

\* In every reachable state sequence numbers, windows and counters are within
\* their bounds, whatever the network does and whenever the timers fire.
THEOREM TypeCorrect == Spec => []TypeOK
  BY InitType, NextType, PTL DEF Spec
-----------------------------------------------------------------------------
(* The send window, and the pools after handle_timeout. *)

\* send_DATAs leaves next behind the window, wherever next was in it, and
\* changes neither the peer nor what is acknowledged.
LEMMA SentWindow ==
    ASSUME NEW c \in UploadConnection, c.next <= c.available + 1,
           c.available = Available(c.last_acked)
    PROVE  WindowSent(Sent(c)) /\ Sent(c).peer = c.peer
<1>1. /\ c.next \in Nat /\ c.available \in Nat
      /\ Sent(c) = [c EXCEPT !.next = IF c.next <= c.available
                                      THEN c.available + 1 ELSE c.next]
  BY CHUNK_SIZE_Assumption DEF UploadConnection, Sent
<1>2. /\ Sent(c).next = c.available + 1
      /\ Sent(c).available = c.available
      /\ Sent(c).last_acked = c.last_acked
      /\ Sent(c).peer = c.peer
  BY <1>1 DEF UploadConnection
<1> QED
  BY <1>2 DEF WindowSent

\* A window that was rewound and sent is a window that was sent.
LEMMA SentRewound ==
    ASSUME NEW c \in UploadConnection
    PROVE  WindowSent(Sent(Rewound(c))) /\ Sent(Rewound(c)).peer = c.peer
<1>1. c.last_acked \in 0 .. CHUNK_SIZE - 1
  BY DEF UploadConnection
<1>2. Available(c.last_acked) \in c.last_acked + 1 .. CHUNK_SIZE
  BY <1>1, AvailableType
<1>3. /\ Rewound(c).next = c.last_acked + 1
      /\ Rewound(c).available = Available(c.last_acked)
      /\ Rewound(c).last_acked = c.last_acked
      /\ Rewound(c).peer = c.peer
  BY DEF Rewound, UploadConnection
<1>4. Rewound(c).next <= Rewound(c).available + 1
  BY <1>1, <1>2, <1>3, CHUNK_SIZE_Assumption
<1> QED
  BY <1>3, <1>4, RewoundType, SentWindow

\* What the loops make of a late connection keeps its peer, and an upload
\* connection has its whole window sent.
LEMMA RetriedConnections ==
    ASSUME ConnOK, NEW p \in Peer,
           NEW up \in SUBSET Occupied(upload_pool[p]),
           NEW down \in SUBSET Occupied(download_pool[p])
    PROVE  LET U == upload_pool[p]
               D == download_pool[p]
           IN  /\ \A k \in up \ GivenUp(U, up) :
                    /\ ResentUploads(U, up)[k] \in UploadConnection
                    /\ ResentUploads(U, up)[k].peer = U.connections[k].peer
                    /\ WindowSent(ResentUploads(U, up)[k])
               /\ \A k \in down \ GivenUp(D, down) :
                    /\ WaitingDownloads(D, down)[k] \in DownloadConnection
                    /\ WaitingDownloads(D, down)[k].peer = D.connections[k].peer
                    /\ WaitingDownloads(D, down)[k].sha1 = D.connections[k].sha1
<1> DEFINE U == upload_pool[p]
           D == download_pool[p]
<1>1. /\ \A k \in Occupied(U) : U.connections[k] \in UploadConnection
      /\ \A k \in Occupied(D) : D.connections[k] \in DownloadConnection
  BY PoolConstants, PoolSlots DEF ConnOK
<1>2. ASSUME NEW k \in up \ GivenUp(U, up)
      PROVE  /\ ResentUploads(U, up)[k] \in UploadConnection
             /\ ResentUploads(U, up)[k].peer = U.connections[k].peer
             /\ WindowSent(ResentUploads(U, up)[k])
  <2> DEFINE c == Overtime(U.connections[k])
  <2>1. c \in UploadConnection /\ c.peer = U.connections[k].peer
    BY <1>1, OvertimeType DEF Overtime, UploadConnection
  <2>2. ResentUploads(U, up)[k] = Sent(Rewound(c))
    BY DEF ResentUploads
  <2> QED
    BY <2>1, <2>2, RewoundType, SentType, SentRewound
<1>3. ASSUME NEW k \in down \ GivenUp(D, down)
      PROVE  /\ WaitingDownloads(D, down)[k] \in DownloadConnection
             /\ WaitingDownloads(D, down)[k].peer = D.connections[k].peer
             /\ WaitingDownloads(D, down)[k].sha1 = D.connections[k].sha1
  BY <1>1, OvertimeType DEF WaitingDownloads, Overtime, DownloadConnection
<1> QED
  BY <1>2, <1>3
-----------------------------------------------------------------------------
(* PoolsConsistent. *)

\* One pool of one peer changes into a consistent one.
LEMMA OnePoolChanges ==
    ASSUME TypeOK, PoolsConsistent, NEW p \in Peer, NEW pool, Consistent(pool),
           \/ /\ upload_pool' = [upload_pool EXCEPT ![p] = pool]
              /\ UNCHANGED download_pool
           \/ /\ download_pool' = [download_pool EXCEPT ![p] = pool]
              /\ UNCHANGED upload_pool
    PROVE  PoolsConsistent'
  BY DEF TypeOK, ConnOK, PoolsConsistent

\* The pools of a peer, and what is in them.
LEMMA PoolsOfPeer ==
    ASSUME TypeOK, PoolsConsistent, NEW p \in Peer
    PROVE  /\ max_conn[p] \in Nat
           /\ upload_pool[p] \in PoolOf(max_conn[p], UploadConnection)
           /\ download_pool[p] \in PoolOf(max_conn[p], DownloadConnection)
           /\ Consistent(upload_pool[p])
           /\ Consistent(download_pool[p])
  BY PoolConstants DEF TypeOK, ConnOK, PoolsConsistent

\* process_IHAVE adds a connection for a peer that has none.
LEMMA StartDownloadPools ==
    ASSUME TypeOK, PoolsConsistent, NEW p \in Peer, NEW q \in Peer, NEW i,
           StartDownload(p, q, i)
    PROVE  PoolsConsistent'
<1>1. PICK h \in Hash :
        download_pool' = [download_pool EXCEPT ![p] =
            AddTo(download_pool[p], NewDownload(q, h))]
  <2>1. PICK st :
          /\ Startable(chunks[p], st, net[q][p][i].chunks) # {}
          /\ download_pool' = [download_pool EXCEPT ![p] =
                AddTo(download_pool[p], NewDownload(q,
                    Chosen(chunks[p], st, net[q][p][i].chunks)))]
    BY DEF StartDownload
  <2>2. net[q][p][i].chunks \in Payload /\ chunks[p] \in Seq(Hash)
    <3>1. Arrives(p, q, i, "IHAVE")
      BY DEF StartDownload
    <3>2. chunks[p] \in Seq(Hash)
      BY DEF TypeOK, TableOK
    <3> QED
      BY <3>1, <3>2, ArrivingPacket, PacketFields
  <2> QED
    BY <2>1, <2>2, ChosenChunk
<1>2. /\ ~Connected(download_pool[p], q)
      /\ ~(download_pool[p].size >= max_conn[p])
      /\ UNCHANGED upload_pool
  BY DEF StartDownload, HasNoRoomFor
<1>3. NewDownload(q, h) \in DownloadConnection /\ NewDownload(q, h).peer = q
  BY NewConnections DEF NewDownload
<1>4. download_pool[p].size < max_conn[p]
  BY <1>2, PoolsOfPeer DEF PoolOf
<1>5. Consistent(AddTo(download_pool[p], NewDownload(q, h)))
  BY <1>2, <1>3, <1>4, PoolsOfPeer, PoolConstants, AddToConsistent
<1> QED
  BY <1>1, <1>2, <1>5, OnePoolChanges

\* process_GET closes the upload connection the peer has before it adds one.
LEMMA GETPools ==
    ASSUME TypeOK, PoolsConsistent, NEW p \in Peer, NEW q \in Peer, NEW i,
           RefuseGET(p, q, i) \/ AcceptGET(p, q, i)
    PROVE  PoolsConsistent'
<1> DEFINE pool == RemoveFrom(upload_pool[p], q)
           c == Sent(NewUpload(q, net[q][p][i].sha1))
<1>1. /\ pool \in PoolOf(max_conn[p], UploadConnection)
      /\ Consistent(pool)
      /\ ~Connected(pool, q)
  BY PoolsOfPeer, PoolConstants, RemoveFromType, RemoveFromConsistent
<1>2. UNCHANGED download_pool
  BY DEF RefuseGET, AcceptGET
<1>3. CASE RefuseGET(p, q, i)
  <2>1. upload_pool' = [upload_pool EXCEPT ![p] = pool]
    BY <1>3 DEF RefuseGET
  <2> QED
    BY <1>1, <1>2, <2>1, OnePoolChanges
<1>4. CASE AcceptGET(p, q, i)
  <2>1. /\ Arrives(p, q, i, "GET")
        /\ pool.size < max_conn[p]
        /\ upload_pool' = [upload_pool EXCEPT ![p] = AddTo(pool, c)]
    BY <1>4 DEF AcceptGET
  <2>2. NewUpload(q, net[q][p][i].sha1) \in UploadConnection
    BY <2>1, ArrivingPacket, PacketFields, NewConnections
  <2>3. c \in UploadConnection /\ c.peer = q
    BY <2>2, SentType DEF Sent, NewUpload
  <2>4. Consistent(AddTo(pool, c))
    BY <1>1, <2>1, <2>3, PoolsOfPeer, PoolConstants, AddToConsistent
  <2> QED
    BY <1>2, <2>1, <2>4, OnePoolChanges
<1> QED
  BY <1>3, <1>4

\* process_DATA and process_ACK write to a connection, not to its peer, or
\* remove it.
LEMMA DATAPools ==
    ASSUME TypeOK, PoolsConsistent, NEW p \in Peer, NEW q \in Peer, NEW i,
           \/ RejectDATA(p, q, i) \/ AcceptDATA(p, q, i)
           \/ FinishChunk(p, q, i) \/ FinishFile(p, q, i)
    PROVE  PoolsConsistent'
<1> DEFINE c == Find(download_pool[p], q)
           data == net[q][p][i]
<1>1. UNCHANGED upload_pool /\ Connected(download_pool[p], q)
  BY DEF RejectDATA, AcceptDATA, FinishChunk, FinishFile, LastDATA
<1>2. c \in DownloadConnection /\ c.peer = q
  BY <1>1, PoolsOfPeer, PoolConstants, FindInPool
<1>3. ASSUME NEW new \in DownloadConnection, new.peer = q,
             download_pool' = [download_pool EXCEPT ![p] =
                 Update(download_pool[p], q, new)]
      PROVE  PoolsConsistent'
  <2>1. Consistent(Update(download_pool[p], q, new))
    BY <1>1, <1>3, PoolsOfPeer, PoolConstants, UpdateConsistent
  <2> QED
    BY <1>1, <1>3, <2>1, OnePoolChanges
<1>4. CASE RejectDATA(p, q, i)
  <2>1. download_pool' = [download_pool EXCEPT ![p] =
            Update(download_pool[p], q, [c EXCEPT !.overtime_count = 0])]
    BY <1>4 DEF RejectDATA
  <2>2. /\ [c EXCEPT !.overtime_count = 0] \in DownloadConnection
        /\ [c EXCEPT !.overtime_count = 0].peer = q
    BY <1>2, OVERTIME_LIMIT_Assumption DEF DownloadConnection
  <2> QED
    BY <1>3, <2>1, <2>2
<1>5. CASE AcceptDATA(p, q, i)
  <2>1. /\ download_pool' = [download_pool EXCEPT ![p] =
              Update(download_pool[p], q, Received(c, data))]
        /\ c.expected_seq < CHUNK_SIZE
    BY <1>5 DEF AcceptDATA
  <2>2. Received(c, data) \in DownloadConnection /\ Received(c, data).peer = q
    BY <1>2, <2>1, ReceivedType DEF Received, DownloadConnection
  <2> QED
    BY <1>3, <2>1, <2>2
<1>6. CASE FinishChunk(p, q, i) \/ FinishFile(p, q, i)
  <2>1. download_pool' = [download_pool EXCEPT ![p] =
            RemoveFrom(download_pool[p], q)]
    BY <1>6 DEF FinishChunk, FinishFile, CompletesChunk
  <2>2. Consistent(RemoveFrom(download_pool[p], q))
    BY PoolsOfPeer, PoolConstants, RemoveFromConsistent
  <2> QED
    BY <1>1, <2>1, <2>2, OnePoolChanges
<1> QED
  BY <1>4, <1>5, <1>6

\* The connection process_ACK writes back, before send_DATAs if that is called.
LEMMA ACKConnections ==
    ASSUME TypeOK, NEW p \in Peer, NEW q \in Peer, NEW i,
           \/ CumulativeACK(p, q, i)
           \/ FastRetransmit(p, q, i)
           \/ DuplicateACK(p, q, i)
    PROVE  LET c == Find(upload_pool[p], q)
           IN  /\ Connected(upload_pool[p], q)
               /\ c \in UploadConnection /\ c.peer = q
               /\ UNCHANGED download_pool
               /\ \E new \in UploadConnection :
                    /\ new.peer = q
                    /\ upload_pool' = [upload_pool EXCEPT ![p] =
                           Update(upload_pool[p], q, new)]
                    /\ WindowSent(c) => WindowSent(new)
<1> DEFINE c == Find(upload_pool[p], q)
           ack_num == net[q][p][i].ack_num
<1>1. /\ Arrives(p, q, i, "ACK")
      /\ Connected(upload_pool[p], q)
      /\ UNCHANGED download_pool
      /\ ack_num # CHUNK_SIZE
  BY DEF CumulativeACK, FastRetransmit, DuplicateACK, AckArrives
<1>2. c \in UploadConnection /\ c.peer = q
  <2>1. upload_pool[p] \in PoolOf(max_conn[p], UploadConnection)
    BY DEF TypeOK, ConnOK
  <2> QED
    BY <1>1, <2>1, PoolConstants, FindInPool
<1>3. CASE CumulativeACK(p, q, i)
  <2> DEFINE moved == [c EXCEPT !.last_acked = ack_num, !.duplicate_num = 0,
                                !.overtime_count = 0,
                                !.available = Available(ack_num)]
  <2>1. /\ upload_pool' = [upload_pool EXCEPT ![p] =
              Update(upload_pool[p], q, Sent(moved))]
        /\ ack_num > c.last_acked
    BY <1>3 DEF CumulativeACK, Transmit
  <2>2. /\ ack_num \in 0 .. CHUNK_SIZE - 1
        /\ 0 \in 0 .. DUPLICATE_LIMIT - 1
        /\ 0 \in 0 .. OVERTIME_LIMIT
    BY <1>1, ArrivingPacket, PacketFields, CHUNK_SIZE_Assumption, Limits_Assumption,
       OVERTIME_LIMIT_Assumption
  <2>3. Available(ack_num) \in 1 .. CHUNK_SIZE
    BY <2>2, AvailableType
  <2>4. moved \in UploadConnection
    BY <1>2, <2>2, <2>3 DEF UploadConnection
  <2>5. /\ moved.peer = q
        /\ moved.next = c.next
        /\ moved.available = Available(moved.last_acked)
        /\ moved.last_acked = ack_num
    BY <1>2 DEF UploadConnection
  <2>6. Sent(moved) \in UploadConnection /\ Sent(moved).peer = q
    <3>1. Sent(moved).peer = moved.peer
      BY <2>4 DEF Sent, UploadConnection
    <3> QED
      BY <2>4, <2>5, <3>1, SentType
  <2>7. ASSUME WindowSent(c)
        PROVE  WindowSent(Sent(moved))
    <3>1. c.last_acked \in 0 .. CHUNK_SIZE - 1 /\ c.next = Available(c.last_acked) + 1
      BY <1>2, <2>7 DEF WindowSent, UploadConnection
    <3>2. Available(c.last_acked) <= Available(ack_num)
      BY <2>1, <2>2, <3>1, CHUNK_SIZE_Assumption, WINDOW_Assumption DEF Available
    <3>3. moved.next <= moved.available + 1
      BY <2>5, <3>1, <3>2, <2>2, AvailableType
    <3> QED
      BY <2>4, <2>5, <3>3, SentWindow
  <2> HIDE DEF moved
  <2> QED
    BY <1>1, <1>2, <2>1, <2>6, <2>7
<1>4. CASE FastRetransmit(p, q, i)
  <2> DEFINE heard == [c EXCEPT !.overtime_count = 0]
  <2>1. upload_pool' = [upload_pool EXCEPT ![p] =
            Update(upload_pool[p], q, Sent(Rewound(heard)))]
    BY <1>4 DEF FastRetransmit, Transmit
  <2>2. heard \in UploadConnection /\ heard.peer = q
    BY <1>2, OVERTIME_LIMIT_Assumption DEF UploadConnection
  <2> HIDE DEF heard
  <2>3. /\ Sent(Rewound(heard)) \in UploadConnection
        /\ WindowSent(Sent(Rewound(heard)))
        /\ Sent(Rewound(heard)).peer = q
    BY <2>2, RewoundType, SentType, SentRewound
  <2> QED
    BY <1>1, <1>2, <2>1, <2>3
<1>5. CASE DuplicateACK(p, q, i)
  <2> DEFINE counted == [c EXCEPT !.duplicate_num = c.duplicate_num + 1,
                                  !.overtime_count = 0]
  <2>1. /\ c.duplicate_num + 1 < DUPLICATE_LIMIT
        /\ upload_pool' = [upload_pool EXCEPT ![p] =
              Update(upload_pool[p], q, counted)]
    BY <1>5 DEF DuplicateACK
  <2>2. /\ c.duplicate_num + 1 \in 0 .. DUPLICATE_LIMIT - 1
        /\ 0 \in 0 .. OVERTIME_LIMIT
    BY <1>2, <2>1, Limits_Assumption, OVERTIME_LIMIT_Assumption
       DEF UploadConnection
  <2>3. counted \in UploadConnection /\ counted.peer = q
    BY <1>2, <2>2 DEF UploadConnection
  <2>4. WindowSent(c) => WindowSent(counted)
    BY <1>2 DEF WindowSent, UploadConnection
  <2> QED
    BY <1>1, <1>2, <2>1, <2>3, <2>4
<1> QED
  BY <1>3, <1>4, <1>5

\* process_ACK writes to a connection of the sender, or closes it.
LEMMA ACKPools ==
    ASSUME TypeOK, PoolsConsistent, NEW p \in Peer, NEW q \in Peer, NEW i,
           \/ CumulativeACK(p, q, i) \/ FastRetransmit(p, q, i)
           \/ DuplicateACK(p, q, i) \/ FinishUpload(p, q, i)
    PROVE  PoolsConsistent'
<1>1. CASE FinishUpload(p, q, i)
  <2>1. /\ upload_pool' = [upload_pool EXCEPT ![p] = RemoveFrom(upload_pool[p], q)]
        /\ UNCHANGED download_pool
    BY <1>1 DEF FinishUpload
  <2>2. Consistent(RemoveFrom(upload_pool[p], q))
    BY PoolsOfPeer, PoolConstants, RemoveFromConsistent
  <2> QED
    BY <2>1, <2>2, OnePoolChanges
<1>2. CASE \/ CumulativeACK(p, q, i) \/ FastRetransmit(p, q, i)
           \/ DuplicateACK(p, q, i)
  <2>1. PICK new \in UploadConnection :
          /\ new.peer = q
          /\ upload_pool' = [upload_pool EXCEPT ![p] =
                 Update(upload_pool[p], q, new)]
    BY <1>2, ACKConnections
  <2>2. Connected(upload_pool[p], q) /\ UNCHANGED download_pool
    BY <1>2, ACKConnections
  <2>3. Consistent(Update(upload_pool[p], q, new))
    BY <2>1, <2>2, PoolsOfPeer, PoolConstants, UpdateConsistent
  <2> QED
    BY <2>1, <2>2, <2>3, OnePoolChanges
<1> QED
  BY <1>1, <1>2

\* handle_timeout checks both pools.
LEMMA HandleTimeoutPools ==
    ASSUME TypeOK, PoolsConsistent, NEW p \in Peer,
           NEW up \in SUBSET Occupied(upload_pool[p]),
           NEW down \in SUBSET Occupied(download_pool[p]),
           HandleTimeout(p, up, down)
    PROVE  PoolsConsistent'
<1> DEFINE U == upload_pool[p]
           D == download_pool[p]
           newU == Checked(U, up, ResentUploads(U, up))
           newD == Checked(D, down, WaitingDownloads(D, down))
<1>1. /\ \A k \in up \ GivenUp(U, up) :
           /\ ResentUploads(U, up)[k] \in UploadConnection
           /\ ResentUploads(U, up)[k].peer = U.connections[k].peer
      /\ \A k \in down \ GivenUp(D, down) :
           /\ WaitingDownloads(D, down)[k] \in DownloadConnection
           /\ WaitingDownloads(D, down)[k].peer = D.connections[k].peer
  BY RetriedConnections DEF TypeOK
<1>2. Consistent(newU)
  BY <1>1, PoolsOfPeer, PoolConstants, CheckedConsistent
<1>3. Consistent(newD)
  BY <1>1, PoolsOfPeer, PoolConstants, CheckedConsistent
<1>4. /\ upload_pool' = [upload_pool EXCEPT ![p] = newU]
      /\ download_pool' = [download_pool EXCEPT ![p] = newD]
  BY DEF HandleTimeout
<1> HIDE DEF newU, newD
<1> QED
  BY <1>2, <1>3, <1>4 DEF TypeOK, ConnOK, PoolsConsistent

\* A peer that is started has empty pools.
LEMMA RestartPools ==
    ASSUME TypeOK, PoolsConsistent, NEW p \in Peer, Restart(p)
    PROVE  PoolsConsistent'
<1>1. /\ download_pool' = [download_pool EXCEPT ![p] = EmptyPool(max_conn[p])]
      /\ upload_pool' = [upload_pool EXCEPT ![p] = EmptyPool(max_conn[p])]
  BY DEF Restart
<1>2. Consistent(EmptyPool(max_conn[p]))
  BY PoolConstants, EmptyPoolType
<1> QED
  BY <1>1, <1>2 DEF TypeOK, ConnOK, PoolsConsistent

\* The steps that change no pool.
PoolsUntouched == UNCHANGED <<upload_pool, download_pool>>

\* The handlers that leave the pools alone.
LEMMA OtherSteps ==
    /\ \A p, q \in Peer : \A i \in DOMAIN net[q][p] :
        \/ ProcessWHOHAS(p, q, i) \/ IgnoreIHAVE(p, q, i) \/ IgnoreDATA(p, q, i)
        \/ IgnoreACK(p, q, i) \/ StaleACK(p, q, i)
        \/ CrashOnIHAVE(p, q, i) \/ CrashOnDATA(p, q, i)
        \/ Lose(p, q, i) \/ Duplicate(p, q, i)
        => PoolsUntouched
    /\ \A p \in Peer : Command(p) \/ Die(p) => PoolsUntouched
    /\ UNCHANGED vars => PoolsUntouched
<1>1. ASSUME NEW p, NEW q, NEW i
      PROVE  /\ ProcessWHOHAS(p, q, i) => PoolsUntouched
             /\ IgnoreIHAVE(p, q, i) => PoolsUntouched
             /\ IgnoreDATA(p, q, i) => PoolsUntouched
             /\ IgnoreACK(p, q, i) => PoolsUntouched
             /\ StaleACK(p, q, i) => PoolsUntouched
             /\ CrashOnIHAVE(p, q, i) => PoolsUntouched
             /\ CrashOnDATA(p, q, i) => PoolsUntouched
             /\ Lose(p, q, i) => PoolsUntouched
             /\ Duplicate(p, q, i) => PoolsUntouched
  <2>1. ProcessWHOHAS(p, q, i) => PoolsUntouched
    BY DEF ProcessWHOHAS, PoolsUntouched, connVars
  <2>2. IgnoreIHAVE(p, q, i) => PoolsUntouched
    BY DEF IgnoreIHAVE, PoolsUntouched, connVars
  <2>3. IgnoreDATA(p, q, i) => PoolsUntouched
    BY DEF IgnoreDATA, PoolsUntouched, connVars
  <2>4. IgnoreACK(p, q, i) => PoolsUntouched
    BY DEF IgnoreACK, PoolsUntouched, connVars
  <2>5. StaleACK(p, q, i) => PoolsUntouched
    BY DEF StaleACK, PoolsUntouched, connVars
  <2>6. CrashOnIHAVE(p, q, i) => PoolsUntouched
    BY DEF CrashOnIHAVE, PoolsUntouched, connVars
  <2>7. CrashOnDATA(p, q, i) => PoolsUntouched
    BY DEF CrashOnDATA, PoolsUntouched, connVars
  <2>8. Lose(p, q, i) => PoolsUntouched
    BY DEF Lose, PoolsUntouched, connVars
  <2>9. Duplicate(p, q, i) => PoolsUntouched
    BY DEF Duplicate, PoolsUntouched, connVars
  <2> QED
    BY <2>1, <2>2, <2>3, <2>4, <2>5, <2>6, <2>7, <2>8, <2>9
<1>2. \A p \in Peer : Command(p) => PoolsUntouched
  BY DEF Command, UserGet, PoolsUntouched
<1>3. \A p \in Peer : Die(p) => PoolsUntouched
  BY DEF Die, PoolsUntouched, connVars
<1>4. UNCHANGED vars => PoolsUntouched
  BY DEF vars, PoolsUntouched, connVars
<1> QED
  BY <1>1, <1>2, <1>3, <1>4

\* Every step keeps the pools consistent.
LEMMA NextPools ==
    ASSUME TypeOK, PoolsConsistent, [Next]_vars
    PROVE  PoolsConsistent'
<1>1. CASE PoolsUntouched
  BY <1>1 DEF PoolsUntouched, PoolsConsistent
<1>2. ASSUME NEW p \in Peer, NEW q \in Peer, NEW i \in DOMAIN net[q][p],
             ProcessPACKET(p, q, i)
      PROVE  PoolsConsistent'
  BY <1>1, <1>2, OtherSteps, StartDownloadPools, GETPools, DATAPools, ACKPools
     DEF ProcessPACKET
<1>3. ASSUME NEW p \in Peer, SIGALRM(p)
      PROVE  PoolsConsistent'
  BY <1>3, HandleTimeoutPools DEF SIGALRM
<1>4. ASSUME NEW p \in Peer, Command(p)
      PROVE  PoolsConsistent'
  BY <1>1, <1>4, OtherSteps
<1>5. CASE Fault
  BY <1>1, <1>5, OtherSteps, RestartPools DEF Fault
<1>6. CASE UNCHANGED vars
  BY <1>1, <1>6, OtherSteps
<1> QED
  BY <1>2, <1>3, <1>4, <1>5, <1>6 DEF Next, Receive

\* Peers start with empty pools.
LEMMA InitPools == Init => PoolsConsistent
<1>1. \A p \in Peer : Consistent(EmptyPool(max_conn[p]))
  BY PoolConstants, EmptyPoolType
<1> QED
  BY <1>1 DEF Init, PoolsConsistent

\* The admission tests of process_IHAVE and process_GET read a counter that is
\* the number of connections, and no peer ever has two of them in a pool.
THEOREM PoolsStayConsistent == Spec => []PoolsConsistent
<1>1. Init => TypeOK /\ PoolsConsistent
  BY InitType, InitPools
<1>2. TypeOK /\ PoolsConsistent /\ [Next]_vars => (TypeOK /\ PoolsConsistent)'
  BY NextType, NextPools
<1> QED
  BY <1>1, <1>2, PTL DEF Spec
-----------------------------------------------------------------------------
(* TimerCoversConnections. *)

\* The pools of all peers but p, and which processes run, are as before.
OnlyPoolsOf(p) ==
    /\ \A t \in Peer \ {p} : /\ upload_pool'[t] = upload_pool[t]
                             /\ download_pool'[t] = download_pool[t]
    /\ UNCHANGED run

\* Handlers that set the timer.
LEMMA TimerIsSet ==
    ASSUME TypeOK, TimerCoversConnections, NEW p \in Peer,
           SetAlarm(p), OnlyPoolsOf(p)
    PROVE  TimerCoversConnections'
  BY DEF TypeOK, ConnOK, SetAlarm, OnlyPoolsOf, TimerCoversConnections, Running

\* Steps that leave pools and timers alone, and start no process.
LEMMA TimerIsKept ==
    ASSUME TypeOK, TimerCoversConnections, PoolsUntouched, UNCHANGED alarm,
           Running' \subseteq Running
    PROVE  TimerCoversConnections'
  BY DEF TimerCoversConnections, PoolsUntouched

\* The handlers of packets that set the timer.
LEMMA SettingHandlers ==
    ASSUME TypeOK, NEW p \in Peer, NEW q \in Peer, NEW i,
           \/ StartDownload(p, q, i) \/ AcceptGET(p, q, i)
           \/ RejectDATA(p, q, i) \/ AcceptDATA(p, q, i)
           \/ FinishChunk(p, q, i) \/ FinishFile(p, q, i)
           \/ FinishUpload(p, q, i) \/ CumulativeACK(p, q, i)
           \/ FastRetransmit(p, q, i)
    PROVE  SetAlarm(p) /\ OnlyPoolsOf(p)
<1>1. ASSUME NEW pool, UNCHANGED run,
             \/ /\ upload_pool' = [upload_pool EXCEPT ![p] = pool]
                /\ UNCHANGED download_pool
             \/ /\ download_pool' = [download_pool EXCEPT ![p] = pool]
                /\ UNCHANGED upload_pool
      PROVE  OnlyPoolsOf(p)
  BY <1>1 DEF OnlyPoolsOf, TypeOK, ConnOK
<1>2. CASE StartDownload(p, q, i)
  BY <1>1, <1>2 DEF StartDownload
<1>3. CASE AcceptGET(p, q, i)
  BY <1>1, <1>3 DEF AcceptGET
<1>4. CASE RejectDATA(p, q, i)
  BY <1>1, <1>4 DEF RejectDATA
<1>5. CASE AcceptDATA(p, q, i)
  BY <1>1, <1>5 DEF AcceptDATA
<1>6. CASE FinishChunk(p, q, i) \/ FinishFile(p, q, i)
  BY <1>1, <1>6 DEF FinishChunk, FinishFile, CompletesChunk
<1>7. CASE FinishUpload(p, q, i)
  BY <1>1, <1>7 DEF FinishUpload
<1>8. CASE CumulativeACK(p, q, i)
  BY <1>1, <1>8 DEF CumulativeACK, Transmit
<1>9. CASE FastRetransmit(p, q, i)
  BY <1>1, <1>9 DEF FastRetransmit, Transmit
<1> QED
  BY <1>2, <1>3, <1>4, <1>5, <1>6, <1>7, <1>8, <1>9

\* The two handlers of packets that touch a pool and leave the timer alone
\* add no connection.
LEMMA NotSettingHandlers ==
    ASSUME TypeOK, TimerCoversConnections, NEW p \in Peer, NEW q \in Peer, NEW i,
           RefuseGET(p, q, i) \/ DuplicateACK(p, q, i)
    PROVE  TimerCoversConnections'
<1>1. UNCHANGED <<alarm, run, download_pool>>
  BY DEF RefuseGET, DuplicateACK
<1>2. upload_pool[p] \in PoolOf(max_conn[p], UploadConnection)
  BY DEF TypeOK, ConnOK
<1>3. ASSUME NEW pool, upload_pool' = [upload_pool EXCEPT ![p] = pool],
             Occupied(pool) \subseteq Occupied(upload_pool[p])
      PROVE  TimerCoversConnections'
  <2>1. \A t \in Peer : Occupied(upload_pool'[t]) \subseteq Occupied(upload_pool[t])
    BY <1>3 DEF TypeOK, ConnOK
  <2> QED
    BY <1>1, <2>1 DEF TimerCoversConnections, Running
<1>4. CASE RefuseGET(p, q, i)
  <2>1. Occupied(RemoveFrom(upload_pool[p], q)) \subseteq Occupied(upload_pool[p])
    BY <1>2, PoolConstants, RemoveFromKeeps
  <2> QED
    BY <1>3, <1>4, <2>1 DEF RefuseGET
<1>5. CASE DuplicateACK(p, q, i)
  <2>1. PICK new \in UploadConnection :
          upload_pool' = [upload_pool EXCEPT ![p] = Update(upload_pool[p], q, new)]
    BY <1>5, ACKConnections
  <2>2. Connected(upload_pool[p], q)
    BY <1>5, ACKConnections
  <2>3. Occupied(Update(upload_pool[p], q, new)) = Occupied(upload_pool[p])
    BY <1>2, <2>1, <2>2, PoolConstants, UpdateSlots
  <2> QED
    BY <1>3, <2>1, <2>3
<1> QED
  BY <1>4, <1>5

\* handle_timeout sets the timer again if it leaves a connection.
LEMMA HandleTimeoutTimer ==
    ASSUME TypeOK, TimerCoversConnections, NEW p \in Peer, NEW up, NEW down,
           HandleTimeout(p, up, down)
    PROVE  TimerCoversConnections'
<1>1. /\ OnlyPoolsOf(p)
      /\ \E out, retry : alarm' = [alarm EXCEPT ![p] =
            Rearmed(Occupied(upload_pool'[p]) \cup Occupied(download_pool'[p]),
                    out, retry)]
  <2>1. /\ \E U : upload_pool' = [upload_pool EXCEPT ![p] = U]
        /\ \E D : download_pool' = [download_pool EXCEPT ![p] = D]
        /\ UNCHANGED run
    BY DEF HandleTimeout
  <2>2. OnlyPoolsOf(p)
    BY <2>1 DEF OnlyPoolsOf, TypeOK, ConnOK
  <2> DEFINE left == Occupied(upload_pool'[p]) \cup Occupied(download_pool'[p])
             out == GivenUp(download_pool[p], down)
             retry == left = {} /\ ~is_download_done[p]
  <2>3. alarm' = [alarm EXCEPT ![p] = Rearmed(left, out, retry)]
    BY DEF HandleTimeout
  <2> HIDE DEF out, retry
  <2> QED
    BY <2>2, <2>3
<1>2. /\ \A t \in Peer \ {p} : alarm'[t] = alarm[t]
      /\ Occupied(download_pool'[p]) \cup Occupied(upload_pool'[p]) # {} => alarm'[p]
  BY <1>1 DEF Rearmed, TypeOK, ConnOK
<1> QED
  BY <1>1, <1>2 DEF OnlyPoolsOf, TimerCoversConnections, Running

\* A peer that is started has no connection.
LEMMA RestartTimer ==
    ASSUME TypeOK, TimerCoversConnections, NEW p \in Peer, Restart(p)
    PROVE  TimerCoversConnections'
<1>1. /\ download_pool' = [download_pool EXCEPT ![p] = EmptyPool(max_conn[p])]
      /\ upload_pool' = [upload_pool EXCEPT ![p] = EmptyPool(max_conn[p])]
      /\ alarm' = [alarm EXCEPT ![p] = FALSE]
      /\ run' = [run EXCEPT ![p] = "running"]
  BY DEF Restart
<1>2. Occupied(EmptyPool(max_conn[p])) = {}
  BY PoolConstants, EmptyPoolType
<1>3. /\ Occupied(download_pool'[p]) = {} /\ Occupied(upload_pool'[p]) = {}
      /\ \A t \in Peer \ {p} :
            /\ download_pool'[t] = download_pool[t]
            /\ upload_pool'[t] = upload_pool[t]
            /\ alarm'[t] = alarm[t]
            /\ run'[t] = run[t]
  BY <1>1, <1>2 DEF TypeOK, ConnOK
<1> QED
  BY <1>3 DEF TimerCoversConnections, Running

\* The steps of OtherSteps but the user's command set no timer.
LEMMA NextTimer ==
    ASSUME TypeOK, TimerCoversConnections, [Next]_vars
    PROVE  TimerCoversConnections'
<1>1. ASSUME NEW p \in Peer, NEW q \in Peer, NEW i \in DOMAIN net[q][p],
             ProcessPACKET(p, q, i)
      PROVE  TimerCoversConnections'
  <2>1. CASE \/ ProcessWHOHAS(p, q, i) \/ IgnoreIHAVE(p, q, i)
             \/ IgnoreDATA(p, q, i) \/ IgnoreACK(p, q, i) \/ StaleACK(p, q, i)
    <3>1. UNCHANGED <<alarm, run>>
      BY <2>1 DEF ProcessWHOHAS, IgnoreIHAVE, IgnoreDATA, IgnoreACK, StaleACK, connVars
    <3> QED
      BY <2>1, <3>1, OtherSteps, TimerIsKept DEF Running
  <2>2. CASE CrashOnIHAVE(p, q, i) \/ CrashOnDATA(p, q, i)
    <3>1. UNCHANGED alarm /\ run' = [run EXCEPT ![p] = "crashed"]
      BY <2>2 DEF CrashOnIHAVE, CrashOnDATA, Crash, connVars
    <3>2. Running' \subseteq Running
      BY <3>1 DEF Running, TypeOK
    <3> QED
      BY <2>2, <3>1, <3>2, OtherSteps, TimerIsKept
  <2>3. CASE RefuseGET(p, q, i) \/ DuplicateACK(p, q, i)
    BY <2>3, NotSettingHandlers
  <2>4. CASE \/ StartDownload(p, q, i) \/ AcceptGET(p, q, i)
             \/ RejectDATA(p, q, i) \/ AcceptDATA(p, q, i)
             \/ FinishChunk(p, q, i) \/ FinishFile(p, q, i)
             \/ FinishUpload(p, q, i) \/ CumulativeACK(p, q, i)
             \/ FastRetransmit(p, q, i)
    BY <2>4, SettingHandlers, TimerIsSet
  <2> QED
    BY <1>1, <2>1, <2>2, <2>3, <2>4 DEF ProcessPACKET
<1>2. ASSUME NEW p \in Peer, SIGALRM(p)
      PROVE  TimerCoversConnections'
  BY <1>2, HandleTimeoutTimer DEF SIGALRM
<1>3. ASSUME NEW p \in Peer, Command(p)
      PROVE  TimerCoversConnections'
  <2>1. SetAlarm(p) /\ OnlyPoolsOf(p)
    BY <1>3 DEF Command, UserGet, OnlyPoolsOf
  <2> QED
    BY <2>1, TimerIsSet
<1>4. CASE Fault
  <2>1. ASSUME NEW p \in Peer, NEW q \in Peer, NEW i \in DOMAIN net[q][p],
               Lose(p, q, i) \/ Duplicate(p, q, i)
        PROVE  TimerCoversConnections'
    <3>1. UNCHANGED <<alarm, run>>
      BY <2>1 DEF Lose, Duplicate, connVars
    <3> QED
      BY <2>1, <3>1, OtherSteps, TimerIsKept DEF Running
  <2>2. ASSUME NEW p \in Peer, Die(p)
        PROVE  TimerCoversConnections'
    <3>1. UNCHANGED alarm /\ run' = [run EXCEPT ![p] = "killed"]
      BY <2>2 DEF Die, connVars
    <3>2. Running' \subseteq Running
      BY <3>1 DEF Running, TypeOK
    <3> QED
      BY <2>2, <3>1, <3>2, OtherSteps, TimerIsKept
  <2> QED
    BY <1>4, <2>1, <2>2, RestartTimer DEF Fault
<1>5. CASE UNCHANGED vars
  BY <1>5, OtherSteps, TimerIsKept DEF vars, connVars, Running
<1> QED
  BY <1>1, <1>2, <1>3, <1>4, <1>5 DEF Next, Receive

\* Peers start without connections.
LEMMA InitTimer == Init => TimerCoversConnections
<1>1. \A p \in Peer : Occupied(EmptyPool(max_conn[p])) = {}
  BY PoolConstants, EmptyPoolType
<1> QED
  BY <1>1 DEF Init, TimerCoversConnections, Running

\* No running peer ever has a connection without a SIGALRM on its way, so that
\* every connection is looked at again although select waits for ever.
THEOREM TimerAlwaysCovers == Spec => []TimerCoversConnections
<1>1. Init => TypeOK /\ TimerCoversConnections
  BY InitType, InitTimer
<1>2. TypeOK /\ TimerCoversConnections /\ [Next]_vars
      => (TypeOK /\ TimerCoversConnections)'
  BY NextType, NextTimer
<1> QED
  BY <1>1, <1>2, PTL DEF Spec
-----------------------------------------------------------------------------
(* WindowIsSent. *)

\* One upload pool changes, and what it contains has been sent.
LEMMA UploadsAreSent ==
    ASSUME TypeOK, WindowIsSent, NEW p \in Peer, NEW pool,
           upload_pool' = [upload_pool EXCEPT ![p] = pool],
           \A k \in Occupied(pool) : WindowSent(pool.connections[k])
    PROVE  WindowIsSent'
  BY DEF TypeOK, ConnOK, WindowIsSent

\* Whatever process_PACKET does to an upload connection, it sends the window.
LEMMA ReceiveWindow ==
    ASSUME TypeOK, WindowIsSent, NEW p \in Peer, NEW q \in Peer, NEW i,
           ProcessPACKET(p, q, i)
    PROVE  WindowIsSent'
<1> DEFINE U == upload_pool[p]
<1>1. /\ U \in PoolOf(max_conn[p], UploadConnection)
      /\ max_conn[p] \in Nat
      /\ \A k \in Occupied(U) : WindowSent(U.connections[k])
  BY PoolConstants DEF TypeOK, ConnOK, WindowIsSent
<1>2. \A k \in Occupied(RemoveFrom(U, q)) :
        WindowSent(RemoveFrom(U, q).connections[k])
  <2>1. \A k \in Occupied(RemoveFrom(U, q)) :
          /\ k \in Occupied(U)
          /\ RemoveFrom(U, q).connections[k] = U.connections[k]
    BY <1>1, PoolConstants, RemoveFromKeeps
  <2> QED
    BY <1>1, <2>1
<1>3. CASE RefuseGET(p, q, i) \/ FinishUpload(p, q, i)
  <2>1. upload_pool' = [upload_pool EXCEPT ![p] = RemoveFrom(U, q)]
    BY <1>3 DEF RefuseGET, FinishUpload
  <2> QED
    BY <1>2, <2>1, UploadsAreSent
<1>4. CASE AcceptGET(p, q, i)
  <2> DEFINE pool == RemoveFrom(U, q)
             new == NewUpload(q, net[q][p][i].sha1)
  <2>1. /\ Arrives(p, q, i, "GET")
        /\ upload_pool' = [upload_pool EXCEPT ![p] = AddTo(pool, Sent(new))]
    BY <1>4 DEF AcceptGET
  <2>2. new \in UploadConnection
    BY <2>1, ArrivingPacket, PacketFields, NewConnections
  <2>3. WindowSent(Sent(new))
    <3>1. /\ new.next = 1
          /\ new.last_acked = 0
          /\ new.available = WINDOW
      BY DEF NewUpload
    <3>2. new.available = Available(new.last_acked) /\ new.next <= new.available + 1
      BY <3>1, WINDOW_Assumption, CHUNK_SIZE_Assumption DEF Available
    <3> QED
      BY <2>2, <3>2, SentWindow
  <2>4. pool \in PoolOf(max_conn[p], UploadConnection)
    BY <1>1, PoolConstants, RemoveFromType
  <2>5. Sent(new) \in UploadConnection
    BY <2>2, SentType
  <2> HIDE DEF pool, new
  <2>6. \A k \in Occupied(AddTo(pool, Sent(new))) :
          \/ AddTo(pool, Sent(new)).connections[k] = Sent(new)
          \/ /\ k \in Occupied(pool)
             /\ AddTo(pool, Sent(new)).connections[k] = pool.connections[k]
    BY <1>1, <2>4, <2>5, PoolConstants, AddToKeeps
  <2>7. \A k \in Occupied(AddTo(pool, Sent(new))) :
          WindowSent(AddTo(pool, Sent(new)).connections[k])
    BY <1>2, <2>3, <2>6 DEF pool
  <2> QED
    BY <2>1, <2>7, UploadsAreSent
<1>5. CASE \/ CumulativeACK(p, q, i) \/ FastRetransmit(p, q, i)
           \/ DuplicateACK(p, q, i)
  <2>1. PICK new \in UploadConnection :
          /\ upload_pool' = [upload_pool EXCEPT ![p] = Update(U, q, new)]
          /\ WindowSent(Find(U, q)) => WindowSent(new)
    BY <1>5, ACKConnections
  <2>2. Connected(U, q)
    BY <1>5, ACKConnections
  <2>3. WindowSent(new)
    <3>1. Min(SlotsOf(U, q)) \in Occupied(U)
      BY <1>1, <2>2, PoolConstants, FindInPool
    <3> QED
      BY <1>1, <2>1, <3>1 DEF Find
  <2>4. /\ Occupied(Update(U, q, new)) = Occupied(U)
        /\ \A k \in Occupied(U) :
             Update(U, q, new).connections[k] =
                 IF k = Min(SlotsOf(U, q)) THEN new ELSE U.connections[k]
    BY <1>1, <2>2, PoolConstants, UpdateSlots
  <2>5. \A k \in Occupied(Update(U, q, new)) :
          WindowSent(Update(U, q, new).connections[k])
    BY <1>1, <2>3, <2>4
  <2> QED
    BY <2>1, <2>5, UploadsAreSent
<1>6. CASE UNCHANGED upload_pool
  BY <1>6 DEF WindowIsSent
<1>7. CASE \/ StartDownload(p, q, i) \/ RejectDATA(p, q, i) \/ AcceptDATA(p, q, i)
           \/ FinishChunk(p, q, i) \/ FinishFile(p, q, i)
  BY <1>6, <1>7 DEF StartDownload, RejectDATA, AcceptDATA, FinishChunk, FinishFile
<1>8. CASE \/ ProcessWHOHAS(p, q, i) \/ IgnoreIHAVE(p, q, i)
           \/ IgnoreDATA(p, q, i) \/ IgnoreACK(p, q, i) \/ StaleACK(p, q, i)
           \/ CrashOnIHAVE(p, q, i) \/ CrashOnDATA(p, q, i)
  <2>1. i \in DOMAIN net[q][p]
    BY <1>8 DEF ProcessWHOHAS, IgnoreIHAVE, IgnoreDATA, IgnoreACK, StaleACK,
                AckArrives, CrashOnIHAVE, CrashOnDATA, LastDATA, Arrives
  <2> QED
    BY <1>6, <1>8, <2>1, OtherSteps DEF PoolsUntouched
<1> QED
  BY <1>3, <1>4, <1>5, <1>7, <1>8 DEF ProcessPACKET

\* handle_timeout sends the windows it rewinds, and keeps the others.
LEMMA HandleTimeoutWindow ==
    ASSUME TypeOK, WindowIsSent, NEW p \in Peer,
           NEW up \in SUBSET Occupied(upload_pool[p]),
           NEW down \in SUBSET Occupied(download_pool[p]),
           HandleTimeout(p, up, down)
    PROVE  WindowIsSent'
<1> DEFINE U == upload_pool[p]
           new == Checked(U, up, ResentUploads(U, up))
<1>1. /\ U \in PoolOf(max_conn[p], UploadConnection)
      /\ max_conn[p] \in Nat
      /\ \A k \in Occupied(U) : WindowSent(U.connections[k])
  BY PoolConstants DEF TypeOK, ConnOK, WindowIsSent
<1>2. \A k \in up \ GivenUp(U, up) :
        /\ ResentUploads(U, up)[k] \in UploadConnection
        /\ WindowSent(ResentUploads(U, up)[k])
  BY RetriedConnections DEF TypeOK
<1>3. /\ Occupied(new) = Occupied(U) \ GivenUp(U, up)
      /\ \A k \in Occupied(new) :
           new.connections[k] =
               IF k \in up THEN ResentUploads(U, up)[k] ELSE U.connections[k]
  BY <1>1, <1>2, PoolConstants, CheckedSlots
<1>4. \A k \in Occupied(new) : WindowSent(new.connections[k])
  BY <1>1, <1>2, <1>3
<1>5. upload_pool' = [upload_pool EXCEPT ![p] = new]
  BY DEF HandleTimeout
<1> HIDE DEF new
<1> QED
  BY <1>4, <1>5, UploadsAreSent

\* Every step leaves the window of every upload connection sent.
LEMMA NextWindow ==
    ASSUME TypeOK, WindowIsSent, [Next]_vars
    PROVE  WindowIsSent'
<1>1. CASE UNCHANGED upload_pool
  BY <1>1 DEF WindowIsSent
<1>2. ASSUME NEW p \in Peer, SIGALRM(p)
      PROVE  WindowIsSent'
  BY <1>2, HandleTimeoutWindow DEF SIGALRM
<1>3. CASE Fault
  <2>1. ASSUME NEW p \in Peer, Restart(p)
        PROVE  WindowIsSent'
    <3>1. upload_pool' = [upload_pool EXCEPT ![p] = EmptyPool(max_conn[p])]
      BY <2>1 DEF Restart
    <3>2. Occupied(EmptyPool(max_conn[p])) = {}
      BY PoolConstants, EmptyPoolType
    <3> QED
      BY <3>1, <3>2, UploadsAreSent
  <2> QED
    BY <1>1, <1>3, <2>1, OtherSteps DEF Fault, PoolsUntouched
<1>4. ASSUME NEW p \in Peer, Command(p)
      PROVE  WindowIsSent'
  BY <1>1, <1>4, OtherSteps DEF PoolsUntouched
<1>5. CASE UNCHANGED vars
  BY <1>1, <1>5, OtherSteps DEF PoolsUntouched
<1> QED
  BY <1>2, <1>3, <1>4, <1>5, ReceiveWindow DEF Next, Receive

\* Peers start without upload connections.
LEMMA InitWindow == Init => WindowIsSent
<1>1. \A p \in Peer : Occupied(EmptyPool(max_conn[p])) = {}
  BY PoolConstants, EmptyPoolType
<1> QED
  BY <1>1 DEF Init, WindowIsSent

\* An uploader never keeps back a packet of its window and never has more than
\* the window in flight, also at the end of a chunk.
THEOREM WindowAlwaysSent == Spec => []WindowIsSent
<1>1. Init => TypeOK /\ WindowIsSent
  BY InitType, InitWindow
<1>2. TypeOK /\ WindowIsSent /\ [Next]_vars => (TypeOK /\ WindowIsSent)'
  BY NextType, NextWindow
<1> QED
  BY <1>1, <1>2, PTL DEF Spec

-----------------------------------------------------------------------------
(* The chunk table and the download connections of a peer.                 *)

\* The table of p is kept, its statuses aside.
TableKept(p) ==
    /\ table'[p] = table[p]
    /\ chunks'[p] = chunks[p]
    /\ chunks_data'[p] = chunks_data[p]

Untouched(p) ==
    /\ TableKept(p)
    /\ statuses'[p] = statuses[p]
    /\ download_pool'[p] = download_pool[p]

\* p starts to download a chunk that is NOT_DOWNLOADED.
Starts(p) ==
    \E q \in Peer, h \in Hash :
        /\ TableKept(p)
        /\ table[p] = "freed" => statuses'[p] = statuses[p]
        /\ table[p] # "freed" =>
            /\ Listed(chunks[p], h)
            /\ statuses[p][IndexOf(chunks[p], h)] = "NOT_DOWNLOADED"
            /\ statuses'[p] = WithStatus(chunks[p], statuses[p], h, "DOWNLOADING")
        /\ ~Connected(download_pool[p], q)
        /\ download_pool[p].size < max_conn[p]
        /\ download_pool'[p] = AddTo(download_pool[p], NewDownload(q, h))

\* p writes to a connection, not to its chunk.
Writes(p) ==
    \E q \in Peer, new \in DownloadConnection :
        /\ TableKept(p)
        /\ statuses'[p] = statuses[p]
        /\ Connected(download_pool[p], q)
        /\ new.sha1 = Find(download_pool[p], q).sha1
        /\ download_pool'[p] = Update(download_pool[p], q, new)

\* p closes a connection after its last packet, judges its chunk, and frees
\* the table if no other chunk is left.
Finishes(p) ==
    \E q \in Peer, s \in {"DONE", "NOT_DOWNLOADED"}, content \in Content :
        /\ Connected(download_pool[p], q)
        /\ download_pool'[p] = RemoveFrom(download_pool[p], q)
        /\ chunks'[p] = chunks[p]
        /\ table'[p] \in {table[p], "freed"}
        /\ table[p] = "freed" => /\ statuses'[p] = statuses[p]
                                 /\ chunks_data'[p] = chunks_data[p]
        /\ table[p] # "freed" =>
            LET h == Find(download_pool[p], q).sha1
            IN  /\ statuses'[p] = WithStatus(chunks[p], statuses[p], h, s)
                /\ chunks_data'[p] =
                       WithStatus(chunks[p], chunks_data[p], h, content)
                /\ table'[p] = "freed" <=> AllDone(statuses'[p])
        /\ s = "DONE" => content = "intact"

\* p gives up on some connections.
TimesOut(p) ==
    \E down \in SUBSET Occupied(download_pool[p]) :
        /\ TableKept(p)
        /\ table[p] = "freed" => statuses'[p] = statuses[p]
        /\ table[p] # "freed" =>
            statuses'[p] = Reopened(p, statuses[p], GivenUp(download_pool[p], down))
        /\ download_pool'[p] = Checked(download_pool[p], down,
                                       WaitingDownloads(download_pool[p], down))

\* The user of p asks for a file.
Asks(p) ==
    /\ gets'[p] # gets[p]
    /\ table'[p] = "live"
    /\ chunks'[p] \in ChunkFiles[p]
    /\ Overlap \/ download_pool[p].size = 0
    /\ \A j \in DOMAIN chunks'[p] : statuses'[p][j] = "NOT_DOWNLOADED"
    /\ download_pool'[p] = download_pool[p]

\* p is started.
Begins(p) ==
    Restart(p) /\ table'[p] = "none" /\ chunks'[p] = <<>> /\ run'[p] # run[p]

TableStep(p) ==
    \/ Untouched(p) \/ Starts(p) \/ Writes(p) \/ Finishes(p) \/ TimesOut(p)
    \/ Asks(p) \/ Begins(p)

-----------------------------------------------------------------------------
(* Every step is one of these, for every peer. *)

\* A step that leaves the table variables and the download pools alone.
LEMMA NothingTouched ==
    ASSUME UNCHANGED <<tableVars, download_pool>>, NEW t
    PROVE  Untouched(t)
  BY DEF tableVars, Untouched, TableKept

\* A step that changes the statuses and the downloads of p alone.
LEMMA OthersUntouched ==
    ASSUME TypeOK, NEW p \in Peer, NEW t \in Peer \ {p},
           \/ UNCHANGED <<table, chunks, chunks_data>>
           \/ /\ \E x : table' = [table EXCEPT ![p] = x]
              /\ \E x : chunks' = [chunks EXCEPT ![p] = x]
              /\ \E x : chunks_data' = [chunks_data EXCEPT ![p] = x],
           \/ UNCHANGED statuses
           \/ \E x : statuses' = [statuses EXCEPT ![p] = x],
           \/ UNCHANGED download_pool
           \/ \E x : download_pool' = [download_pool EXCEPT ![p] = x]
    PROVE  Untouched(t)
<1>1. TableKept(t)
  BY DEF TypeOK, TableOK, TableKept
<1>2. statuses'[t] = statuses[t]
  BY DEF TypeOK, TableOK
<1>3. download_pool'[t] = download_pool[t]
  BY DEF TypeOK, ConnOK
<1> QED
  BY <1>1, <1>2, <1>3 DEF Untouched

\* process_IHAVE starts a download.
LEMMA StartDownloadStep ==
    ASSUME TypeOK, NEW p \in Peer, NEW q \in Peer, NEW i, StartDownload(p, q, i)
    PROVE  Starts(p) /\ \A t \in Peer \ {p} : Untouched(t)
<1> DEFINE offer == net[q][p][i].chunks
<1>1. PICK st \in Readings(p) :
        LET sha1 == Chosen(chunks[p], st, offer)
        IN  /\ Startable(chunks[p], st, offer) # {}
            /\ statuses' = IF table[p] = "freed" THEN statuses
                           ELSE [statuses EXCEPT ![p] =
                               WithStatus(chunks[p], st, sha1, "DOWNLOADING")]
            /\ download_pool' = [download_pool EXCEPT ![p] =
                   AddTo(@, NewDownload(q, sha1))]
  BY DEF StartDownload
<1> DEFINE sha1 == Chosen(chunks[p], st, offer)
<1>2. /\ Arrives(p, q, i, "IHAVE")
      /\ UNCHANGED <<table, chunks, chunks_data>>
      /\ ~HasNoRoomFor(p, q)
  BY DEF StartDownload
<1>3. offer \in Payload /\ chunks[p] \in Seq(Hash) /\ p \in DOMAIN statuses
      /\ p \in DOMAIN download_pool
  <2>1. chunks[p] \in Seq(Hash) /\ p \in DOMAIN statuses /\ p \in DOMAIN download_pool
    BY DEF TypeOK, TableOK, ConnOK
  <2> QED
    BY <1>2, <2>1, ArrivingPacket, PacketFields
<1>4. /\ sha1 \in Hash
      /\ Listed(chunks[p], sha1)
      /\ st[IndexOf(chunks[p], sha1)] = "NOT_DOWNLOADED"
  BY <1>1, <1>3, ChosenChunk
<1>5. table[p] # "freed" => st = statuses[p]
  BY DEF Readings
<1>6. ~Connected(download_pool[p], q) /\ download_pool[p].size < max_conn[p]
  <2>1. max_conn[p] \in Nat /\ download_pool[p].size \in Int
    BY PoolConstants, PoolSlots DEF TypeOK, ConnOK
  <2> QED
    BY <1>2, <2>1 DEF HasNoRoomFor
<1> HIDE DEF sha1, offer
<1>7. download_pool'[p] = AddTo(download_pool[p], NewDownload(q, sha1))
  BY <1>1, <1>3 DEF sha1
<1>8. /\ table[p] = "freed" => statuses'[p] = statuses[p]
      /\ table[p] # "freed" =>
           statuses'[p] = WithStatus(chunks[p], statuses[p], sha1, "DOWNLOADING")
  BY <1>1, <1>3, <1>5 DEF sha1
<1>9. Starts(p)
  BY <1>2, <1>4, <1>5, <1>6, <1>7, <1>8 DEF Starts, TableKept
<1>10. \A t \in Peer \ {p} : Untouched(t)
  BY <1>1, <1>2, OthersUntouched
<1> QED
  BY <1>9, <1>10

\* process_DATA, before the last packet, writes to the connection.
LEMMA DATAStep ==
    ASSUME TypeOK, NEW p \in Peer, NEW q \in Peer, NEW i,
           RejectDATA(p, q, i) \/ AcceptDATA(p, q, i)
    PROVE  Writes(p) /\ \A t \in Peer \ {p} : Untouched(t)
<1> DEFINE c == Find(download_pool[p], q)
           data == net[q][p][i]
<1>1. UNCHANGED tableVars /\ Connected(download_pool[p], q)
  BY DEF RejectDATA, AcceptDATA
<1>2. c \in DownloadConnection /\ p \in DOMAIN download_pool
  <2>1. /\ download_pool[p] \in PoolOf(max_conn[p], DownloadConnection)
        /\ p \in DOMAIN download_pool
    BY DEF TypeOK, ConnOK
  <2> QED
    BY <1>1, <2>1, PoolConstants, FindInPool
<1>3. ASSUME NEW new \in DownloadConnection, new.sha1 = c.sha1,
             download_pool' = [download_pool EXCEPT ![p] =
                 Update(download_pool[p], q, new)]
      PROVE  Writes(p) /\ \A t \in Peer \ {p} : Untouched(t)
  <2>1. download_pool'[p] = Update(download_pool[p], q, new)
    BY <1>2, <1>3
  <2>2. Writes(p)
    BY <1>1, <1>3, <2>1 DEF Writes, TableKept, tableVars
  <2>3. \A t \in Peer \ {p} : Untouched(t)
    BY <1>1, <1>3, OthersUntouched DEF tableVars
  <2> QED
    BY <2>2, <2>3
<1>4. CASE RejectDATA(p, q, i)
  <2>1. download_pool' = [download_pool EXCEPT ![p] =
            Update(download_pool[p], q, [c EXCEPT !.overtime_count = 0])]
    BY <1>4 DEF RejectDATA
  <2>2. /\ [c EXCEPT !.overtime_count = 0] \in DownloadConnection
        /\ [c EXCEPT !.overtime_count = 0].sha1 = c.sha1
    BY <1>2, OVERTIME_LIMIT_Assumption DEF DownloadConnection
  <2> QED
    BY <1>3, <2>1, <2>2
<1>5. CASE AcceptDATA(p, q, i)
  <2>1. /\ download_pool' = [download_pool EXCEPT ![p] =
              Update(download_pool[p], q, Received(c, data))]
        /\ c.expected_seq < CHUNK_SIZE
    BY <1>5 DEF AcceptDATA
  <2>2. Received(c, data) \in DownloadConnection /\ Received(c, data).sha1 = c.sha1
    BY <1>2, <2>1, ReceivedType DEF Received, DownloadConnection
  <2> QED
    BY <1>3, <2>1, <2>2
<1> QED
  BY <1>4, <1>5

\* process_DATA, at the last packet, finishes the connection.
LEMMA LastDATAStep ==
    ASSUME TypeOK, NEW p \in Peer, NEW q \in Peer, NEW i,
           FinishChunk(p, q, i) \/ FinishFile(p, q, i)
    PROVE  Finishes(p) /\ \A t \in Peer \ {p} : Untouched(t)
<1> DEFINE old == Find(download_pool[p], q)
           c == Received(old, net[q][p][i])
           content == IF c.intact THEN "intact" ELSE "mixed"
<1>1. /\ Connected(download_pool[p], q)
      /\ UNCHANGED chunks
      /\ table' = table \/ table' = [table EXCEPT ![p] = "freed"]
  BY DEF FinishChunk, FinishFile, LastDATA
<1>2. PICK st \in Readings(p) :
        /\ \E out : CompletesChunk(p, q, i, st, out)
        /\ \/ UNCHANGED table /\ ~AllDone(Saved(p, q, i, st))
           \/ /\ table[p] = "live" /\ table' = [table EXCEPT ![p] = "freed"]
              /\ AllDone(Saved(p, q, i, st))
  BY DEF FinishChunk, FinishFile, Readings
<1>3. /\ IF table[p] = "freed" THEN UNCHANGED <<statuses, chunks_data>>
         ELSE /\ statuses' = [statuses EXCEPT ![p] = Saved(p, q, i, st)]
              /\ chunks_data' = [chunks_data EXCEPT ![p] =
                     WithStatus(chunks[p], chunks_data[p], c.sha1, content)]
      /\ download_pool' = [download_pool EXCEPT ![p] =
             RemoveFrom(download_pool[p], q)]
  BY <1>2 DEF CompletesChunk
<1>4. Saved(p, q, i, st) = WithStatus(chunks[p], st, c.sha1, SavedStatus(c.intact))
  BY DEF Saved
<1>5. c.sha1 = old.sha1
  <2>1. /\ download_pool[p] \in PoolOf(max_conn[p], DownloadConnection)
    BY DEF TypeOK, ConnOK
  <2>2. old \in DownloadConnection
    BY <1>1, <2>1, PoolConstants, FindInPool
  <2> QED
    BY <2>2 DEF Received, DownloadConnection
<1>6. /\ SavedStatus(c.intact) \in {"DONE", "NOT_DOWNLOADED"}
      /\ content \in Content
      /\ SavedStatus(c.intact) = "DONE" => content = "intact"
  BY DEF SavedStatus, Content
<1>7. table[p] # "freed" => st = statuses[p]
  BY DEF Readings
<1>8. /\ p \in DOMAIN table /\ p \in DOMAIN statuses
      /\ p \in DOMAIN chunks_data /\ p \in DOMAIN download_pool
  BY DEF TypeOK, TableOK, ConnOK
<1> HIDE DEF content, c
<1>9. /\ table'[p] \in {table[p], "freed"}
      /\ download_pool'[p] = RemoveFrom(download_pool[p], q)
      /\ table[p] = "freed" => /\ statuses'[p] = statuses[p]
                               /\ chunks_data'[p] = chunks_data[p]
      /\ table[p] # "freed" =>
           /\ statuses'[p] =
                WithStatus(chunks[p], statuses[p], old.sha1, SavedStatus(c.intact))
           /\ chunks_data'[p] =
                WithStatus(chunks[p], chunks_data[p], old.sha1, content)
           /\ table'[p] = "freed" <=> AllDone(statuses'[p])
  BY <1>1, <1>2, <1>3, <1>4, <1>5, <1>7, <1>8
<1>10. Finishes(p)
  BY <1>1, <1>6, <1>9 DEF Finishes
<1>11. \A t \in Peer \ {p} : Untouched(t)
  <2>1. /\ \E x : table' = [table EXCEPT ![p] = x]
        /\ \E x : chunks' = [chunks EXCEPT ![p] = x]
    <3>1. table = [table EXCEPT ![p] = table[p]] /\ chunks = [chunks EXCEPT ![p] = chunks[p]]
      BY DEF TypeOK, TableOK
    <3> QED
      BY <1>1, <3>1
  <2>2. ASSUME NEW t \in Peer \ {p}
        PROVE  /\ table'[t] = table[t] /\ chunks'[t] = chunks[t]
               /\ statuses'[t] = statuses[t] /\ chunks_data'[t] = chunks_data[t]
               /\ download_pool'[t] = download_pool[t]
    BY <1>1, <1>3 DEF TypeOK, TableOK, ConnOK
  <2> QED
    BY <2>2 DEF Untouched, TableKept
<1> QED
  BY <1>10, <1>11

\* handle_timeout gives up on some connections.
LEMMA HandleTimeoutStep ==
    ASSUME TypeOK, NEW p \in Peer, NEW up,
           NEW down \in SUBSET Occupied(download_pool[p]),
           HandleTimeout(p, up, down)
    PROVE  TimesOut(p) /\ \A t \in Peer \ {p} : Untouched(t)
<1> DEFINE out == GivenUp(download_pool[p], down)
           new == Checked(download_pool[p], down,
                          WaitingDownloads(download_pool[p], down))
<1>1. PICK st \in Readings(p) :
        statuses' = IF table[p] = "freed" THEN statuses
                    ELSE [statuses EXCEPT ![p] = Reopened(p, st, out)]
  BY DEF HandleTimeout
<1>2. /\ UNCHANGED <<table, chunks, chunks_data>>
      /\ download_pool' = [download_pool EXCEPT ![p] = new]
  BY DEF HandleTimeout
<1>3. table[p] # "freed" => st = statuses[p]
  BY DEF Readings
<1>4. p \in DOMAIN statuses /\ p \in DOMAIN download_pool
  BY DEF TypeOK, TableOK, ConnOK
<1>5. /\ download_pool'[p] = new
      /\ table[p] = "freed" => statuses'[p] = statuses[p]
      /\ table[p] # "freed" => statuses'[p] = Reopened(p, statuses[p], out)
  BY <1>1, <1>2, <1>3, <1>4
<1>6. TimesOut(p)
  BY <1>2, <1>5 DEF TimesOut, TableKept
<1>7. \A t \in Peer \ {p} : Untouched(t)
  BY <1>1, <1>2, OthersUntouched
<1> QED
  BY <1>6, <1>7

\* process_get asks for a file.
LEMMA UserGetStep ==
    ASSUME TypeOK, NEW p \in Peer, NEW file, UserGet(p, file)
    PROVE  Asks(p) /\ \A t \in Peer \ {p} : Untouched(t)
<1> DEFINE fresh == [j \in DOMAIN file |-> "NOT_DOWNLOADED"]
<1>1. /\ table' = [table EXCEPT ![p] = "live"]
      /\ chunks' = [chunks EXCEPT ![p] = file]
      /\ statuses' = [statuses EXCEPT ![p] = fresh]
      /\ chunks_data' = [chunks_data EXCEPT ![p] = [j \in DOMAIN file |-> "none"]]
      /\ gets' = [gets EXCEPT ![p] = gets[p] + 1]
      /\ Overlap \/ download_pool[p].size = 0
      /\ file \in ChunkFiles[p]
      /\ UNCHANGED download_pool
  BY DEF UserGet
<1>2. /\ table'[p] = "live" /\ chunks'[p] = file
      /\ statuses'[p] = fresh /\ gets'[p] = gets[p] + 1
  BY <1>1 DEF TypeOK, TableOK, EnvOK
<1>3. gets'[p] # gets[p]
  BY <1>2 DEF TypeOK, EnvOK
<1>4. Asks(p)
  BY <1>1, <1>2, <1>3 DEF Asks
<1>5. \A t \in Peer \ {p} : Untouched(t)
  BY <1>1, OthersUntouched
<1> QED
  BY <1>4, <1>5

\* A peer that is started again begins.
LEMMA RestartStep ==
    ASSUME TypeOK, NEW p \in Peer, Restart(p)
    PROVE  Begins(p) /\ \A t \in Peer \ {p} : Untouched(t)
<1>1. /\ run[p] = "killed"
      /\ run' = [run EXCEPT ![p] = "running"]
      /\ table' = [table EXCEPT ![p] = "none"]
      /\ chunks' = [chunks EXCEPT ![p] = <<>>]
      /\ statuses' = [statuses EXCEPT ![p] = <<>>]
      /\ chunks_data' = [chunks_data EXCEPT ![p] = <<>>]
      /\ download_pool' = [download_pool EXCEPT ![p] = EmptyPool(max_conn[p])]
  BY DEF Restart
<1>2. Begins(p)
  BY <1>1 DEF Begins, TypeOK, TableOK
<1>3. \A t \in Peer \ {p} : Untouched(t)
  BY <1>1, OthersUntouched
<1> QED
  BY <1>2, <1>3

\* What a step does to the tables and the downloads of the peers: at most one
\* peer's are touched.
LEMMA NextTableSteps ==
    ASSUME TypeOK, [Next]_vars
    PROVE  \/ \A t \in Peer : Untouched(t)
           \/ \E p \in Peer :
                  TableStep(p) /\ \A t \in Peer \ {p} : Untouched(t)
<1> DEFINE Goal == \/ \A t \in Peer : Untouched(t)
                   \/ \E p \in Peer :
                          TableStep(p) /\ \A t \in Peer \ {p} : Untouched(t)
<1> USE DEF TableStep
<1>1. ASSUME NEW p \in Peer, NEW q \in Peer, NEW i, ProcessPACKET(p, q, i)
      PROVE  Goal
  <2>1. CASE \/ ProcessWHOHAS(p, q, i) \/ IgnoreIHAVE(p, q, i)
             \/ CrashOnIHAVE(p, q, i) \/ RefuseGET(p, q, i) \/ AcceptGET(p, q, i)
             \/ IgnoreDATA(p, q, i) \/ CrashOnDATA(p, q, i) \/ IgnoreACK(p, q, i)
             \/ FinishUpload(p, q, i) \/ CumulativeACK(p, q, i)
             \/ DuplicateACK(p, q, i) \/ FastRetransmit(p, q, i)
             \/ StaleACK(p, q, i)
    <3>1. UNCHANGED <<tableVars, download_pool>>
      BY <2>1
         DEF ProcessWHOHAS, IgnoreIHAVE, CrashOnIHAVE, RefuseGET, AcceptGET,
                  IgnoreDATA, CrashOnDATA, IgnoreACK, FinishUpload, CumulativeACK,
                  DuplicateACK, FastRetransmit, StaleACK, connVars
    <3> QED
      BY <3>1, NothingTouched
  <2>2. CASE StartDownload(p, q, i)
    BY <2>2, StartDownloadStep
  <2>3. CASE RejectDATA(p, q, i) \/ AcceptDATA(p, q, i)
    BY <2>3, DATAStep
  <2>4. CASE FinishChunk(p, q, i) \/ FinishFile(p, q, i)
    BY <2>4, LastDATAStep
  <2> QED
    BY <1>1, <2>1, <2>2, <2>3, <2>4 DEF ProcessPACKET
<1>2. ASSUME NEW p \in Peer, SIGALRM(p)
      PROVE  Goal
  BY <1>2, HandleTimeoutStep DEF SIGALRM
<1>3. ASSUME NEW p \in Peer, Command(p)
      PROVE  Goal
  BY <1>3, UserGetStep DEF Command
<1>4. CASE Fault
  <2>1. ASSUME NEW p \in Peer, Restart(p)
        PROVE  Goal
    BY <2>1, RestartStep
  <2>2. ASSUME NEW p \in Peer, NEW q \in Peer, NEW i,
               Lose(p, q, i) \/ Duplicate(p, q, i) \/ Die(p)
        PROVE  Goal
    <3>1. UNCHANGED <<tableVars, download_pool>>
      BY <2>2 DEF Lose, Duplicate, Die, connVars
    <3> QED
      BY <3>1, NothingTouched
  <2> QED
    BY <1>4, <2>1, <2>2 DEF Fault
<1>5. CASE UNCHANGED vars
  BY <1>5, NothingTouched DEF vars, connVars
<1> QED
  BY <1>1, <1>2, <1>3, <1>4, <1>5 DEF Next, Receive

\* What any step does to the table and the downloads of any peer.
LEMMA NextTableStep ==
    ASSUME TypeOK, [Next]_vars, NEW t \in Peer
    PROVE  TableStep(t)
  BY NextTableSteps DEF TableStep

-----------------------------------------------------------------------------
(* DownloadingIffConnected, for one pool, file and array of statuses. *)

Fetching(pool, file, j) ==
    {k \in Occupied(pool) :
        LET sha1 == pool.connections[k].sha1
        IN  Listed(file, sha1) /\ IndexOf(file, sha1) = j}

Agrees(pool, file, st) ==
    \A j \in DOMAIN file :
        /\ st[j] = "DOWNLOADING" <=> Fetching(pool, file, j) # {}
        /\ \A k, l \in Fetching(pool, file, j) : k = l

\* DownloadingIffConnected says this of every table in use.
LEMMA AgreesIsInvariant ==
    DownloadingIffConnected
    <=> \A p \in Peer :
            table[p] = "live" => Agrees(download_pool[p], chunks[p], statuses[p])
  BY DEF DownloadingIffConnected, Downloading, Agrees, Fetching

\* The same connections for the same chunks, in the same slots.
LEMMA SameConnectionsAgree ==
    ASSUME NEW pool, NEW new, NEW file, NEW st,
           Occupied(new) = Occupied(pool),
           \A k \in Occupied(pool) :
               new.connections[k].sha1 = pool.connections[k].sha1,
           Agrees(pool, file, st)
    PROVE  Agrees(new, file, st)
<1>1. \A j : Fetching(new, file, j) = Fetching(pool, file, j)
  BY DEF Fetching
<1> QED
  BY <1>1 DEF Agrees

\* A connection for a chunk that nobody downloads.
LEMMA StartAgrees ==
    ASSUME NEW n \in Nat, NEW pool \in PoolOf(n, DownloadConnection),
           NEW c \in DownloadConnection, Consistent(pool), pool.size < n,
           ~Connected(pool, c.peer),
           NEW file \in Seq(Hash), NEW st \in [DOMAIN file -> Status],
           Listed(file, c.sha1), st[IndexOf(file, c.sha1)] = "NOT_DOWNLOADED",
           Agrees(pool, file, st)
    PROVE  Agrees(AddTo(pool, c), file,
                  WithStatus(file, st, c.sha1, "DOWNLOADING"))
<1> DEFINE f == Min(FreeSlots(pool))
           new == AddTo(pool, c)
           i == IndexOf(file, c.sha1)
           after == WithStatus(file, st, c.sha1, "DOWNLOADING")
<1>1. /\ f \notin Occupied(pool)
      /\ Occupied(new) = Occupied(pool) \cup {f}
      /\ new.connections[f] = c
      /\ \A k \in Occupied(pool) : new.connections[k] = pool.connections[k]
  <2>1. NULL \notin DownloadConnection
    BY PoolConstants
  <2> QED
    BY <2>1, AddToConsistent
<1>2. /\ i \in DOMAIN file
      /\ \A j \in DOMAIN file : after[j] = IF j = i THEN "DOWNLOADING" ELSE st[j]
  BY IndexOfHash DEF WithStatus
<1> HIDE DEF f, new, i, after
<1>3. \A j : Fetching(new, file, j) =
               Fetching(pool, file, j) \cup (IF j = i THEN {f} ELSE {})
  BY <1>1 DEF Fetching, i
<1>4. Fetching(pool, file, i) = {}
  BY <1>2 DEF Agrees, i
<1>5. ASSUME NEW j \in DOMAIN file
      PROVE  /\ after[j] = "DOWNLOADING" <=> Fetching(new, file, j) # {}
             /\ \A k, l \in Fetching(new, file, j) : k = l
  <2>1. CASE j = i
    BY <1>2, <1>3, <1>4, <2>1
  <2>2. CASE j # i
    <3>1. Fetching(new, file, j) = Fetching(pool, file, j) /\ after[j] = st[j]
      BY <1>2, <1>3, <2>2
    <3> QED
      BY <3>1 DEF Agrees
  <2> QED
    BY <2>1, <2>2
<1> QED
  BY <1>5 DEF Agrees, new, after

\* The end of a connection, with the status of its chunk.
LEMMA FinishAgrees ==
    ASSUME NEW n \in Nat, NEW pool \in PoolOf(n, DownloadConnection),
           Consistent(pool), NEW q, Connected(pool, q),
           NEW file \in Seq(Hash), NEW st \in [DOMAIN file -> Status],
           NEW s, s # "DOWNLOADING",
           Agrees(pool, file, st)
    PROVE  Agrees(RemoveFrom(pool, q), file,
                  WithStatus(file, st, Find(pool, q).sha1, s))
<1> DEFINE m == Min(SlotsOf(pool, q))
           h == Find(pool, q).sha1
           new == RemoveFrom(pool, q)
           after == WithStatus(file, st, h, s)
<1>1. /\ m \in SlotsOf(pool, q) /\ m \in Occupied(pool)
      /\ pool.connections[m].sha1 = h
  BY PoolConstants, FindInPool
<1>2. SlotsOf(pool, q) = {m}
  BY <1>1 DEF SlotsOf, Consistent
<1>3. /\ Occupied(new) = Occupied(pool) \ {m}
      /\ \A k \in Occupied(new) : new.connections[k] = pool.connections[k]
  BY <1>2, PoolConstants, RemoveFromConsistent
<1>4. \A j \in DOMAIN file :
        after[j] = IF Listed(file, h) /\ IndexOf(file, h) = j THEN s ELSE st[j]
  BY IndexOfHash DEF WithStatus
<1> HIDE DEF m, h, new, after
<1>5. \A j : Fetching(new, file, j) = Fetching(pool, file, j) \ {m}
  BY <1>3 DEF Fetching
<1>6. ASSUME NEW j \in DOMAIN file
      PROVE  /\ after[j] = "DOWNLOADING" <=> Fetching(new, file, j) # {}
             /\ \A k, l \in Fetching(new, file, j) : k = l
  <2>1. CASE Listed(file, h) /\ IndexOf(file, h) = j
    <3>1. m \in Fetching(pool, file, j)
      BY <1>1, <2>1 DEF Fetching
    <3>2. Fetching(new, file, j) = {}
      BY <1>5, <3>1 DEF Agrees
    <3> QED
      BY <1>4, <2>1, <3>2
  <2>2. CASE ~(Listed(file, h) /\ IndexOf(file, h) = j)
    <3>1. m \notin Fetching(pool, file, j)
      BY <1>1, <2>2 DEF Fetching
    <3>2. Fetching(new, file, j) = Fetching(pool, file, j) /\ after[j] = st[j]
      BY <1>4, <1>5, <2>2, <3>1
    <3> QED
      BY <3>2 DEF Agrees
  <2> QED
    BY <2>1, <2>2
<1> QED
  BY <1>6 DEF Agrees, h, new, after

\* The connections that are not given up are for the same chunks.
LEMMA TimeoutSlots ==
    ASSUME TypeOK, NEW p \in Peer, NEW down \in SUBSET Occupied(download_pool[p])
    PROVE  LET pool == download_pool[p]
               new == Checked(pool, down, WaitingDownloads(pool, down))
           IN  /\ Occupied(new) = Occupied(pool) \ GivenUp(pool, down)
               /\ \A k \in Occupied(new) :
                    new.connections[k].sha1 = pool.connections[k].sha1
<1> DEFINE pool == download_pool[p]
           out == GivenUp(pool, down)
           retried == WaitingDownloads(pool, down)
           new == Checked(pool, down, retried)
<1>1. /\ max_conn[p] \in Nat
      /\ pool \in PoolOf(max_conn[p], DownloadConnection)
      /\ NULL \notin DownloadConnection
  BY PoolConstants DEF TypeOK, ConnOK
<1>2. \A k \in down \ out : /\ retried[k] \in DownloadConnection
                            /\ retried[k].sha1 = pool.connections[k].sha1
  <2>1. {} \in SUBSET Occupied(upload_pool[p]) /\ ConnOK
    BY DEF TypeOK
  <2> QED
    BY <2>1, RetriedConnections
<1> HIDE DEF retried
<1>3. /\ Occupied(new) = Occupied(pool) \ out
      /\ \A k \in Occupied(new) :
           new.connections[k].sha1 = pool.connections[k].sha1
  <2>1. \A k \in down \ out : retried[k] \in DownloadConnection
    BY <1>2
  <2>2. /\ Occupied(new) = Occupied(pool) \ out
        /\ \A k \in Occupied(new) :
             new.connections[k] =
                 IF k \in down THEN retried[k] ELSE pool.connections[k]
    <3> HIDE DEF pool
    <3>1. down \in SUBSET Occupied(pool)
      BY DEF pool
    <3>2. Occupied(new) = Occupied(pool) \ out
      BY <1>1, <2>1, <3>1, CheckedSlots
    <3>3. \A k \in Occupied(new) :
             new.connections[k] =
                 IF k \in down THEN retried[k] ELSE pool.connections[k]
      BY <1>1, <2>1, <3>1, CheckedSlots
    <3> QED
      BY <3>2, <3>3
  <2> QED
    BY <1>2, <2>2
<1> QED
  BY <1>3 DEF retried

\* The connections given up, and the chunks opened again.
LEMMA TimeoutAgrees ==
    ASSUME TypeOK, NEW p \in Peer, NEW down \in SUBSET Occupied(download_pool[p]),
           Agrees(download_pool[p], chunks[p], statuses[p])
    PROVE  LET pool == download_pool[p]
           IN  Agrees(Checked(pool, down, WaitingDownloads(pool, down)), chunks[p],
                      Reopened(p, statuses[p], GivenUp(pool, down)))
<1> DEFINE pool == download_pool[p]
           file == chunks[p]
           st == statuses[p]
           out == GivenUp(pool, down)
           new == Checked(pool, down, WaitingDownloads(pool, down))
           after == Reopened(p, st, out)
<1>1. out \subseteq Occupied(pool)
  BY DEF GivenUp
<1>2. DOMAIN st = DOMAIN file
  BY DEF TypeOK, TableOK
<1>3. /\ Occupied(new) = Occupied(pool) \ out
      /\ \A k \in Occupied(new) :
           new.connections[k].sha1 = pool.connections[k].sha1
  BY TimeoutSlots
<1>4. \A j \in DOMAIN file :
        after[j] = IF \E k \in out : k \in Fetching(pool, file, j)
                   THEN "NOT_DOWNLOADED" ELSE st[j]
  BY <1>1, <1>2 DEF Reopened, Fetching
<1> HIDE DEF new, after, out
<1>5. \A j : Fetching(new, file, j) = Fetching(pool, file, j) \ out
  BY <1>3 DEF Fetching
<1>6. ASSUME NEW j \in DOMAIN file
      PROVE  /\ after[j] = "DOWNLOADING" <=> Fetching(new, file, j) # {}
             /\ \A k, l \in Fetching(new, file, j) : k = l
  <2>1. /\ st[j] = "DOWNLOADING" <=> Fetching(pool, file, j) # {}
        /\ \A k, l \in Fetching(pool, file, j) : k = l
    BY DEF Agrees
  <2> HIDE DEF pool, file, st
  <2> QED
    BY <1>4, <1>5, <2>1
<1> QED
  BY <1>6 DEF Agrees, new, after, out

\* As long as a user waits for one download to end before asking for the next,
\* no step parts the table from the connections.
LEMMA NextDownloading ==
    ASSUME ~Overlap, TypeOK, PoolsConsistent, DownloadingIffConnected, [Next]_vars
    PROVE  DownloadingIffConnected'
<1> SUFFICES ASSUME NEW p \in Peer, table'[p] = "live"
             PROVE  Agrees(download_pool'[p], chunks'[p], statuses'[p])
  BY DEF DownloadingIffConnected, Downloading, Agrees, Fetching
<1> DEFINE pool == download_pool[p]
<1>1. /\ max_conn[p] \in Nat
      /\ pool \in PoolOf(max_conn[p], DownloadConnection)
      /\ Consistent(pool)
      /\ chunks[p] \in Seq(Hash)
      /\ statuses[p] \in [DOMAIN chunks[p] -> Status]
  BY PoolsOfPeer DEF TypeOK, TableOK
<1>2. table[p] = "live" => Agrees(pool, chunks[p], statuses[p])
  BY AgreesIsInvariant
<1>3. CASE Untouched(p)
  BY <1>2, <1>3 DEF Untouched, TableKept
<1>4. CASE Starts(p)
  <2>1. PICK q \in Peer, h \in Hash :
          /\ TableKept(p)
          /\ table[p] # "freed" =>
              /\ Listed(chunks[p], h)
              /\ statuses[p][IndexOf(chunks[p], h)] = "NOT_DOWNLOADED"
              /\ statuses'[p] = WithStatus(chunks[p], statuses[p], h, "DOWNLOADING")
          /\ ~Connected(pool, q)
          /\ pool.size < max_conn[p]
          /\ download_pool'[p] = AddTo(pool, NewDownload(q, h))
    BY <1>4 DEF Starts
  <2>2. /\ NewDownload(q, h) \in DownloadConnection
        /\ NewDownload(q, h).peer = q /\ NewDownload(q, h).sha1 = h
    BY NewConnections DEF NewDownload
  <2>3. table[p] = "live" /\ chunks'[p] = chunks[p]
    BY <2>1 DEF TableKept
  <2> QED
    BY <1>1, <1>2, <2>1, <2>2, <2>3, StartAgrees
<1>5. CASE Writes(p)
  <2>1. PICK q \in Peer, c \in DownloadConnection :
          /\ TableKept(p)
          /\ statuses'[p] = statuses[p]
          /\ Connected(pool, q)
          /\ c.sha1 = Find(pool, q).sha1
          /\ download_pool'[p] = Update(pool, q, c)
    BY <1>5 DEF Writes
  <2>2. /\ Occupied(Update(pool, q, c)) = Occupied(pool)
        /\ \A k \in Occupied(pool) :
             Update(pool, q, c).connections[k] =
                 IF k = Min(SlotsOf(pool, q)) THEN c ELSE pool.connections[k]
    BY <1>1, <2>1, PoolConstants, UpdateSlots
  <2>3. \A k \in Occupied(pool) :
          Update(pool, q, c).connections[k].sha1 = pool.connections[k].sha1
    BY <2>1, <2>2 DEF Find
  <2>4. table[p] = "live" /\ chunks'[p] = chunks[p]
    BY <2>1 DEF TableKept
  <2> QED
    BY <1>2, <2>1, <2>2, <2>3, <2>4, SameConnectionsAgree
<1>6. CASE Finishes(p)
  <2>1. PICK q \in Peer, s \in {"DONE", "NOT_DOWNLOADED"}, content \in Content :
          /\ Connected(pool, q)
          /\ download_pool'[p] = RemoveFrom(pool, q)
          /\ chunks'[p] = chunks[p]
          /\ table'[p] \in {table[p], "freed"}
          /\ table[p] # "freed" =>
              statuses'[p] = WithStatus(chunks[p], statuses[p],
                                        Find(pool, q).sha1, s)
    BY <1>6 DEF Finishes
  <2>2. table[p] = "live" /\ s # "DOWNLOADING"
    BY <2>1
  <2> QED
    BY <1>1, <1>2, <2>1, <2>2, FinishAgrees
<1>7. CASE TimesOut(p)
  <2>1. PICK down \in SUBSET Occupied(pool) :
          /\ TableKept(p)
          /\ table[p] # "freed" =>
              statuses'[p] = Reopened(p, statuses[p], GivenUp(pool, down))
          /\ download_pool'[p] = Checked(pool, down, WaitingDownloads(pool, down))
    BY <1>7 DEF TimesOut
  <2>2. table[p] = "live" /\ chunks'[p] = chunks[p]
    BY <2>1 DEF TableKept
  <2> QED
    BY <1>2, <2>1, <2>2, TimeoutAgrees
<1>8. CASE Asks(p)
  <2>1. /\ pool.size = 0
        /\ \A j \in DOMAIN chunks'[p] : statuses'[p][j] = "NOT_DOWNLOADED"
        /\ download_pool'[p] = pool
    BY <1>8 DEF Asks
  <2>2. Occupied(pool) = {}
    <3>1. IsFiniteSet(Occupied(pool)) /\ Cardinality(Occupied(pool)) = 0
      BY <1>1, <2>1, PoolConstants, PoolSlots DEF Consistent
    <3> QED
      BY <3>1, FS_EmptySet
  <2>3. \A j : Fetching(download_pool'[p], chunks'[p], j) = {}
    BY <2>1, <2>2 DEF Fetching
  <2> QED
    BY <2>1, <2>3 DEF Agrees
<1>9. CASE Begins(p)
  BY <1>9 DEF Begins
<1> QED
  BY <1>3, <1>4, <1>5, <1>6, <1>7, <1>8, <1>9, NextTableStep DEF TableStep

\* Peers start without a table.
LEMMA InitDownloading == Init => DownloadingIffConnected
  BY DEF Init, DownloadingIffConnected

\* If users do not ask for a file while a download is under way, a chunk of
\* theirs is marked DOWNLOADING exactly while one connection downloads it.
THEOREM DownloadingAlwaysConnected ==
    ASSUME ~Overlap
    PROVE  Spec => []DownloadingIffConnected
<1> DEFINE Inv == TypeOK /\ PoolsConsistent /\ DownloadingIffConnected
<1>1. Init => Inv
  BY InitType, InitPools, InitDownloading
<1>2. Inv /\ [Next]_vars => Inv'
  BY NextType, NextPools, NextDownloading
<1> QED
  BY <1>1, <1>2, PTL DEF Spec
-----------------------------------------------------------------------------
(* DoneIsIntact. *)

\* In every step, a chunk that is DONE was DONE with the same content, or has
\* just been saved intact.
LEMMA NextIntact ==
    ASSUME TypeOK, DoneIsIntact, [Next]_vars
    PROVE  DoneIsIntact'
<1> SUFFICES ASSUME NEW p \in Peer, NEW j \in DOMAIN chunks'[p],
                    statuses'[p][j] = "DONE"
             PROVE  chunks_data'[p][j] = "intact"
  BY DEF DoneIsIntact
<1>1. /\ chunks[p] \in Seq(Hash)
      /\ statuses[p] \in [DOMAIN chunks[p] -> Status]
      /\ chunks_data[p] \in [DOMAIN chunks[p] -> Content]
  BY DEF TypeOK, TableOK
<1>2. \A i \in DOMAIN chunks[p] :
        statuses[p][i] = "DONE" => chunks_data[p][i] = "intact"
  BY DEF DoneIsIntact
<1>3. CASE TableKept(p) /\ (statuses'[p][j] = "DONE" => statuses[p][j] = "DONE")
  BY <1>2, <1>3 DEF TableKept
<1>4. CASE Untouched(p)
  BY <1>3, <1>4 DEF Untouched
<1>5. CASE Starts(p)
  <2>1. PICK h \in Hash :
          /\ TableKept(p)
          /\ table[p] = "freed" => statuses'[p] = statuses[p]
          /\ table[p] # "freed" =>
              /\ Listed(chunks[p], h)
              /\ statuses'[p] = WithStatus(chunks[p], statuses[p], h, "DOWNLOADING")
    BY <1>5 DEF Starts
  <2>2. j \in DOMAIN chunks[p]
    BY <2>1 DEF TableKept
  <2>3. statuses'[p][j] \in {"DOWNLOADING", statuses[p][j]}
    BY <1>1, <2>1, <2>2 DEF WithStatus
  <2> QED
    BY <1>3, <2>1, <2>3
<1>6. CASE Writes(p)
  BY <1>3, <1>6 DEF Writes
<1>7. CASE Finishes(p)
  <2>1. PICK q \in Peer, s \in {"DONE", "NOT_DOWNLOADED"}, content \in Content :
          /\ chunks'[p] = chunks[p]
          /\ table[p] = "freed" => /\ statuses'[p] = statuses[p]
                                   /\ chunks_data'[p] = chunks_data[p]
          /\ table[p] # "freed" =>
              LET h == Find(download_pool[p], q).sha1
              IN  /\ statuses'[p] = WithStatus(chunks[p], statuses[p], h, s)
                  /\ chunks_data'[p] =
                         WithStatus(chunks[p], chunks_data[p], h, content)
          /\ s = "DONE" => content = "intact"
    BY <1>7 DEF Finishes
  <2> DEFINE h == Find(download_pool[p], q).sha1
             here == Listed(chunks[p], h) /\ IndexOf(chunks[p], h) = j
  <2>2. j \in DOMAIN chunks[p]
    BY <2>1
  <2>3. table[p] # "freed" =>
        /\ statuses'[p][j] = IF here THEN s ELSE statuses[p][j]
        /\ chunks_data'[p][j] = IF here THEN content ELSE chunks_data[p][j]
    BY <1>1, <2>1, <2>2 DEF WithStatus
  <2> QED
    BY <1>2, <2>1, <2>2, <2>3
<1>8. CASE TimesOut(p)
  <2>1. PICK down : /\ TableKept(p)
                    /\ table[p] = "freed" => statuses'[p] = statuses[p]
                    /\ table[p] # "freed" =>
                        statuses'[p] = Reopened(p, statuses[p],
                                                GivenUp(download_pool[p], down))
    BY <1>8 DEF TimesOut
  <2>2. j \in DOMAIN statuses[p]
    BY <1>1, <2>1 DEF TableKept
  <2>3. statuses'[p][j] \in {"NOT_DOWNLOADED", statuses[p][j]}
    BY <2>1, <2>2 DEF Reopened
  <2> QED
    BY <1>3, <2>1, <2>3
<1>9. CASE Asks(p)
  BY <1>9 DEF Asks
<1>10. CASE Begins(p)
  BY <1>10 DEF Begins
<1> QED
  BY <1>4, <1>5, <1>6, <1>7, <1>8, <1>9, <1>10, NextTableStep DEF TableStep

\* Peers start without a table.
LEMMA InitIntact == Init => DoneIsIntact
  BY DEF Init, DoneIsIntact

\* Whatever was lost, duplicated, reordered or left over from an earlier
\* connection, and whatever users do, a chunk that counts as downloaded is the
\* chunk of its hash.
THEOREM DoneAlwaysIntact == Spec => []DoneIsIntact
<1>1. Init => TypeOK /\ DoneIsIntact
  BY InitType, InitIntact
<1>2. TypeOK /\ DoneIsIntact /\ [Next]_vars => (TypeOK /\ DoneIsIntact)'
  BY NextType, NextIntact
<1> QED
  BY <1>1, <1>2, PTL DEF Spec

-----------------------------------------------------------------------------
(* DoneIsFinal. *)

\* A connection is for a chunk that is DOWNLOADING, so neither its end nor its
\* give-up writes the status of a chunk that is DONE.
LEMMA NextFinal ==
    ASSUME TypeOK, DownloadingIffConnected, [Next]_vars, NEW p \in Peer,
           table[p] = "live", gets'[p] = gets[p], run'[p] = run[p],
           NEW j \in DOMAIN chunks[p], statuses[p][j] = "DONE"
    PROVE  statuses'[p][j] = "DONE"
<1> DEFINE pool == download_pool[p]
           st == statuses[p]
<1>1. /\ chunks[p] \in Seq(Hash)
      /\ st \in [DOMAIN chunks[p] -> Status]
      /\ max_conn[p] \in Nat
      /\ pool \in PoolOf(max_conn[p], DownloadConnection)
  BY PoolConstants DEF TypeOK, TableOK, ConnOK
<1>2. Fetching(pool, chunks[p], j) = {}
  BY AgreesIsInvariant DEF Agrees
<1>3. CASE Untouched(p) \/ Writes(p)
  BY <1>3 DEF Untouched, Writes
<1>4. CASE Starts(p)
  <2>1. PICK h \in Hash :
          /\ st[IndexOf(chunks[p], h)] = "NOT_DOWNLOADED"
          /\ statuses'[p] = WithStatus(chunks[p], st, h, "DOWNLOADING")
    BY <1>4 DEF Starts
  <2>2. IndexOf(chunks[p], h) # j
    BY <2>1
  <2> QED
    BY <1>1, <2>1, <2>2 DEF WithStatus
<1>5. CASE Finishes(p)
  <2>1. PICK q \in Peer, s \in {"DONE", "NOT_DOWNLOADED"} :
          /\ Connected(pool, q)
          /\ statuses'[p] = WithStatus(chunks[p], st, Find(pool, q).sha1, s)
    BY <1>5 DEF Finishes
  <2> DEFINE h == Find(pool, q).sha1
  <2>2. /\ Min(SlotsOf(pool, q)) \in Occupied(pool)
        /\ pool.connections[Min(SlotsOf(pool, q))].sha1 = h
    BY <1>1, <2>1, PoolConstants, FindInPool
  <2>3. ~(Listed(chunks[p], h) /\ IndexOf(chunks[p], h) = j)
    BY <1>2, <2>2 DEF Fetching
  <2> QED
    BY <1>1, <2>1, <2>3 DEF WithStatus
<1>6. CASE TimesOut(p)
  <2>1. PICK down \in SUBSET Occupied(pool) :
          statuses'[p] = Reopened(p, st, GivenUp(pool, down))
    BY <1>6 DEF TimesOut
  <2>2. GivenUp(pool, down) \subseteq Occupied(pool)
    BY DEF GivenUp
  <2>3. ~ \E k \in GivenUp(pool, down) :
            LET sha1 == pool.connections[k].sha1
            IN  Listed(chunks[p], sha1) /\ IndexOf(chunks[p], sha1) = j
    BY <1>2, <2>2 DEF Fetching
  <2> QED
    BY <1>1, <2>1, <2>3 DEF Reopened
<1>7. ~Asks(p) /\ ~Begins(p)
  BY DEF Asks, Begins
<1> QED
  BY <1>3, <1>4, <1>5, <1>6, <1>7, NextTableStep DEF TableStep

\* If users do not ask for a file while a download is under way, no late IHAVE,
\* give-up or failed SHA-1 makes a chunk that was downloaded to be downloaded
\* again for the same command.
THEOREM DoneStaysDone ==
    ASSUME ~Overlap
    PROVE  Spec => DoneIsFinal
<1> DEFINE Inv == TypeOK /\ PoolsConsistent /\ DownloadingIffConnected
           A == \A p \in Peer :
                    table[p] = "live" /\ gets'[p] = gets[p] /\ run'[p] = run[p] =>
                        \A j \in DOMAIN chunks[p] :
                            statuses[p][j] = "DONE" => statuses'[p][j] = "DONE"
<1>1. Init => Inv
  BY InitType, InitPools, InitDownloading
<1>2. Inv /\ [Next]_vars => Inv'
  BY NextType, NextPools, NextDownloading
<1>3. Inv /\ [Next]_vars => A
  BY NextFinal
<1> HIDE DEF A, Inv
<1>4. Spec => [][A]_vars
  BY <1>1, <1>2, <1>3, PTL DEF Spec
<1> QED
  BY <1>4 DEF A, DoneIsFinal

-----------------------------------------------------------------------------
(* Swarm implements Download. *)

\* A peer without a table has no chunks, and a table in use has a chunk that is
\* not DONE: the step that saves the last one also frees the table.
Unfinished ==
    \A p \in Peer :
        /\ table[p] = "none" => chunks[p] = <<>>
        /\ table[p] = "live" => ~AllDone(statuses[p])

\* There is no table at the start.
LEMMA InitUnfinished == Init => Unfinished
  BY DEF Init, Unfinished

\* No step leaves a table in use with all its chunks DONE.
LEMMA NextUnfinished ==
    ASSUME TypeOK, Unfinished, [Next]_vars
    PROVE  Unfinished'
<1> SUFFICES ASSUME NEW p \in Peer
             PROVE  /\ table'[p] = "none" => chunks'[p] = <<>>
                    /\ table'[p] = "live" => ~AllDone(statuses'[p])
  BY DEF Unfinished
<1>1. /\ chunks[p] \in Seq(Hash)
      /\ statuses[p] \in [DOMAIN chunks[p] -> Status]
      /\ table[p] \in {"none", "live", "freed"}
      /\ table[p] = "none" => chunks[p] = <<>>
      /\ table[p] = "live" => ~AllDone(statuses[p])
  BY DEF TypeOK, TableOK, Unfinished
<1>2. CASE Untouched(p) \/ Writes(p)
  BY <1>1, <1>2 DEF Untouched, Writes, TableKept
<1>3. CASE Starts(p)
  <2>1. PICK h \in Hash :
          /\ TableKept(p)
          /\ table[p] # "freed" =>
              /\ Listed(chunks[p], h)
              /\ statuses'[p] = WithStatus(chunks[p], statuses[p], h, "DOWNLOADING")
    BY <1>3 DEF Starts
  <2>2. Listed(chunks[p], h) => IndexOf(chunks[p], h) \in DOMAIN chunks[p]
    BY <1>1, IndexOfHash
  <2>3. ASSUME table[p] = "live"
        PROVE  ~AllDone(statuses'[p])
    <3>1. statuses'[p] =
            [statuses[p] EXCEPT ![IndexOf(chunks[p], h)] = "DOWNLOADING"]
      BY <2>1, <2>3 DEF WithStatus
    <3>2. statuses'[p][IndexOf(chunks[p], h)] = "DOWNLOADING"
      BY <1>1, <2>1, <2>2, <2>3, <3>1
    <3> QED
      BY <1>1, <2>1, <2>2, <2>3, <3>1, <3>2 DEF AllDone
  <2> QED
    BY <1>1, <2>1, <2>3 DEF TableKept
<1>4. CASE Finishes(p)
  BY <1>1, <1>4 DEF Finishes
<1>5. CASE TimesOut(p)
  <2>1. PICK down :
          /\ TableKept(p)
          /\ table[p] # "freed" =>
              statuses'[p] = Reopened(p, statuses[p],
                                      GivenUp(download_pool[p], down))
    BY <1>5 DEF TimesOut
  <2>2. ASSUME table[p] = "live"
        PROVE  ~AllDone(statuses'[p])
    BY <1>1, <2>1, <2>2 DEF Reopened, AllDone
  <2> QED
    BY <1>1, <2>1, <2>2 DEF TableKept
<1>6. CASE Asks(p)
  <2>1. /\ chunks'[p] \in ChunkFile
        /\ table'[p] = "live"
        /\ \A j \in DOMAIN chunks'[p] : statuses'[p][j] = "NOT_DOWNLOADED"
    BY <1>6, Peers_Assumption DEF Asks
  <2>2. DOMAIN statuses'[p] = DOMAIN chunks'[p]
    BY NextType DEF TypeOK, TableOK
  <2>3. 1 \in DOMAIN chunks'[p]
    BY <2>1 DEF ChunkFile
  <2> QED
    BY <2>1, <2>2, <2>3 DEF AllDone
<1>7. CASE Begins(p)
  BY <1>7 DEF Begins
<1> QED
  BY <1>2, <1>3, <1>4, <1>5, <1>6, <1>7, NextTableStep DEF TableStep

-----------------------------------------------------------------------------
(* What a step does to what the user of p sees. *)

SeesTheSame(p) ==
    /\ chunks'[p] = chunks[p]
    /\ Saves(p)' = Saves(p)
    /\ Written(p)' = Written(p)

SeesOneMore(p) ==
    \E j \in DOMAIN chunks[p] \ Saves(p) :
        /\ chunks'[p] = chunks[p]
        /\ Saves(p)' = Saves(p) \cup {j}
        /\ Written(p)' = IF Saves(p) \cup {j} = DOMAIN chunks[p] THEN chunks[p]
                         ELSE Written(p)

SeesNothing(p) ==
    /\ chunks'[p] \in ChunkFiles[p] \cup {<<>>}
    /\ Saves(p)' = {}
    /\ Written(p)' = <<>>

\* The statuses a give-up or a start writes are not DONE, and were not.
LEMMA NoneSaved ==
    ASSUME NEW p, TableKept(p),
           \A j \in DOMAIN chunks[p] :
               statuses'[p][j] = "DONE" <=> statuses[p][j] = "DONE"
    PROVE  SeesTheSame(p)
  BY DEF SeesTheSame, Saves, Written, TableKept

\* A file of intact chunks is written as it was asked for.
LEMMA IntactFile ==
    ASSUME NEW file \in Seq(Hash), NEW data,
           \A j \in DOMAIN file : data[j] = "intact"
    PROVE  [j \in DOMAIN file |-> IF data[j] = "intact" THEN file[j] ELSE NULL]
           = file
<1>1. file = [j \in DOMAIN file |-> file[j]]
  OBVIOUS
<1> QED
  BY <1>1

\* The last packet of a chunk: the chunk was DOWNLOADING, because p had a
\* connection for it.  If it is intact, p has one more chunk.
LEMMA FinishSeen ==
    ASSUME TypeOK, TypeOK', DownloadingIffConnected, DoneIsIntact', Unfinished,
           NEW p \in Peer, Finishes(p), table[p] = "live"
    PROVE  SeesTheSame(p) \/ SeesOneMore(p)
<1> DEFINE pool == download_pool[p]
           file == chunks[p]
           st == statuses[p]
           data == chunks_data[p]
<1>1. PICK q \in Peer, s \in {"DONE", "NOT_DOWNLOADED"}, content \in Content :
        /\ Connected(pool, q)
        /\ chunks'[p] = file
        /\ table'[p] \in {table[p], "freed"}
        /\ LET h == Find(pool, q).sha1
           IN  /\ statuses'[p] = WithStatus(file, st, h, s)
               /\ chunks_data'[p] = WithStatus(file, data, h, content)
        /\ table'[p] = "freed" <=> AllDone(statuses'[p])
        /\ s = "DONE" => content = "intact"
  BY DEF Finishes
<1>2. /\ file \in Seq(Hash)
      /\ st \in [DOMAIN file -> Status]
      /\ data \in [DOMAIN file -> Content]
      /\ max_conn[p] \in Nat
      /\ pool \in PoolOf(max_conn[p], DownloadConnection)
  BY PoolConstants DEF TypeOK, TableOK, ConnOK
<1>3. ~AllDone(st)
  BY DEF Unfinished
<1>4. Written(p) = <<>>
  BY DEF Written
<1> DEFINE h == Find(pool, q).sha1
           j == IndexOf(file, h)
<1>5. CASE ~Listed(file, h)
  <2>1. statuses'[p] = st /\ chunks_data'[p] = data
    BY <1>1, <1>5 DEF WithStatus
  <2>2. table'[p] = "live"
    BY <1>1, <1>3, <2>1
  <2> QED
    BY <1>1, <2>1, <2>2 DEF SeesTheSame, Saves, Written
<1>6. CASE Listed(file, h)
  <2>1. j \in DOMAIN file
    BY <1>2, <1>6, IndexOfHash
  <2>2. st[j] = "DOWNLOADING"
    <3>1. /\ Min(SlotsOf(pool, q)) \in Occupied(pool)
          /\ pool.connections[Min(SlotsOf(pool, q))].sha1 = h
      BY <1>1, <1>2, PoolConstants, FindInPool
    <3>2. Fetching(pool, file, j) # {}
      BY <1>6, <3>1 DEF Fetching
    <3> QED
      BY <2>1, <3>2, AgreesIsInvariant DEF Agrees
  <2>3. /\ statuses'[p] = [st EXCEPT ![j] = s]
        /\ chunks_data'[p] = [data EXCEPT ![j] = content]
    BY <1>1, <1>6 DEF WithStatus
  <2> HIDE DEF j, h, pool
  <2>4. \A i \in DOMAIN file :
          /\ statuses'[p][i] = IF i = j THEN s ELSE st[i]
          /\ chunks_data'[p][i] = IF i = j THEN content ELSE data[i]
    BY <1>2, <2>3
  <2>5. j \notin Saves(p)
    BY <2>2 DEF Saves
  <2>6. CASE s = "NOT_DOWNLOADED"
    <3>1. Saves(p)' = Saves(p)
      BY <1>1, <2>4, <2>5, <2>6 DEF Saves
    <3>2. DOMAIN statuses'[p] = DOMAIN file
      BY <1>2, <2>3
    <3>3. ~AllDone(statuses'[p])
      BY <2>1, <2>4, <2>6, <3>2 DEF AllDone
    <3>4. Written(p)' = <<>>
      BY <1>1, <3>3 DEF Written
    <3> QED
      BY <1>1, <1>4, <3>1, <3>4 DEF SeesTheSame
  <2>7. CASE s = "DONE"
    <3>1. Saves(p)' = Saves(p) \cup {j}
      BY <1>1, <2>1, <2>4, <2>7 DEF Saves
    <3>2. DOMAIN statuses'[p] = DOMAIN file
      BY <1>2, <2>3
    <3>3. \A i \in DOMAIN file :
            statuses'[p][i] = "DONE" => chunks_data'[p][i] = "intact"
      BY <1>1 DEF DoneIsIntact
    <3>4. AllDone(statuses'[p]) <=> Saves(p)' = DOMAIN file
      BY <1>1, <3>2, <3>3 DEF AllDone, Saves
    <3>5. CASE Saves(p)' = DOMAIN file
      <4>1. table'[p] = "freed"
        BY <1>1, <3>4, <3>5
      <4>2. \A i \in DOMAIN file : chunks_data'[p][i] = "intact"
        BY <1>1, <3>5 DEF Saves
      <4>3. Written(p)' = file
        BY <1>1, <1>2, <4>1, <4>2, IntactFile DEF Written
      <4> QED
        BY <1>1, <2>1, <2>5, <3>1, <3>5, <4>3 DEF SeesOneMore
    <3>6. CASE Saves(p)' # DOMAIN file
      <4>1. Written(p)' = <<>>
        BY <1>1, <3>4, <3>6 DEF Written
      <4> QED
        BY <1>1, <1>4, <2>1, <2>5, <3>1, <3>6, <4>1 DEF SeesOneMore
    <3> QED
      BY <3>5, <3>6
  <2> QED
    BY <2>6, <2>7
<1> QED
  BY <1>5, <1>6

\* The other steps: only a chunk that is NOT_DOWNLOADED is started, and only one
\* that is DOWNLOADING is opened again.
LEMMA StepSeen ==
    ASSUME TypeOK, TypeOK', DownloadingIffConnected, DoneIsIntact', Unfinished,
           NEW p \in Peer, TableStep(p)
    PROVE  SeesTheSame(p) \/ SeesOneMore(p) \/ SeesNothing(p)
<1> DEFINE pool == download_pool[p]
           file == chunks[p]
           st == statuses[p]
<1>1. /\ file \in Seq(Hash)
      /\ st \in [DOMAIN file -> Status]
      /\ chunks_data[p] \in [DOMAIN file -> Content]
      /\ table[p] \in {"none", "live", "freed"}
      /\ table[p] = "none" => file = <<>>
  BY DEF TypeOK, TableOK, Unfinished
<1>2. CASE Untouched(p) \/ Writes(p)
  BY <1>2, NoneSaved DEF Untouched, Writes, TableKept
<1>3. CASE Starts(p)
  <2>1. PICK h \in Hash :
          /\ TableKept(p)
          /\ table[p] = "freed" => statuses'[p] = st
          /\ table[p] # "freed" =>
              /\ Listed(file, h)
              /\ st[IndexOf(file, h)] = "NOT_DOWNLOADED"
              /\ statuses'[p] = WithStatus(file, st, h, "DOWNLOADING")
    BY <1>3 DEF Starts
  <2>2. ASSUME NEW j \in DOMAIN file
        PROVE  statuses'[p][j] = "DONE" <=> st[j] = "DONE"
    <3>1. CASE table[p] = "freed"
      BY <2>1, <3>1
    <3>2. CASE table[p] # "freed"
      <4>1. statuses'[p] = [st EXCEPT ![IndexOf(file, h)] = "DOWNLOADING"]
        BY <2>1, <3>2 DEF WithStatus
      <4> QED
        BY <1>1, <2>1, <3>2, <4>1
    <3> QED
      BY <3>1, <3>2
  <2> QED
    BY <2>1, <2>2, NoneSaved
<1>4. CASE Finishes(p)
  <2>1. CASE table[p] = "live"
    BY <1>4, <2>1, FinishSeen
  <2>2. CASE table[p] = "freed"
    <3>1. TableKept(p) /\ statuses'[p] = st
      BY <1>4, <2>2 DEF Finishes, TableKept
    <3> QED
      BY <3>1, NoneSaved
  <2>3. CASE table[p] = "none"
    <3>1. file = <<>> /\ chunks'[p] = <<>>
      BY <1>1, <1>4, <2>3 DEF Finishes
    <3>2. Saves(p) = {} /\ Saves(p)' = {}
      BY <3>1 DEF Saves
    <3>3. <<>> \in Seq(Hash)
      OBVIOUS
    <3>4. Written(p) = <<>>
      BY <2>3 DEF Written
    <3>5. Written(p)' = <<>>
      BY <3>1, <3>3, IntactFile DEF Written
    <3> QED
      BY <3>1, <3>2, <3>4, <3>5 DEF SeesTheSame
  <2> QED
    BY <1>1, <2>1, <2>2, <2>3
<1>5. CASE TimesOut(p)
  <2>1. PICK down \in SUBSET Occupied(pool) :
          /\ TableKept(p)
          /\ table[p] = "freed" => statuses'[p] = st
          /\ table[p] # "freed" => statuses'[p] = Reopened(p, st, GivenUp(pool, down))
    BY <1>5 DEF TimesOut
  <2>2. GivenUp(pool, down) \subseteq Occupied(pool)
    BY DEF GivenUp
  <2>3. ASSUME NEW j \in DOMAIN file
        PROVE  statuses'[p][j] = "DONE" <=> st[j] = "DONE"
    <3>1. CASE table[p] = "freed"
      BY <2>1, <3>1
    <3>2. CASE table[p] = "live"
      <4> DEFINE opened == \E k \in GivenUp(pool, down) :
                     LET sha1 == pool.connections[k].sha1
                     IN  Listed(file, sha1) /\ IndexOf(file, sha1) = j
      <4>1. opened => st[j] = "DOWNLOADING"
        BY <2>2, <3>2, AgreesIsInvariant DEF Agrees, Fetching
      <4>2. statuses'[p][j] = IF opened THEN "NOT_DOWNLOADED" ELSE st[j]
        BY <1>1, <2>1, <3>2 DEF Reopened
      <4> QED
        BY <4>1, <4>2
    <3> QED
      BY <1>1, <3>1, <3>2
  <2> QED
    BY <2>1, <2>3, NoneSaved
<1>6. CASE Asks(p)
  BY <1>6 DEF Asks, SeesNothing, Saves, Written
<1>7. CASE Begins(p)
  BY <1>7 DEF Begins, SeesNothing, Saves, Written
<1> QED
  BY <1>2, <1>3, <1>4, <1>5, <1>6, <1>7 DEF TableStep
-----------------------------------------------------------------------------
(* The refinement. *)

\* Nobody has asked for anything at the start.
LEMMA InitPromise == Init => Promise!Init
<1> SUFFICES ASSUME Init
             PROVE  Promise!Init
  OBVIOUS
<1>1. \A p \in Peer : Saves(p) = {} /\ Written(p) = <<>>
  BY DEF Init, Saves, Written
<1> QED
  BY <1>1 DEF Init, Promise!Init

\* One peer sees something else, the others see what they saw.
LEMMA NextPromise ==
    ASSUME TypeOK, TypeOK', DownloadingIffConnected, DoneIsIntact', Unfinished,
           [Next]_vars
    PROVE  [Promise!Next]_(Promise!vars)
<1> DEFINE got == [p \in Peer |-> Saves(p)]
           output == [p \in Peer |-> Written(p)]
<1>1. /\ DOMAIN chunks = Peer /\ chunks = [p \in Peer |-> chunks[p]]
      /\ DOMAIN chunks' = Peer /\ chunks' = [p \in Peer |-> chunks'[p]]
  BY DEF TypeOK, TableOK
<1>2. ASSUME NEW t, Untouched(t)
      PROVE  SeesTheSame(t)
  BY <1>2, NoneSaved DEF Untouched
<1>3. CASE \A t \in Peer : SeesTheSame(t)
  <2>1. chunks' = chunks
    BY <1>1, <1>3 DEF SeesTheSame
  <2>2. got' = got /\ output' = output
    BY <1>3 DEF SeesTheSame
  <2> QED
    BY <2>1, <2>2 DEF Promise!vars
<1>4. ASSUME NEW p \in Peer, \A t \in Peer \ {p} : SeesTheSame(t)
      PROVE  /\ chunks' = [chunks EXCEPT ![p] = chunks'[p]]
             /\ got' = [got EXCEPT ![p] = Saves(p)']
             /\ output' = [output EXCEPT ![p] = Written(p)']
  <2>1. chunks' = [chunks EXCEPT ![p] = chunks'[p]]
    BY <1>1, <1>4 DEF SeesTheSame
  <2>2. /\ \A t \in Peer \ {p} : Saves(t)' = Saves(t)
        /\ \A t \in Peer \ {p} : Written(t)' = Written(t)
    BY <1>4 DEF SeesTheSame
  <2> QED
    BY <2>1, <2>2
<1>5. ASSUME NEW p \in Peer, \A t \in Peer \ {p} : SeesTheSame(t), SeesOneMore(p)
      PROVE  Promise!Next
  <2>1. PICK j \in DOMAIN chunks[p] \ Saves(p) :
          /\ chunks'[p] = chunks[p]
          /\ Saves(p)' = Saves(p) \cup {j}
          /\ Written(p)' = IF Saves(p) \cup {j} = DOMAIN chunks[p]
                           THEN chunks[p] ELSE Written(p)
    BY <1>5 DEF SeesOneMore
  <2>2. got[p] = Saves(p) /\ output[p] = Written(p)
    OBVIOUS
  <2>3. chunks' = chunks
    <3>1. \A t \in Peer : chunks'[t] = chunks[t]
      BY <1>5, <2>1 DEF SeesTheSame
    <3> QED
      BY <1>1, <3>1
  <2>4. Promise!Save(p, j)
    BY <1>4, <1>5, <2>1, <2>2, <2>3 DEF Promise!Save
  <2> QED
    BY <2>4 DEF Promise!Next
<1>6. ASSUME NEW p \in Peer, \A t \in Peer \ {p} : SeesTheSame(t), SeesNothing(p)
      PROVE  Promise!Next
  <2>1. Promise!Ask(p, chunks'[p])
    BY <1>4, <1>6 DEF SeesNothing, Promise!Ask
  <2> QED
    BY <1>6, <2>1 DEF SeesNothing, Promise!Next, Promise!Forget
<1>7. CASE \A t \in Peer : Untouched(t)
  BY <1>2, <1>3, <1>7
<1>8. ASSUME NEW p \in Peer, TableStep(p), \A t \in Peer \ {p} : Untouched(t)
      PROVE  [Promise!Next]_(Promise!vars)
  <2>1. \A t \in Peer \ {p} : SeesTheSame(t)
    BY <1>2, <1>8
  <2>2. SeesTheSame(p) \/ SeesOneMore(p) \/ SeesNothing(p)
    BY <1>8, StepSeen
  <2> QED
    BY <1>3, <1>5, <1>6, <2>1, <2>2
<1> QED
  BY <1>7, <1>8, NextTableSteps

\* If users do not ask for a file while a download is under way, they get what
\* Download promises: each chunk once, at its place, and the whole file with the
\* last one, whatever the network loses, duplicates and reorders and whoever is
\* killed.
THEOREM SwarmImplementsDownload ==
    ASSUME ~Overlap
    PROVE  Spec => ImplementsDownload
<1> DEFINE Inv == /\ TypeOK /\ PoolsConsistent /\ DownloadingIffConnected
                  /\ DoneIsIntact /\ Unfinished
<1>1. Init => Inv
  BY InitType, InitPools, InitDownloading, InitIntact, InitUnfinished
<1>2. Inv /\ [Next]_vars => Inv'
  BY NextType, NextPools, NextDownloading, NextIntact, NextUnfinished
<1>3. Init => Promise!Init
  BY InitPromise
<1>4. Inv /\ Inv' /\ [Next]_vars => [Promise!Next]_(Promise!vars)
  BY NextPromise
<1> HIDE DEF Inv
<1>5. Spec => Promise!Init /\ [][Promise!Next]_(Promise!vars)
  BY <1>1, <1>2, <1>3, <1>4, PTL DEF Spec
<1> QED
  BY <1>5 DEF ImplementsDownload, Promise!Spec
=============================================================================
