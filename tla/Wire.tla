-------------------------------- MODULE Wire --------------------------------
(***************************************************************************)
(* How a message becomes a datagram and a message again: packet.c,         *)
(* spiffy.c and the two ends of process_packets.c, with the sizes and the  *)
(* byte order of the peers' machine, which is little-endian.               *)
(*                                                                         *)
(* A payload is the set of its hashes, or its bytes as one value.  What    *)
(* memory holds behind a packet may be sent with it; no receiver looks at  *)
(* it.                                                                     *)
(***************************************************************************)
EXTENDS Integers, SequencesExt, FiniteSetsExt

CONSTANTS
    nodes_map,       \* the nodes that nodes.map lists: id, address and port
    Unknown          \* what is read from memory that was not received

MAX_SIZE == 1500
HEADER_SIZE == 16
SHA1_HASH_SIZE == 20
MAX_CHUNKS_NUM == (MAX_SIZE - HEADER_SIZE - 4) \div SHA1_HASH_SIZE

MAGIC == 15441
VERSION == 1
Types == <<"WHOHAS", "IHAVE", "GET", "DATA", "ACK", "DENIED">>

SPIFFY_HEADER_SIZE == 16
PACKETSIZEMAX == 2048

-----------------------------------------------------------------------------
(* nodes.map, which the peers and hupsim.pl read. *)

\* bt_parse_peer_list: every line is put in front of the list.
config_peers == Reverse(nodes_map)

\* The first of the list with an id, ...
bt_peer_info(id) ==
    LET known == {i \in DOMAIN config_peers : config_peers[i].id = id}
    IN  config_peers[Min(known)]

\* ... or with a port, whatever its address: the address of a peer is 0.0.0.0
\* in what it sends.
find_peer(port) ==
    LET known == {i \in DOMAIN config_peers : config_peers[i].port = port}
    IN  IF known = {} THEN Unknown ELSE config_peers[Min(known)].id

\* main of hupsim.pl: of two lines with the same address, the later counts.
nodes(addr, port) ==
    LET lines == {i \in DOMAIN nodes_map :
                     nodes_map[i].addr = addr /\ nodes_map[i].port = port}
    IN  IF lines = {} THEN Unknown ELSE nodes_map[Max(lines)].id

-----------------------------------------------------------------------------
(* Byte order. *)

\* htons and ntohs.
Swap(n) == (n % 256) * 256 + n \div 256

\* htonl: the two halves in the order of memory, as TLC has no 32 bits ...
Words(n) == <<Swap(n \div 65536), Swap(n % 65536)>>

\* ... and ntohl.
Number(w) == Swap(w[1]) * 65536 + Swap(w[2])

hton_packet(h) ==
    [magic |-> Swap(h.magic), version |-> h.version, type |-> h.type,
     header_len |-> Swap(h.header_len), packet_len |-> Swap(h.packet_len),
     seq_num |-> Words(h.seq_num), ack_num |-> Words(h.ack_num)]

\* Mutant: the ACK number is taken from the place of the sequence number.
ntoh_packet_seq(h) ==
    [magic |-> Swap(h.magic), version |-> h.version, type |-> h.type,
     header_len |-> Swap(h.header_len), packet_len |-> Swap(h.packet_len),
     seq_num |-> Number(h.seq_num), ack_num |-> Number(h.seq_num)]

ntoh_packet(h) ==
    [magic |-> Swap(h.magic), version |-> h.version, type |-> h.type,
     header_len |-> Swap(h.header_len), packet_len |-> Swap(h.packet_len),
     seq_num |-> Number(h.seq_num), ack_num |-> Number(h.ack_num)]

-----------------------------------------------------------------------------
(* Messages: make_WHOHAS and the others, up to the byte order. *)

Message(type, data_len, seq_num, ack_num, data) ==
    [type |-> type, data_len |-> data_len, seq_num |-> seq_num,
     ack_num |-> ack_num, data |-> data]

\* Room for chunks_num hashes; those of chunks that are not wanted are left out.
WHOHAS(chunks_num, sha1s) ==
    Message("WHOHAS", 4 + chunks_num * SHA1_HASH_SIZE, 0, 0, sha1s)

IHAVE(sha1s) ==
    Message("IHAVE", 4 + Cardinality(sha1s) * SHA1_HASH_SIZE, 0, 0, sha1s)

GET(sha1) == Message("GET", SHA1_HASH_SIZE, 0, 0, {sha1})

DATA(seq_num, bytes) == Message("DATA", 1024, seq_num, 0, {bytes})

ACK(ack_num) == Message("ACK", 0, 0, ack_num, {})

\* Whatever the peers send of chunks with these names and parts.
Sendable(Hash, Bytes) ==
    {WHOHAS(n, s) : n \in 0 .. MAX_CHUNKS_NUM, s \in SUBSET Hash}
    \cup {IHAVE(s) : s \in {t \in SUBSET Hash : /\ IsFiniteSet(t)
                                             /\ Cardinality(t) <= MAX_CHUNKS_NUM}}
    \cup {GET(h) : h \in Hash}
    \cup {DATA(n, b) : n \in 1 .. 512, b \in Bytes}
    \cup {ACK(n) : n \in 0 .. 512}

\* How many WHOHAS process_download makes of a table of n chunks.
PacketsFor(n) == IF n > MAX_CHUNKS_NUM THEN n \div MAX_CHUNKS_NUM + 1 ELSE 1

\* The entries of the table that the k-th of them is for.
Part(n, k) == (k - 1) * MAX_CHUNKS_NUM + 1 .. Min({k * MAX_CHUNKS_NUM, n})

\* process_download: the requests for the chunks of a table of n that are wanted.
Requests(n, wanted) ==
    [k \in 1 .. PacketsFor(n) |->
        WHOHAS(Cardinality(Part(n, k)), Part(n, k) \cap wanted)]

-----------------------------------------------------------------------------
(* Sending. *)

Code(type) == (CHOOSE i \in DOMAIN Types : Types[i] = type) - 1

\* init_packet
Packet(m) ==
    [header |-> hton_packet([magic |-> MAGIC, version |-> VERSION,
                             type |-> Code(m.type), header_len |-> HEADER_SIZE,
                             packet_len |-> HEADER_SIZE + m.data_len,
                             seq_num |-> m.seq_num, ack_num |-> m.ack_num]),
     data |-> m.data]

\* spiffy_sendto.  The callers pass packet_len, which is in network order, as
\* the length of the packet.  No code reads the last two fields, which are there
\* to be compared with what is received.
Datagram(from, to, m) ==
    [ID |-> from, lSrcPort |-> bt_peer_info(from).port,
     lDestAddr |-> bt_peer_info(to).addr, lDestPort |-> bt_peer_info(to).port,
     packet |-> Packet(m), length |-> Packet(m).header.packet_len,
     to |-> to, message |-> m]

\* A buffer of size bytes, the spiffy header not counted, gets no more of it.
Cut(d, size) == [d EXCEPT !.length = Min({@, size})]

-----------------------------------------------------------------------------
(* Receiving. *)

\* NSRouter::recv: the node a datagram is for.
Destination(d) ==
    nodes(IF d.lDestAddr = "0.0.0.0" THEN "127.0.0.1" ELSE d.lDestAddr, d.lDestPort)

\* is_packet_valid
Valid(h) ==
    /\ h.magic = MAGIC /\ h.version = VERSION /\ h.type \in 0 .. 5
    /\ h.type = Code("DATA") => h.seq_num # 0 /\ h.ack_num = 0
    /\ h.type = Code("ACK") => h.seq_num = 0
    /\ h.type \notin {Code("DATA"), Code("ACK")} => h.seq_num = 0 /\ h.ack_num = 0

\* Every byte of the packet is in the datagram.
Whole(d) == d.length >= ntoh_packet(d.packet.header).packet_len

\* spiffy_recvfrom and process_PACKET: the message, if one reaches a handler.
Handled(datagram) ==
    LET d == Cut(datagram, MAX_SIZE)
        h == ntoh_packet(d.packet.header)
        m == Message(Types[h.type + 1], h.packet_len - HEADER_SIZE,
                     h.seq_num, h.ack_num, d.packet.data)
    IN  IF ~Whole(d) THEN <<Unknown>> ELSE IF Valid(h) THEN <<m>> ELSE <<>>
=============================================================================
